---------------------------- MODULE StatsProofs ----------------------------
(***************************************************************************)
(* The statistics pipeline implements the ledger for any number of matches,*)
(* players and reports, with every fault, time-out and crash allowed.      *)
(*                                                                         *)
(* That a match is recorded once does not follow from the types: between   *)
(* the INSERT of a transaction and its COMMIT another one could record the *)
(* same match.  ClaimsExclusive rules that out, and it is inductive only   *)
(* together with the types.                                                *)
(***************************************************************************)
EXTENDS StatsPipeline, MapLemmas, FiniteSetTheorems, SequenceTheorems

Player == [name : Name, kills : Kills]

\* A snapshot of the right kind.
SnapshotOK(s) == s \in Seq(Player) /\ Len(s) <= MaxPlayers

\* The inductive invariant.
Sound == TypeOK /\ ClaimsExclusive /\ AnswerHonest

\* The names that e has credited.
CreditedOf(e) == {e.found[i].name : i \in 1 .. e.credited}

\* e may be the next state of report r.
EntrySound(r, e) ==
  /\ ReportOK(e)
  /\ e.server = "open" =>
       /\ e.match \notin DOMAIN ledger
       /\ \A s \in Open : report[s].match = e.match => s = r
       /\ CreditedOf(e) \subseteq DOMAIN career
  /\ e.server \in {"committed", "duplicate"} \/ e.client = "ok"
       => e.match \in DOMAIN ledger

\* Every report satisfies what its next state must satisfy.
LEMMA SoundEntry ==
  ASSUME Sound, NEW r \in Started
  PROVE  EntrySound(r, report[r])
BY DEF Sound, TypeOK, ClaimsExclusive, AnswerHonest, EntrySound, CreditedOf, RowsOf, Open, Started

\* A report that goes on soundly disturbs no other one and nothing committed.
LEMMA StepSound ==
  ASSUME Sound, NEW r \in Started, NEW e, EntrySound(r, e), Step(r, e)
  PROVE  Sound' /\ UNCHANGED <<ledger, career>>
<1>1. /\ DOMAIN report' = DOMAIN report
      /\ report'[r] = e
      /\ \A s \in Started \ {r} : report'[s] = report[s]
  BY DEF Step, Started
<1>2. UNCHANGED <<buffer, ledger, details, career>>
  BY DEF Step, db
<1>3. TypeOK'
  BY <1>1, <1>2 DEF Sound, TypeOK, EntrySound, Started
<1>4. ClaimsExclusive'
  <2> SUFFICES ASSUME NEW q \in Open'
               PROVE  /\ report'[q].match \notin DOMAIN ledger
                      /\ \A s \in Open' : report'[s].match = report'[q].match => s = q
                      /\ RowsOf(q)' \subseteq DOMAIN career
    BY <1>2 DEF ClaimsExclusive
  <2>1. q \in Started /\ Open' \subseteq Started
    BY <1>1 DEF Open, Started
  <2>2. \A s \in Open' \ {r} : s \in Open /\ report'[s] = report[s]
    BY <1>1 DEF Open, Started
  <2>3. r \in Open' => e.server = "open"
    BY <1>1 DEF Open
  <2>4. CASE q = r
    <3>1. RowsOf(q)' = CreditedOf(e)
      BY <1>1, <2>4 DEF RowsOf, CreditedOf
    <3> QED
      BY <1>1, <2>2, <2>3, <2>4, <3>1 DEF EntrySound
  <2>5. CASE q # r
    <3>1. q \in Open /\ report'[q] = report[q]
      BY <2>2, <2>5
    <3>2. RowsOf(q)' = RowsOf(q)
      BY <3>1 DEF RowsOf
    <3>3. \A s \in Open' : report'[s].match = report'[q].match => s = q
      <4> SUFFICES ASSUME NEW s \in Open', report'[s].match = report'[q].match
                   PROVE  s = q
        OBVIOUS
      <4>1. CASE s = r
        BY <1>1, <2>3, <3>1, <4>1 DEF EntrySound
      <4>2. CASE s # r
        BY <2>2, <3>1, <4>2 DEF Sound, ClaimsExclusive
      <4> QED
        BY <4>1, <4>2
    <3> QED
      BY <3>1, <3>2, <3>3 DEF Sound, ClaimsExclusive
  <2> QED
    BY <2>4, <2>5
<1>5. AnswerHonest'
  BY <1>1, <1>2 DEF Sound, AnswerHonest, EntrySound, Started
<1> QED
  BY <1>2, <1>3, <1>4, <1>5 DEF Sound

\* A report of which one more player was looked up.
LEMMA LookedUpFields ==
  ASSUME NEW e \in ReportState, NEW n, NEW f
  PROVE  [e EXCEPT !.next = n, !.found = f] =
           [match |-> e.match, snapshot |-> e.snapshot, next |-> n, found |-> f,
            client |-> e.client, server |-> e.server, credited |-> e.credited]
<1>1. e = [match |-> e.match, snapshot |-> e.snapshot, next |-> e.next,
           found |-> e.found, client |-> e.client, server |-> e.server,
           credited |-> e.credited]
  BY Zenon DEF ReportState
<1> DEFINE m == e.match
           s == e.snapshot
           n0 == e.next
           f0 == e.found
           c == e.client
           v == e.server
           k == e.credited
<1> HIDE DEF m, s, n0, f0, c, v, k
<1>2. e = [match |-> m, snapshot |-> s, next |-> n0, found |-> f0, client |-> c,
           server |-> v, credited |-> k]
  BY <1>1, Zenon DEF m, s, n0, f0, c, v, k
<1>3. [e EXCEPT !.next = n, !.found = f] =
        [match |-> m, snapshot |-> s, next |-> n, found |-> f, client |-> c,
         server |-> v, credited |-> k]
  <2>1. [e EXCEPT !.next = n] =
          [match |-> m, snapshot |-> s, next |-> n, found |-> f0, client |-> c,
           server |-> v, credited |-> k]
    BY <1>2
  <2> DEFINE d == [e EXCEPT !.next = n]
  <2> HIDE DEF d
  <2>2. d = [match |-> m, snapshot |-> s, next |-> n, found |-> f0, client |-> c,
             server |-> v, credited |-> k]
    BY <2>1 DEF d
  <2>4. [d EXCEPT !.found = f] =
          [match |-> m, snapshot |-> s, next |-> n, found |-> f, client |-> c,
           server |-> v, credited |-> k]
    BY <2>2
  <2>3. [e EXCEPT !.next = n, !.found = f] = [d EXCEPT !.found = f]
    BY DEF d
  <2> QED
    BY <2>3, <2>4
<1> QED
  BY <1>3, Zenon DEF m, s, n0, f0, c, v, k

\* A player found has the name and the kills of the snapshot.
LEMMA FoundType ==
  ASSUME NEW e, ReportOK(e), e.next <= Len(e.snapshot), NEW id
  PROVE  LET f == Found(e.found, e.snapshot[e.next], id)
         IN  /\ f \in Seq([name : Name, kills : Kills, persona : BOOLEAN])
             /\ Len(f) <= Len(e.found) + 1
             /\ Len(f) >= Len(e.found)
<1>1. e.snapshot[e.next] \in Player
  <2>1. /\ e.snapshot \in Seq(Player)
        /\ e.next \in Nat \ {0}
    BY DEF ReportOK, ReportState, Player
  <2>2. e.next \in 1 .. Len(e.snapshot)
    BY <2>1
  <2> QED
    BY <2>1, <2>2, ElementOfSeq
<1> DEFINE p == e.snapshot[e.next]
           x == [name |-> p.name, kills |-> p.kills, persona |-> id = "persona"]
<1>2. x \in [name : Name, kills : Kills, persona : BOOLEAN]
  BY <1>1 DEF Player
<1>3. e.found \in Seq([name : Name, kills : Kills, persona : BOOLEAN])
  BY DEF ReportOK, ReportState
<1>4. CASE id = "nobody"
  BY <1>3, <1>4 DEF Found
<1>5. CASE id # "nobody"
  <2>1. Found(e.found, p, id) = Append(e.found, x)
    BY <1>5 DEF Found
  <2> HIDE DEF x, p
  <2>2. Append(e.found, x) \in Seq([name : Name, kills : Kills, persona : BOOLEAN])
    BY <1>2, <1>3
  <2>3. Len(Append(e.found, x)) = Len(e.found) + 1
    BY <1>3
  <2> QED
    BY <1>3, <2>1, <2>2, <2>3 DEF p
<1> QED
  BY <1>4, <1>5

\* A look-up adds at most one player to what was found.
LEMMA LookupSound ==
  ASSUME Sound, NEW r \in Started, Lookup(r)
  PROVE  Sound' /\ UNCHANGED <<ledger, career>>
<1> DEFINE e == report[r]
<1>1. EntrySound(r, e) /\ e.client = "lookup" /\ e.next <= Len(e.snapshot)
  BY SoundEntry DEF Lookup
<1>2. PICK id : Step(r, [e EXCEPT !.next = @ + 1,
                                  !.found = Found(@, e.snapshot[e.next], id)])
  BY DEF Lookup
<1> DEFINE f == Found(e.found, e.snapshot[e.next], id)
           d == [e EXCEPT !.next = @ + 1, !.found = f]
<1>3. ReportOK(e)
  BY <1>1 DEF EntrySound
<1>4. /\ f \in Seq([name : Name, kills : Kills, persona : BOOLEAN])
      /\ Len(f) <= Len(e.found) + 1
      /\ Len(f) >= Len(e.found)
  BY <1>1, <1>3, FoundType
<1>5. \A i \in 1 .. Len(e.found) : f[i] = e.found[i]
  BY <1>3 DEF Found, ReportOK, ReportState
<1>6. /\ e.found \in Seq([name : Name, kills : Kills, persona : BOOLEAN])
      /\ e.credited \in Nat /\ e.credited <= Len(e.found)
      /\ e.next \in Nat \ {0} /\ Len(e.found) < e.next
      /\ e \in ReportState /\ Len(e.snapshot) <= MaxPlayers
      /\ e.server \in {"none", "received"} => e.credited = 0
      /\ e.client = "lookup" => e.server = "none"
      /\ e.snapshot \in Seq([name : Name, kills : Kills])
  BY <1>3 DEF ReportOK, ReportState
<1> HIDE DEF f
<1>7. /\ d.match = e.match /\ d.snapshot = e.snapshot /\ d.next = e.next + 1
      /\ d.found = f /\ d.credited = e.credited
      /\ d.client = e.client /\ d.server = e.server
      /\ d \in ReportState
  <2>1. d = [match |-> e.match, snapshot |-> e.snapshot, next |-> e.next + 1,
             found |-> f, client |-> e.client, server |-> e.server,
             credited |-> e.credited]
    BY <1>6, LookedUpFields
  <2>2. e.next + 1 \in Nat \ {0}
    BY <1>6
  <2> HIDE DEF d
  <2>3. /\ e.match \in Match
        /\ e.client \in {"lookup", "posted", "ok", "failed"}
        /\ e.server \in {"none", "received", "open", "committed", "duplicate", "rejected"}
    BY <1>6 DEF ReportState
  <2>4. d \in ReportState
    BY <1>4, <1>6, <2>1, <2>2, <2>3 DEF ReportState
  <2> QED
    BY <2>1, <2>4
<1>8. Step(r, d)
  BY <1>2, <1>6 DEF f, ReportState
<1> HIDE DEF d
<1>9. ReportOK(d)
  <2>1. d.next <= Len(d.snapshot) + 1
    <3>1. Len(e.snapshot) \in Nat
      BY <1>6
    <3> QED
      BY <1>1, <1>6, <1>7, <3>1
  <2>2. Len(d.found) < d.next /\ d.credited <= Len(d.found)
    <3>1. Len(e.found) \in Nat /\ Len(f) \in Nat
      BY <1>4, <1>6
    <3> QED
      BY <1>4, <1>6, <1>7, <3>1
  <2> QED
    BY <1>6, <1>7, <2>1, <2>2 DEF ReportOK
<1>10. CreditedOf(d) = CreditedOf(e)
  <2>1. \A i \in 1 .. e.credited : f[i] = e.found[i]
    BY <1>5, <1>6
  <2> QED
    BY <1>7, <2>1 DEF CreditedOf
<1>11. EntrySound(r, d)
  BY <1>1, <1>7, <1>9, <1>10 DEF EntrySound
<1> QED
  BY <1>8, <1>11, StepSound

\* A step that changes how far client and server are, and no more, is sound when
\* it opens no transaction and claims no success that is not there.
LEMMA ProgressSound ==
  ASSUME Sound, NEW r \in Started,
         NEW client \in {"lookup", "posted", "ok", "failed"},
         NEW server \in {"none", "received", "open", "committed", "duplicate", "rejected"},
         server = "open" => report[r].server = "open",
         server \in {"none", "received"} => report[r].server \in {"none", "received"},
         client = "lookup" => server = "none",
         server \in {"committed", "duplicate"} \/ client = "ok"
           => report[r].match \in DOMAIN ledger,
         Step(r, [report[r] EXCEPT !.client = client, !.server = server])
  PROVE  Sound' /\ UNCHANGED <<ledger, career>>
<1> DEFINE e == report[r]
           d == [e EXCEPT !.client = client, !.server = server]
<1>1. EntrySound(r, e)
  BY SoundEntry
<1>2. e \in ReportState
  BY <1>1 DEF EntrySound, ReportOK
<1>3. /\ d.match = e.match /\ d.snapshot = e.snapshot /\ d.next = e.next
      /\ d.found = e.found /\ d.credited = e.credited
      /\ d.client = client /\ d.server = server
      /\ d \in ReportState
  BY <1>2 DEF ReportState
<1> HIDE DEF d
<1>4. ReportOK(d)
  BY <1>1, <1>3 DEF EntrySound, ReportOK
<1>5. EntrySound(r, d)
  BY <1>1, <1>3, <1>4 DEF EntrySound, CreditedOf
<1> QED
  BY <1>5, StepSound DEF d

\* Setting one of client and server leaves the other.
LEMMA OneOfTwo ==
  ASSUME NEW e \in ReportState, NEW c
  PROVE  /\ [e EXCEPT !.client = c] = [e EXCEPT !.client = c, !.server = e.server]
         /\ [e EXCEPT !.server = c] = [e EXCEPT !.client = e.client, !.server = c]
BY DEF ReportState

\* The type of a report, and of how far its two sides are.
LEMMA ReportTyped ==
  ASSUME Sound, NEW r \in Started
  PROVE  /\ report[r] \in ReportState
         /\ report[r].client \in {"lookup", "posted", "ok", "failed"}
         /\ report[r].server \in {"none", "received", "open", "committed",
                                  "duplicate", "rejected"}
BY DEF Sound, TypeOK, ReportOK, ReportState

\* fesl-engine moves on: the service's side of the report stays.
LEMMA ClientSound ==
  ASSUME Sound, NEW r \in Started, NEW client \in {"posted", "ok", "failed"},
         client = "ok" => report[r].match \in DOMAIN ledger,
         Step(r, [report[r] EXCEPT !.client = client])
  PROVE  Sound' /\ UNCHANGED <<ledger, career>>
<1> DEFINE server == report[r].server
<1>1. Step(r, [report[r] EXCEPT !.client = client, !.server = server])
  BY OneOfTwo, ReportTyped
<1>2. /\ server \in {"none", "received", "open", "committed", "duplicate", "rejected"}
      /\ server \in {"committed", "duplicate"} => report[r].match \in DOMAIN ledger
  BY ReportTyped DEF Sound, AnswerHonest
<1> QED
  BY <1>1, <1>2, ProgressSound

\* api-service ends a report without a commit: fesl-engine's side stays.
LEMMA ServerSound ==
  ASSUME Sound, NEW r \in Started, NEW server \in {"duplicate", "rejected"},
         report[r].server # "none",
         server = "duplicate" => report[r].match \in DOMAIN ledger,
         Step(r, [report[r] EXCEPT !.server = server])
  PROVE  Sound' /\ UNCHANGED <<ledger, career>>
<1> DEFINE client == report[r].client
<1>1. Step(r, [report[r] EXCEPT !.client = client, !.server = server])
  BY OneOfTwo, ReportTyped
<1>2. /\ client \in {"posted", "ok", "failed"}
      /\ client = "ok" => report[r].match \in DOMAIN ledger
  <2>1. client # "lookup"
    BY DEF Sound, TypeOK, ReportOK
  <2> QED
    BY <2>1, ReportTyped DEF Sound, AnswerHonest
<1> QED
  BY <1>1, <1>2, ProgressSound

\* A POST is received, or fails at once.
LEMMA PostSound ==
  ASSUME Sound, NEW r \in Started, Post(r)
  PROVE  Sound' /\ UNCHANGED <<ledger, career>>
<1> DEFINE e == report[r]
<1>1. e.server = "none"
  BY DEF Sound, TypeOK, ReportOK, Post
<1>2. CASE Step(r, [e EXCEPT !.client = "posted", !.server = "received"])
  BY <1>1, <1>2, ProgressSound
<1>3. CASE Step(r, [e EXCEPT !.client = "failed"])
  BY <1>3, ClientSound
<1> QED
  BY <1>2, <1>3 DEF Post

\* fesl-engine gives up and the request runs on.
LEMMA TimeoutSound ==
  ASSUME Sound, NEW r \in Started, Timeout(r)
  PROVE  Sound' /\ UNCHANGED <<ledger, career>>
BY ClientSound DEF Timeout

\* An answer arrives; a success is one for a match that is recorded.
LEMMA ReplySound ==
  ASSUME Sound, NEW r \in Started, Reply(r)
  PROVE  Sound' /\ UNCHANGED <<ledger, career>>
<1>1. CASE /\ report[r].server \in {"committed", "duplicate"}
           /\ Step(r, [report[r] EXCEPT !.client = "ok"])
  <2>1. report[r].match \in DOMAIN ledger
    BY <1>1 DEF Sound, AnswerHonest
  <2> QED
    BY <1>1, <2>1, ClientSound
<1>2. CASE Step(r, [report[r] EXCEPT !.client = "failed"])
  BY <1>2, ClientSound
<1> QED
  BY <1>1, <1>2 DEF Reply

\* A transaction that is aborted leaves nothing.
LEMMA DeadlockVictimSound ==
  ASSUME Sound, NEW r \in Started, DeadlockVictim(r)
  PROVE  Sound' /\ UNCHANGED <<ledger, career>>
BY ServerSound DEF DeadlockVictim

\* So does one whose service or connection dies.
LEMMA ServiceFaultSound ==
  ASSUME Sound, NEW r \in Started, ServiceFault(r)
  PROVE  Sound' /\ UNCHANGED <<ledger, career>>
BY ServerSound DEF ServiceFault

\* The unique index: the transaction that inserts a match is alone with it.
LEMMA InsertMatchSound ==
  ASSUME Sound, NEW r \in Started, InsertMatch(r)
  PROVE  Sound' /\ UNCHANGED <<ledger, career>>
<1> DEFINE e == report[r]
<1>1. EntrySound(r, e) /\ e.server = "received" /\ e \in ReportState
  BY SoundEntry, ReportTyped DEF InsertMatch
<1>2. CASE e.match \in DOMAIN ledger
  BY <1>1, <1>2, ServerSound DEF InsertMatch
<1>3. CASE e.match \notin DOMAIN ledger
  <2> DEFINE d == [e EXCEPT !.server = "open"]
  <2>1. Step(r, d)
    BY <1>3 DEF InsertMatch
  <2>2. /\ d.match = e.match /\ d.snapshot = e.snapshot /\ d.next = e.next
        /\ d.found = e.found /\ d.credited = e.credited
        /\ d.client = e.client /\ d.server = "open"
        /\ d \in ReportState
    BY <1>1 DEF ReportState
  <2> HIDE DEF d
  <2>3. e.client # "lookup" /\ e.credited = 0
    BY <1>1 DEF EntrySound, ReportOK
  <2>4. ReportOK(d)
    BY <1>1, <2>2, <2>3 DEF EntrySound, ReportOK
  <2>5. \A s \in Open : report[s].match = e.match => s = r
    BY <1>1 DEF InsertMatch, WaitsFor
  <2>6. CreditedOf(d) = {}
    BY <2>2, <2>3 DEF CreditedOf
  <2>7. e.client = "ok" => e.match \in DOMAIN ledger
    BY <1>1 DEF EntrySound
  <2>8. EntrySound(r, d)
    BY <1>3, <2>2, <2>4, <2>5, <2>6, <2>7 DEF EntrySound
  <2> QED
    BY <2>1, <2>8, StepSound
<1> QED
  BY <1>2, <1>3

\* The rows a transaction has updated exist, because their personas did.
LEMMA IncrementSound ==
  ASSUME Sound, NEW r \in Started, Increment(r)
  PROVE  Sound' /\ UNCHANGED <<ledger, career>>
<1> DEFINE e == report[r]
           player == e.found[e.credited + 1]
           d == [e EXCEPT !.credited = @ + 1]
<1>1. EntrySound(r, e) /\ e.server = "open" /\ e.credited < Len(e.found) /\ e \in ReportState
  BY SoundEntry, ReportTyped DEF Increment
<1>2. CASE player.name \in DOMAIN career /\ Step(r, d)
  <2>1. /\ e.credited \in Nat /\ Len(e.found) \in Nat
        /\ e.found \in Seq([name : Name, kills : Kills, persona : BOOLEAN])
    BY <1>1 DEF ReportState
  <2>2. e.credited + 1 \in Nat /\ e.credited + 1 <= Len(e.found)
    BY <1>1, <2>1
  <2>3. /\ d.match = e.match /\ d.snapshot = e.snapshot /\ d.next = e.next
        /\ d.found = e.found /\ d.credited = e.credited + 1
        /\ d.client = e.client /\ d.server = "open"
        /\ d \in ReportState
    BY <1>1, <2>2 DEF ReportState
  <2>4. Step(r, d)
    BY <1>2
  <2> HIDE DEF d
  <2>5. ReportOK(d)
    BY <1>1, <2>2, <2>3 DEF EntrySound, ReportOK
  <2>6. \A i \in 1 .. e.credited + 1 : i \in 1 .. e.credited \/ i = e.credited + 1
    BY <2>1
  <2>7. CreditedOf(d) \subseteq DOMAIN career
    BY <1>1, <1>2, <2>3, <2>6 DEF EntrySound, CreditedOf
  <2>8. EntrySound(r, d)
    BY <1>1, <2>3, <2>5, <2>7 DEF EntrySound
  <2> QED
    BY <2>4, <2>8, StepSound
<1>3. CASE Step(r, [e EXCEPT !.server = "rejected"])
  BY <1>1, <1>3, ServerSound
<1> QED
  BY <1>2, <1>3 DEF Increment

\* What the service credits is an entry of the ledger.
LEMMA PlayersEntry ==
  ASSUME Sound, NEW r \in Open, report[r].credited = Len(report[r].found)
  PROVE  /\ Players(report[r]) \in L!Entry
         /\ \A i \in DOMAIN Players(report[r]) :
              Players(report[r])[i].name \in DOMAIN career
<1> DEFINE e == report[r]
           k == Len(e.found)
<1>1. EntrySound(r, e) /\ e \in ReportState /\ e.server = "open"
  BY SoundEntry, ReportTyped DEF Open
<1>2. /\ e.found \in Seq([name : Name, kills : Kills, persona : BOOLEAN])
      /\ e.next \in Nat /\ e.snapshot \in Seq([name : Name, kills : Kills])
  BY <1>1 DEF ReportState
<1>3. k \in 0 .. MaxPlayers /\ DOMAIN e.found = 1 .. k
  <2>1. k \in Nat /\ Len(e.snapshot) \in Nat /\ DOMAIN e.found = 1 .. k
    BY <1>2
  <2>2. k < e.next /\ e.next <= Len(e.snapshot) + 1 /\ Len(e.snapshot) <= MaxPlayers
    BY <1>1 DEF EntrySound, ReportOK
  <2> QED
    BY <1>2, <2>1, <2>2, PipelineAssumption
<1>4. \A i \in 1 .. k : e.found[i].name \in DOMAIN career /\ e.found[i].kills \in Kills
  <2> SUFFICES ASSUME NEW i \in 1 .. k
               PROVE  e.found[i].name \in DOMAIN career /\ e.found[i].kills \in Kills
    OBVIOUS
  <2>1. e.found[i] \in [name : Name, kills : Kills, persona : BOOLEAN]
    BY <1>2, ElementOfSeq
  <2>2. e.found[i].name \in CreditedOf(e)
    BY DEF CreditedOf
  <2> QED
    BY <1>1, <2>1, <2>2 DEF EntrySound
<1>5. DOMAIN career \subseteq Soldier
  BY DEF Sound, TypeOK
<1>6. Players(e) \in [1 .. k -> [name : Soldier, kills : Kills]]
  BY <1>3, <1>4, <1>5 DEF Players
<1>7. Players(e) \in L!Entry
  BY <1>3, <1>6 DEF L!Entry
<1> QED
  BY <1>3, <1>4, <1>7 DEF Players

\* A commit records its match in the ledger, and leaves the others to theirs.
LEMMA CommitSound ==
  ASSUME Sound, NEW r \in Started, Commit(r)
  PROVE  Sound' /\ L!Next
<1> DEFINE e == report[r]
<1>1. r \in Open /\ e.credited = Len(e.found)
  BY DEF Commit, Open
<1>2. /\ EntrySound(r, e) /\ e \in ReportState /\ e.server = "open"
      /\ e.match \in Match
  BY SoundEntry, ReportTyped DEF Commit, ReportState
<1>3. L!Record(e.match, Players(e))
  <2>1. e.match \notin DOMAIN ledger
    BY <1>2 DEF EntrySound
  <2>2. \A i \in DOMAIN Players(e) : Players(e)[i].name \in DOMAIN career
    BY <1>1, PlayersEntry
  <2>3. ledger' = L!Put(ledger, e.match, Players(e))
    BY DEF Commit, Put, L!Put
  <2>4. career' = L!Credited(career, Players(e))
    BY DEF Commit, Credit
  <2> QED
    BY <2>1, <2>2, <2>3, <2>4 DEF L!Record
<1>4. L!Next
  BY <1>1, <1>2, <1>3, PlayersEntry DEF L!Next
<1> DEFINE d == [e EXCEPT !.server = "committed"]
<1>5. /\ d.match = e.match /\ d.snapshot = e.snapshot /\ d.next = e.next
      /\ d.found = e.found /\ d.credited = e.credited
      /\ d.client = e.client /\ d.server = "committed"
      /\ d \in ReportState
  BY <1>2 DEF ReportState
<1>6. /\ DOMAIN report' = DOMAIN report
      /\ report'[r] = d
      /\ \A s \in Started \ {r} : report'[s] = report[s]
  BY DEF Commit, Started
<1>7. /\ DOMAIN ledger' = DOMAIN ledger \cup {e.match}
      /\ DOMAIN details' = DOMAIN details \cup {e.match}
      /\ DOMAIN career' = DOMAIN career
      /\ buffer' = buffer
  BY DEF Commit, Credit, L!Credited, Put
<1> HIDE DEF d
<1>8. TypeOK'
  <2>1. ReportOK(d)
    BY <1>2, <1>5 DEF EntrySound, ReportOK
  <2> QED
    BY <1>2, <1>6, <1>7, <2>1 DEF Sound, TypeOK, Started
<1>9. ClaimsExclusive'
  <2>1. Open' = Open \ {r}
    BY <1>5, <1>6 DEF Open, Started
  <2>2. \A s \in Open' : /\ report'[s] = report[s]
                         /\ RowsOf(s)' = RowsOf(s)
    BY <1>6, <2>1 DEF Open, RowsOf
  <2>3. \A s \in Open' : report[s].match # e.match
    BY <1>1, <2>1 DEF Sound, ClaimsExclusive
  <2> QED
    BY <1>7, <2>1, <2>2, <2>3 DEF Sound, ClaimsExclusive
<1>10. AnswerHonest'
  BY <1>5, <1>6, <1>7 DEF Sound, AnswerHonest, Started
<1> QED
  BY <1>4, <1>8, <1>9, <1>10 DEF Sound

\* A frame starts at most a report, which claims nothing yet.
LEMMA FrameSound ==
  ASSUME Sound, NEW m \in Match, NEW snapshot, SnapshotOK(snapshot), UNCHANGED db,
         \/ TakeFinal(m, snapshot)
         \/ Remember(m, snapshot)
         \/ UNCHANGED <<buffer, report>>
  PROVE  Sound' /\ UNCHANGED <<ledger, career>>
<1>1. UNCHANGED <<ledger, details, career>>
  BY DEF db
<1>2. CASE UNCHANGED <<buffer, report>>
  <2>1. TypeOK'
    BY <1>1, <1>2 DEF Sound, TypeOK, Started
  <2>2. ClaimsExclusive'
    BY <1>1, <1>2 DEF Sound, ClaimsExclusive, Open, RowsOf, Started
  <2>3. AnswerHonest'
    BY <1>1, <1>2 DEF Sound, AnswerHonest, Started
  <2> QED
    BY <1>1, <2>1, <2>2, <2>3 DEF Sound
<1>3. CASE Remember(m, snapshot)
  <2>1. TypeOK'
    <3>1. /\ DOMAIN buffer' = DOMAIN buffer \cup {m}
          /\ buffer'[m] = snapshot
          /\ \A x \in DOMAIN buffer : x # m => buffer'[x] = buffer[x]
      BY <1>3 DEF Remember, Put
    <3>2. report' = report
      BY <1>3 DEF Remember
    <3>3. \A x \in DOMAIN buffer' : SnapshotOK(buffer'[x])
      BY <3>1 DEF Sound, TypeOK, SnapshotOK, Player
    <3> QED
      BY <1>1, <3>1, <3>2, <3>3 DEF Sound, TypeOK, Started, SnapshotOK, Player
  <2>2. ClaimsExclusive'
    BY <1>1, <1>3 DEF Sound, ClaimsExclusive, Open, RowsOf, Started, Remember
  <2>3. AnswerHonest'
    BY <1>1, <1>3 DEF Sound, AnswerHonest, Started, Remember
  <2> QED
    BY <1>1, <2>1, <2>2, <2>3 DEF Sound
<1>4. CASE TakeFinal(m, snapshot)
  <2> DEFINE last == IF m \in DOMAIN buffer THEN buffer[m] ELSE <<>>
             s == IF snapshot # <<>> THEN snapshot ELSE last
             d == StartReport(m, s)
             n == Cardinality(Started) + 1
  <2>1. PICK k \in 0 .. MaxReport : Started = 1 .. k
    BY DEF Sound, TypeOK
  <2>2. Cardinality(Started) = k
    BY <2>1, FS_Interval, PipelineAssumption
  <2>3. k < MaxReport /\ n = k + 1
    BY <1>4, <2>2 DEF TakeFinal
  <2>4. /\ report' = Put(report, n, d)
        /\ buffer' = Delete(buffer, m)
    BY <1>4 DEF TakeFinal
  <2>5. SnapshotOK(s)
    <3>1. SnapshotOK(<<>>)
      BY PipelineAssumption DEF SnapshotOK
    <3>2. m \in DOMAIN buffer => SnapshotOK(buffer[m])
      BY DEF Sound, TypeOK, SnapshotOK, Player
    <3> QED
      BY <3>1, <3>2
  <2> HIDE DEF s, n
  <2>6. ReportOK(d) /\ d.server = "none" /\ d.client = "lookup"
    BY <2>5 DEF StartReport, ReportOK, ReportState, SnapshotOK, Player
  <2> HIDE DEF d
  <2>7. /\ Started' = 1 .. k + 1
        /\ report'[n] = d
        /\ \A q \in Started : q # n /\ report'[q] = report[q]
        /\ Started' = Started \cup {n}
    BY <2>1, <2>3, <2>4 DEF Put, Started
  <2>8. TypeOK'
    <3>1. k + 1 \in 0 .. MaxReport
      BY <2>3, PipelineAssumption
    <3>2. \A q \in Started' : ReportOK(report'[q])
      BY <2>6, <2>7 DEF Sound, TypeOK
    <3>3. /\ DOMAIN buffer' \subseteq DOMAIN buffer
          /\ \A x \in DOMAIN buffer' : buffer'[x] = buffer[x]
      BY <2>4 DEF Delete, Without
    <3> QED
      BY <1>1, <2>7, <3>1, <3>2, <3>3 DEF Sound, TypeOK
  <2>9. Open' = Open /\ \A q \in Open : report'[q] = report[q] /\ RowsOf(q)' = RowsOf(q)
    BY <2>6, <2>7 DEF Open, RowsOf
  <2>10. ClaimsExclusive'
    BY <1>1, <2>9 DEF Sound, ClaimsExclusive
  <2>11. AnswerHonest'
    BY <1>1, <2>6, <2>7 DEF Sound, AnswerHonest
  <2> QED
    BY <1>1, <2>8, <2>10, <2>11 DEF Sound
<1> QED
  BY <1>2, <1>3, <1>4

\* A frame that arrives in one chunk, or in two.
LEMMA UpdgameSound ==
  ASSUME Sound, NEW m \in Match, NEW snapshot \in Snapshot, NEW done \in BOOLEAN,
         Updgame(m, snapshot, done) \/ SplitUpdgame(m, snapshot, done)
  PROVE  Sound' /\ UNCHANGED <<ledger, career>>
<1>1. SnapshotOK(snapshot) /\ SnapshotOK(<<>>)
  <2>1. SnapshotOK(snapshot)
    BY PipelineAssumption, Zenon DEF SnapshotOK, Player
  <2>2. SnapshotOK(<<>>)
    BY PipelineAssumption DEF SnapshotOK
  <2> QED
    BY <2>1, <2>2
<1>2. CASE Updgame(m, snapshot, done)
  BY <1>1, <1>2, FrameSound DEF Updgame
<1>3. CASE SplitUpdgame(m, snapshot, done)
  <2>1. UNCHANGED db
    BY <1>3 DEF SplitUpdgame
  <2>2. CASE UNCHANGED <<buffer, report>> \/ Remember(m, <<>>)
    BY <1>1, <2>1, <2>2, FrameSound
  <2>3. CASE \E k \in 0 .. Len(snapshot) - 1 :
               IF done THEN TakeFinal(m, SubSeq(snapshot, 1, k))
                       ELSE Remember(m, SubSeq(snapshot, 1, k))
    <3>1. PICK k \in 0 .. Len(snapshot) - 1 :
                 TakeFinal(m, SubSeq(snapshot, 1, k)) \/ Remember(m, SubSeq(snapshot, 1, k))
      BY <2>3
    <3>2. SnapshotOK(SubSeq(snapshot, 1, k))
      <4>1. snapshot \in Seq(Player) /\ Len(snapshot) <= MaxPlayers /\ Len(snapshot) \in Nat
        BY <1>1 DEF SnapshotOK
      <4>2. /\ SubSeq(snapshot, 1, k) \in Seq(Player)
            /\ Len(SubSeq(snapshot, 1, k)) = k
        BY <4>1
      <4> QED
        BY <4>1, <4>2, PipelineAssumption DEF SnapshotOK
    <3> QED
      BY <2>1, <3>1, <3>2, FrameSound
  <2> QED
    BY <1>3, <2>2, <2>3 DEF SplitUpdgame
<1> QED
  BY <1>2, <1>3

\* A connection that breaks takes snapshots with it, and no report.
LEMMA ReconnectSound ==
  ASSUME Sound, NEW m \in Match, Reconnect(m)
  PROVE  Sound' /\ UNCHANGED <<ledger, career>>
<1>1. UNCHANGED <<report, ledger, details, career>>
  BY DEF Reconnect, db
<1>2. /\ DOMAIN buffer' \subseteq DOMAIN buffer
      /\ \A x \in DOMAIN buffer' : buffer'[x] = buffer[x]
  BY DEF Reconnect, Delete, Without
<1>3. TypeOK'
  BY <1>1, <1>2 DEF Sound, TypeOK, Started
<1>4. ClaimsExclusive'
  BY <1>1 DEF Sound, ClaimsExclusive, Open, RowsOf, Started
<1>5. AnswerHonest'
  BY <1>1 DEF Sound, AnswerHonest, Started
<1> QED
  BY <1>1, <1>3, <1>4, <1>5 DEF Sound

\* A crash of fesl-engine leaves the transactions of api-service to go on.
LEMMA EngineCrashSound ==
  ASSUME Sound, EngineCrash
  PROVE  Sound' /\ UNCHANGED <<ledger, career>>
<1>1. UNCHANGED <<ledger, details, career>> /\ buffer' = EmptyMap
  BY DEF EngineCrash, db
<1>2. DOMAIN report' = DOMAIN report
  BY DEF EngineCrash, Started
<1>3. \A r \in Started :
        /\ report'[r].match = report[r].match
        /\ report'[r].server = report[r].server
        /\ report'[r].found = report[r].found
        /\ report'[r].credited = report[r].credited
        /\ report'[r].client = "ok" => report[r].client = "ok"
        /\ ReportOK(report'[r])
  <2> SUFFICES ASSUME NEW r \in Started
               PROVE  /\ report'[r].match = report[r].match
                      /\ report'[r].server = report[r].server
                      /\ report'[r].found = report[r].found
                      /\ report'[r].credited = report[r].credited
                      /\ report'[r].client = "ok" => report[r].client = "ok"
                      /\ ReportOK(report'[r])
    OBVIOUS
  <2> DEFINE e == report[r]
             d == [e EXCEPT !.client = "failed"]
  <2>1. ReportOK(e) /\ e \in ReportState
    BY DEF Sound, TypeOK, ReportOK
  <2>2. report'[r] = d \/ report'[r] = e
    BY DEF EngineCrash
  <2>3. /\ d.match = e.match /\ d.snapshot = e.snapshot /\ d.next = e.next
        /\ d.found = e.found /\ d.credited = e.credited
        /\ d.client = "failed" /\ d.server = e.server
        /\ d \in ReportState
    BY <2>1 DEF ReportState
  <2> HIDE DEF d
  <2>4. ReportOK(d)
    BY <2>1, <2>3 DEF ReportOK
  <2> QED
    BY <2>1, <2>2, <2>3, <2>4
<1>4. TypeOK'
  BY <1>1, <1>2, <1>3 DEF Sound, TypeOK, Started, EmptyMap
<1>5. Open' = Open /\ \A r \in Open : RowsOf(r)' = RowsOf(r)
  BY <1>2, <1>3 DEF Open, Started, RowsOf
<1>6. ClaimsExclusive'
  BY <1>1, <1>3, <1>5 DEF Sound, ClaimsExclusive, Open
<1>7. AnswerHonest'
  BY <1>1, <1>2, <1>3 DEF Sound, AnswerHonest, Started
<1> QED
  BY <1>1, <1>4, <1>6, <1>7 DEF Sound

\* A persona goes when no open transaction has updated its row.
LEMMA DeletePersonaSound ==
  ASSUME Sound, NEW n \in Name, DeletePersona(n)
  PROVE  Sound' /\ L!Next
<1>1. /\ DOMAIN career' = DOMAIN career \ {n}
      /\ UNCHANGED <<buffer, report, ledger, details>>
  BY DEF DeletePersona, Delete, Without
<1>2. TypeOK'
  BY <1>1 DEF Sound, TypeOK, Started
<1>3. ClaimsExclusive'
  BY <1>1 DEF Sound, ClaimsExclusive, Open, RowsOf, Started, DeletePersona
<1>4. AnswerHonest'
  BY <1>1 DEF Sound, AnswerHonest, Started
<1>5. L!Retire(n)
  BY DEF DeletePersona, Delete, Without, L!Retire, L!Delete, L!Without
<1>6. n \in Soldier
  BY DEF Sound, TypeOK, DeletePersona
<1> QED
  BY <1>2, <1>3, <1>4, <1>5, <1>6 DEF Sound, L!Next

\* Nothing is recorded at the start.
LEMMA InitSound == Init => Sound /\ L!Init
<1> SUFFICES ASSUME Init
             PROVE  Sound /\ L!Init
  OBVIOUS
<1>1. Started = {} /\ Open = {}
  BY DEF Init, Started, Open, EmptyMap
<1>2. Started = 1 .. 0 /\ 0 \in 0 .. MaxReport
  BY <1>1, PipelineAssumption
<1>3. TypeOK
  BY <1>1, <1>2 DEF Init, TypeOK, EmptyMap
<1>4. L!Init
  BY DEF Init, L!Init, EmptyMap, L!EmptyMap
<1> QED
  BY <1>1, <1>3, <1>4 DEF Sound, ClaimsExclusive, AnswerHonest

\* Every step preserves Sound, and is a step of the ledger or leaves it alone.
LEMMA NextSound ==
  ASSUME Sound, [Next]_vars
  PROVE  Sound' /\ [L!Next]_(L!ledgerVars)
<1>1. CASE \E m \in Match, snapshot \in Snapshot, done \in BOOLEAN :
             Updgame(m, snapshot, done) \/ SplitUpdgame(m, snapshot, done)
  BY <1>1, UpdgameSound DEF L!ledgerVars
<1>2. CASE \E m \in Match : Reconnect(m)
  BY <1>2, ReconnectSound DEF L!ledgerVars
<1>3. CASE \E r \in Started : Lookup(r)
  BY <1>3, LookupSound DEF L!ledgerVars
<1>4. CASE \E r \in Started : Post(r) \/ Timeout(r) \/ Reply(r)
  BY <1>4, PostSound, TimeoutSound, ReplySound DEF L!ledgerVars
<1>5. CASE \E r \in Started : InsertMatch(r) \/ Increment(r)
  BY <1>5, InsertMatchSound, IncrementSound DEF L!ledgerVars
<1>6. CASE \E r \in Started : Commit(r)
  BY <1>6, CommitSound
<1>7. CASE \E r \in Started : DeadlockVictim(r) \/ ServiceFault(r)
  BY <1>7, DeadlockVictimSound, ServiceFaultSound DEF L!ledgerVars
<1>8. CASE EngineCrash
  BY <1>8, EngineCrashSound DEF L!ledgerVars
<1>9. CASE \E n \in Name : DeletePersona(n)
  BY <1>9, DeletePersonaSound
<1>10. CASE UNCHANGED vars
  <2>1. UNCHANGED <<ledger, career>>
    BY <1>10 DEF vars
  <2>2. Sound'
    <3>1. UNCHANGED <<buffer, report, ledger, details, career>>
      BY <1>10 DEF vars
    <3>2. TypeOK'
      BY <3>1 DEF Sound, TypeOK, Started
    <3>3. ClaimsExclusive'
      BY <3>1 DEF Sound, ClaimsExclusive, Started, Open, RowsOf
    <3>4. AnswerHonest'
      BY <3>1 DEF Sound, AnswerHonest, Started
    <3> QED
      BY <3>2, <3>3, <3>4 DEF Sound
  <2> QED
    BY <2>1, <2>2 DEF L!ledgerVars
<1> QED
  BY <1>1, <1>2, <1>3, <1>4, <1>5, <1>6, <1>7, <1>8, <1>9, <1>10 DEF Next

\* Sound is an invariant.
LEMMA SoundHolds == Spec => []Sound
<1>1. Init => Sound
  BY InitSound
<1>2. Sound /\ [Next]_vars => Sound'
  BY NextSound
<1> QED
  BY <1>1, <1>2, PTL DEF Spec

\* The state of every report is what the code can leave it in, for any number
\* of players and reports.
THEOREM PipelineTypeCorrect == Spec => []TypeOK
<1>1. Sound => TypeOK
  BY DEF Sound
<1> QED
  BY <1>1, SoundHolds, PTL

\* Of the transactions under way, at most one holds a match, and that match has
\* not been recorded.
THEOREM ClaimsCorrect == Spec => []ClaimsExclusive
<1>1. Sound => ClaimsExclusive
  BY DEF Sound
<1> QED
  BY <1>1, SoundHolds, PTL

\* Through time-outs, crashes and repeated reports, success is never claimed
\* for a match that is not in the database.
THEOREM AnswersCorrect == Spec => []AnswerHonest
<1>1. Sound => AnswerHonest
  BY DEF Sound
<1> QED
  BY <1>1, SoundHolds, PTL

\* For any number of racing, repeated, failing and half-done reports, the
\* committed tables follow the ledger: each match counts at most once, whole.
THEOREM LedgerImplemented == Spec => ImplementsLedger
<1>1. Init => L!Init
  BY InitSound
<1>2. Sound /\ [Next]_vars => [L!Next]_(L!ledgerVars)
  BY NextSound
<1> QED
  BY <1>1, <1>2, SoundHolds, PTL DEF Spec, ImplementsLedger, L!Spec

-----------------------------------------------------------------------------
(* Sums over finite sets *)

First(s) == CHOOSE x \in s : TRUE

\* f[s] is the sum of g over s, for the subsets s of S of at most n elements.
AddsUpTo(f, g, S, n) ==
  f = [s \in {t \in SUBSET S : Cardinality(t) <= n} |->
         IF s = {} THEN 0 ELSE g[First(s)] + f[s \ {First(s)}]]

AddsUp(f, g, S) ==
  f = [s \in SUBSET S |-> IF s = {} THEN 0 ELSE g[First(s)] + f[s \ {First(s)}]]

SetSum(g, S) == (CHOOSE f : AddsUp(f, g, S))[S]

\* A set without one of its elements.
LEMMA OneLess ==
  ASSUME NEW S, IsFiniteSet(S), NEW s, s \subseteq S, NEW x, x \in s
  PROVE  /\ s \ {x} \in SUBSET S /\ IsFiniteSet(s) /\ IsFiniteSet(s \ {x})
         /\ Cardinality(s) \in Nat /\ Cardinality(s \ {x}) \in Nat
         /\ Cardinality(s \ {x}) = Cardinality(s) - 1
<1>1. IsFiniteSet(s)
  BY FS_Subset
<1>2. Cardinality(s) \in Nat /\ IsFiniteSet(s \ {x}) /\ Cardinality(s \ {x}) = Cardinality(s) - 1
  BY <1>1, FS_RemoveElement, FS_CardinalityType
<1>3. Cardinality(s \ {x}) \in Nat
  BY <1>2, FS_CardinalityType
<1> QED
  BY <1>1, <1>2, <1>3

LEMMA FirstIn == ASSUME NEW s, s # {} PROVE First(s) \in s
BY DEF First

LEMMA AddsUpToExists ==
  ASSUME NEW S, IsFiniteSet(S), NEW g, NEW N, N \in Nat
  PROVE  \E f : AddsUpTo(f, g, S, N)
<1> DEFINE Bad == {n \in 0..N : ~ \E f : AddsUpTo(f, g, S, n)}
<1>1. ASSUME Bad # {}
      PROVE  FALSE
  <2> Bad \subseteq Nat
    OBVIOUS
  <2> HIDE DEF Bad
  <2>1. PICK n \in Bad : \A m \in Bad : n <= m
    BY <1>1, LeastNat
  <2> USE DEF Bad
  <2>2. CASE n = 0
    <3> DEFINE h == [s \in {t \in SUBSET S : Cardinality(t) <= 0} |-> 0]
    <3>1. ASSUME NEW s \in {t \in SUBSET S : Cardinality(t) <= 0}
          PROVE  s = {}
      <4>1. IsFiniteSet(s)
        BY FS_Subset
      <4>2. Cardinality(s) = 0
        BY <4>1, FS_CardinalityType
      <4> QED
        BY <4>1, <4>2, FS_EmptySet
    <3>2. AddsUpTo(h, g, S, 0)
      BY <3>1 DEF AddsUpTo
    <3> QED
      BY <2>1, <2>2, <3>2
  <2>3. CASE n # 0
    <3> DEFINE k == n - 1
               Lo == {t \in SUBSET S : Cardinality(t) <= k}
               Hi == {t \in SUBSET S : Cardinality(t) <= n}
    <3>1. k \in 0..N /\ k \notin Bad /\ n \in Nat /\ k \in Nat /\ n = k + 1
      BY <2>1, <2>3
    <3>2. PICK f : AddsUpTo(f, g, S, k)
      BY <3>1
    <3>3. f = [s \in Lo |-> IF s = {} THEN 0 ELSE g[First(s)] + f[s \ {First(s)}]]
      BY <3>2 DEF AddsUpTo
    <3> DEFINE h == [s \in Hi |-> IF s = {} THEN 0 ELSE g[First(s)] + f[s \ {First(s)}]]
    <3>4. ASSUME NEW s \in Hi
          PROVE  h[s] = IF s = {} THEN 0 ELSE g[First(s)] + h[s \ {First(s)}]
      <4>1. CASE s = {}
        BY <4>1
      <4>2. CASE s # {}
        <5> DEFINE t == s \ {First(s)}
        <5>1. /\ t \in SUBSET S /\ Cardinality(s) \in Nat /\ Cardinality(t) \in Nat
              /\ Cardinality(t) = Cardinality(s) - 1
          BY <4>2, FirstIn, OneLess
        <5>2. t \in Lo /\ t \in Hi
          BY <3>1, <5>1
        <5>3. f[t] = IF t = {} THEN 0 ELSE g[First(t)] + f[t \ {First(t)}]
          BY <3>3, <5>2
        <5>4. h[t] = IF t = {} THEN 0 ELSE g[First(t)] + f[t \ {First(t)}]
          BY <5>2
        <5>5. h[s] = g[First(s)] + f[t]
          BY <4>2
        <5> HIDE DEF h, t
        <5>6. h[s] = g[First(s)] + h[t]
          BY <5>3, <5>4, <5>5
        <5> QED
          BY <4>2, <5>6 DEF t
      <4> QED
        BY <4>1, <4>2
    <3>5. h = [s \in Hi |-> IF s = {} THEN 0 ELSE g[First(s)] + h[s \ {First(s)}]]
      <4> DEFINE e == [s \in Hi |-> IF s = {} THEN 0 ELSE g[First(s)] + h[s \ {First(s)}]]
      <4>1. DOMAIN h = Hi /\ DOMAIN e = Hi
        OBVIOUS
      <4>2. \A s \in Hi : h[s] = e[s]
        <5> HIDE DEF h
        <5> QED
          BY <3>4
      <4>3. h = [s \in Hi |-> h[s]] /\ e = [s \in Hi |-> e[s]]
        OBVIOUS
      <4> HIDE DEF h, e, Hi
      <4>4. h = e
        BY <4>2, <4>3
      <4> QED
        BY <4>4 DEF e
    <3>6. AddsUpTo(h, g, S, n)
      BY <3>5 DEF AddsUpTo
    <3> QED
      BY <2>1, <3>6
  <2> QED
    BY <2>2, <2>3
<1> QED
  BY <1>1

LEMMA AddsUpExists ==
  ASSUME NEW S, IsFiniteSet(S), NEW g
  PROVE  \E f : AddsUp(f, g, S)
<1> DEFINE N == Cardinality(S)
<1>1. N \in Nat
  BY FS_CardinalityType
<1>2. {t \in SUBSET S : Cardinality(t) <= N} = SUBSET S
  BY FS_Subset
<1>3. PICK f : AddsUpTo(f, g, S, N)
  BY <1>1, AddsUpToExists
<1>4. AddsUp(f, g, S)
  BY <1>2, <1>3 DEF AddsUpTo, AddsUp
<1> QED
  BY <1>4

\* What holds of a subset when it holds of all the smaller ones holds of all.
Smaller(S, s, P) == \A t \in SUBSET S : Cardinality(t) < Cardinality(s) => t \in P

LEMMA BySize ==
  ASSUME NEW S, IsFiniteSet(S), NEW P,
         \A s \in SUBSET S : Smaller(S, s, P) => s \in P
  PROVE  SUBSET S \subseteq P
<1> DEFINE Bad == {n \in Nat : \E s \in SUBSET S : Cardinality(s) = n /\ s \notin P}
<1>1. \A s \in SUBSET S : Cardinality(s) \in Nat
  BY FS_Subset, FS_CardinalityType
<1>2. ASSUME Bad # {}
      PROVE  FALSE
  <2> Bad \subseteq Nat
    OBVIOUS
  <2> HIDE DEF Bad
  <2>1. PICK n \in Bad : \A m \in Bad : n <= m
    BY <1>2, LeastNat
  <2> USE DEF Bad
  <2>2. PICK s \in SUBSET S : Cardinality(s) = n /\ s \notin P
    BY <2>1
  <2>3. Smaller(S, s, P)
    BY <1>1, <2>1, <2>2 DEF Smaller
  <2> QED
    BY <2>2, <2>3
<1> QED
  BY <1>1, <1>2

LEMMA AddsStep ==
  ASSUME NEW S, NEW g, NEW f, AddsUp(f, g, S), NEW s, s \subseteq S
  PROVE  /\ s = {} => f[s] = 0
         /\ s # {} => First(s) \in s /\ f[s] = g[First(s)] + f[s \ {First(s)}]
<1>1. f[s] = IF s = {} THEN 0 ELSE g[First(s)] + f[s \ {First(s)}]
  BY Zenon DEF AddsUp
<1> QED
  BY <1>1, FirstIn

\* A sum depends on the numbers of its elements only.
Same(g, h, s) == \A x \in s : g[x] = h[x] /\ g[x] \in Nat

LEMMA AddsSame ==
  ASSUME NEW S, IsFiniteSet(S), NEW T, NEW g, NEW h, NEW f, NEW e,
         AddsUp(f, g, S), AddsUp(e, h, T), S \subseteq T, Same(g, h, S)
  PROVE  \A s \in SUBSET S : f[s] = e[s] /\ f[s] \in Nat
<1> DEFINE P == {s \in SUBSET S : f[s] = e[s] /\ f[s] \in Nat}
<1>1. ASSUME NEW s \in SUBSET S, Smaller(S, s, P)
      PROVE  s \in P
  <2>1. CASE s = {}
    <3>1. f[s] = 0 /\ e[s] = 0
      BY <2>1, AddsStep
    <3> QED
      BY <3>1
  <2>2. CASE s # {}
    <3> DEFINE c == First(s)
               t == s \ {c}
    <3>1. c \in s /\ f[s] = g[c] + f[t] /\ e[s] = h[c] + e[t]
      <4>1. s \subseteq S /\ s \subseteq T
        OBVIOUS
      <4>2. c \in s /\ f[s] = g[c] + f[t]
        BY <2>2, <4>1, AddsStep
      <4>3. e[s] = h[c] + e[t]
        BY <2>2, <4>1, AddsStep
      <4> QED
        BY <4>2, <4>3
    <3>2. t \in SUBSET S /\ Cardinality(t) < Cardinality(s)
      BY <3>1, OneLess
    <3>3. f[t] = e[t] /\ f[t] \in Nat
      BY <1>1, <3>2 DEF Smaller
    <3>4. g[c] = h[c] /\ g[c] \in Nat
      BY <3>1 DEF Same
    <3> HIDE DEF t, c
    <3> QED
      BY <3>1, <3>3, <3>4
  <2> QED
    BY <2>1, <2>2
<1> HIDE DEF P
<1>2. SUBSET S \subseteq P
  BY <1>1, BySize
<1> QED
  BY <1>2 DEF P

\* Any element may be taken out first.
LEMMA AddsAny ==
  ASSUME NEW S, IsFiniteSet(S), NEW g, NEW f, AddsUp(f, g, S), Same(g, g, S)
  PROVE  \A s \in SUBSET S : \A x \in s : f[s] = g[x] + f[s \ {x}]
<1> DEFINE P == {s \in SUBSET S : \A x \in s : f[s] = g[x] + f[s \ {x}]}
<1>1. \A s \in SUBSET S : f[s] \in Nat
  BY AddsSame
<1>2. ASSUME NEW s \in SUBSET S, Smaller(S, s, P)
      PROVE  s \in P
  <2> SUFFICES ASSUME NEW x \in s
               PROVE  f[s] = g[x] + f[s \ {x}]
    OBVIOUS
  <2> DEFINE c == First(s)
             t == s \ {c}
             u == s \ {x}
             v == s \ {c, x}
  <2>1. c \in s /\ f[s] = g[c] + f[t]
    BY AddsStep
  <2>2. CASE x = c
    BY <2>1, <2>2
  <2>3. CASE x # c
    <3>1. /\ t \in SUBSET S /\ u \in SUBSET S /\ v \in SUBSET S
          /\ x \in t /\ c \in u /\ t \ {x} = v /\ u \ {c} = v
      BY <2>1, <2>3
    <3>2. Cardinality(t) < Cardinality(s) /\ Cardinality(u) < Cardinality(s)
      <4>1. Cardinality(t) < Cardinality(s)
        <5>1. s \subseteq S
          OBVIOUS
        <5> HIDE DEF c
        <5>2. Cardinality(t) \in Nat /\ Cardinality(s) \in Nat /\ Cardinality(t) = Cardinality(s) - 1
          BY <2>1, <5>1, OneLess
        <5> QED
          BY <5>2
      <4>2. Cardinality(u) < Cardinality(s)
        BY OneLess
      <4> QED
        BY <4>1, <4>2
    <3>3. t \in P /\ u \in P
      BY <1>2, <3>1, <3>2 DEF Smaller
    <3>4. f[t] = g[x] + f[v] /\ f[u] = g[c] + f[v]
      BY <3>1, <3>3
    <3>5. f[v] \in Nat /\ g[x] \in Nat /\ g[c] \in Nat
      BY <1>1, <2>1, <3>1 DEF Same
    <3> HIDE DEF t, u, v, c
    <3>6. f[s] = g[x] + f[u]
      BY <2>1, <3>4, <3>5
    <3> QED
      BY <3>6 DEF u
  <2> QED
    BY <2>2, <2>3
<1> HIDE DEF P
<1>3. SUBSET S \subseteq P
  BY <1>2, BySize
<1> QED
  BY <1>3 DEF P

LEMMA SetSumAdds ==
  ASSUME NEW S, IsFiniteSet(S), NEW g
  PROVE  \E f : AddsUp(f, g, S) /\ SetSum(g, S) = f[S]
<1> DEFINE f == CHOOSE f : AddsUp(f, g, S)
<1>1. AddsUp(f, g, S)
  BY AddsUpExists
<1>2. SetSum(g, S) = f[S]
  BY DEF SetSum
<1> QED
  BY <1>1, <1>2

LEMMA SetSumNat ==
  ASSUME NEW S, IsFiniteSet(S), NEW g, Same(g, g, S)
  PROVE  SetSum(g, S) \in Nat
<1>1. PICK f : AddsUp(f, g, S) /\ SetSum(g, S) = f[S]
  BY SetSumAdds
<1> QED
  BY <1>1, AddsSame

\* One element more.
LEMMA SetSumAdd ==
  ASSUME NEW S, IsFiniteSet(S), NEW g, NEW h, NEW x, x \notin S, NEW T, T = S \cup {x},
         Same(g, h, S), h[x] \in Nat
  PROVE  SetSum(h, T) = SetSum(g, S) + h[x]
<1>1. PICK f : AddsUp(f, g, S) /\ SetSum(g, S) = f[S]
  BY SetSumAdds
<1>2. IsFiniteSet(T)
  BY FS_AddElement
<1>3. PICK e : AddsUp(e, h, T) /\ SetSum(h, T) = e[T]
  BY <1>2, SetSumAdds
<1>4. Same(h, h, T)
  BY DEF Same
<1>5. e[T] = h[x] + e[T \ {x}]
  BY <1>2, <1>3, <1>4, AddsAny
<1>6. T \ {x} = S /\ S \subseteq T
  OBVIOUS
<1>7. f[S] = e[S] /\ f[S] \in Nat
  BY <1>1, <1>3, <1>6, AddsSame
<1>8. e[T] = h[x] + f[S]
  BY <1>5, <1>6, <1>7
<1>9. e[T] = f[S] + h[x]
  BY <1>7, <1>8
<1> QED
  BY <1>1, <1>3, <1>9

-----------------------------------------------------------------------------
(* Careers are sums *)

\* What n earned in the matches of led.
EarnedIn(n, led) == SetSum([m \in DOMAIN led |-> L!Earned(n, led[m])], DOMAIN led)

LEMMA EarnedNat ==
  ASSUME NEW n, NEW players, players \in L!Entry
  PROVE  L!Earned(n, players) \in Nat
<1> DEFINE D == DOMAIN players
           S == {i \in D : players[i].name = n}
           g == [i \in S |-> players[i].kills]
<1>1. PICK k \in 0..MaxPlayers : players \in [1..k -> [name : Soldier, kills : Kills]]
  BY DEF L!Entry
<1>2. IsFiniteSet(S)
  <2>1. IsFiniteSet(1..k)
    BY PipelineAssumption, FS_Interval
  <2> QED
    BY <1>1, <2>1, FS_Subset
<1>3. Same(g, g, S)
  BY <1>1, PipelineAssumption DEF Same
<1> DEFINE Rec(f) == f = [s \in SUBSET S |->
                             IF s = {} THEN 0
                             ELSE LET x == CHOOSE x \in s : TRUE
                                  IN  players[x].kills + f[s \ {x}]]
           up == CHOOSE f : Rec(f)
<1>4. L!Earned(n, players) = up[S]
  BY Zenon DEF L!Earned, L!MapThenSumSet, L!MapThenFoldSet
<1>5. ASSUME NEW f
      PROVE  AddsUp(f, g, S) <=> Rec(f)
  <2>1. \A s \in SUBSET S :
          (IF s = {} THEN 0 ELSE g[First(s)] + f[s \ {First(s)}])
            = IF s = {} THEN 0
              ELSE LET x == CHOOSE x \in s : TRUE
                   IN  players[x].kills + f[s \ {x}]
    <3> TAKE s \in SUBSET S
    <3>1. s # {} => First(s) \in S
      BY FirstIn
    <3>2. s # {} => g[First(s)] = players[First(s)].kills
      BY <3>1
    <3> HIDE DEF g, S
    <3> QED
      BY <3>2 DEF First
  <2> HIDE DEF g, S
  <2> QED
    BY <2>1, Zenon DEF AddsUp
<1> HIDE DEF Rec, g, S
<1>6. PICK f : AddsUp(f, g, S)
  BY <1>2, AddsUpExists
<1>7. AddsUp(up, g, S)
  BY <1>5, <1>6
<1>8. up[S] \in Nat
  BY <1>2, <1>3, <1>7, AddsSame
<1> QED
  BY <1>4, <1>8

LEMMA EarnedIsSum ==
  ASSUME NEW n, NEW led, IsFiniteSet(DOMAIN led), \A m \in DOMAIN led : led[m] \in L!Entry
  PROVE  MapThenSumSet(LAMBDA m : L!Earned(n, led[m]), DOMAIN led) = EarnedIn(n, led)
<1> DEFINE S == DOMAIN led
           g == [m \in S |-> L!Earned(n, led[m])]
           Rec(f) == f = [s \in SUBSET S |->
                             IF s = {} THEN 0
                             ELSE LET x == CHOOSE x \in s : TRUE
                                  IN  L!Earned(n, led[x]) + f[s \ {x}]]
           up == CHOOSE f : Rec(f)
<1>1. MapThenSumSet(LAMBDA m : L!Earned(n, led[m]), S) = up[S]
  BY Zenon DEF MapThenSumSet, MapThenFoldSet
<1>2. Same(g, g, S)
  BY EarnedNat DEF Same
<1>3. ASSUME NEW f
      PROVE  AddsUp(f, g, S) <=> Rec(f)
  <2>1. \A s \in SUBSET S :
          (IF s = {} THEN 0 ELSE g[First(s)] + f[s \ {First(s)}])
            = IF s = {} THEN 0
              ELSE LET x == CHOOSE x \in s : TRUE
                   IN  L!Earned(n, led[x]) + f[s \ {x}]
    <3> TAKE s \in SUBSET S
    <3>1. s # {} => First(s) \in S
      BY FirstIn
    <3>2. s # {} => g[First(s)] = L!Earned(n, led[First(s)])
      BY <3>1
    <3> HIDE DEF g, S
    <3> QED
      BY <3>2 DEF First
  <2> HIDE DEF g, S
  <2> QED
    BY <2>1, Zenon DEF AddsUp
<1>4. EarnedIn(n, led) = SetSum(g, S)
  BY DEF EarnedIn
<1> HIDE DEF Rec, g
<1>5. PICK f : AddsUp(f, g, S) /\ SetSum(g, S) = f[S]
  BY SetSumAdds
<1>6. AddsUp(up, g, S)
  BY <1>3, <1>5
<1>7. up[S] = f[S]
  BY <1>2, <1>5, <1>6, AddsSame
<1> QED
  BY <1>1, <1>4, <1>5, <1>7

\* A ledger with its careers.
Summed(led, car) ==
  /\ IsFiniteSet(DOMAIN led) /\ \A m \in DOMAIN led : led[m] \in L!Entry
  /\ \A n \in DOMAIN car : car[n] = EarnedIn(n, led)

\* A match that is recorded adds to every career what it earned in it.
LEMMA RecordSums ==
  ASSUME NEW led, NEW car, Summed(led, car), NEW m, m \notin DOMAIN led,
         NEW players, players \in L!Entry, NEW led2, led2 = L!Put(led, m, players),
         NEW car2, car2 = L!Credited(car, players)
  PROVE  Summed(led2, car2)
<1>1. /\ DOMAIN led2 = DOMAIN led \cup {m} /\ led2[m] = players
      /\ \A x \in DOMAIN led : led2[x] = led[x]
  BY DEF L!Put
<1>2. IsFiniteSet(DOMAIN led) /\ \A x \in DOMAIN led : led[x] \in L!Entry
  BY DEF Summed
<1>3. IsFiniteSet(DOMAIN led2)
  BY <1>1, <1>2, FS_AddElement
<1>4. \A x \in DOMAIN led2 : led2[x] \in L!Entry
  BY <1>1, <1>2
<1>5. ASSUME NEW n \in DOMAIN car2
      PROVE  car2[n] = EarnedIn(n, led2)
  <2> DEFINE S == DOMAIN led
             T == DOMAIN led2
             g == [x \in S |-> L!Earned(n, led[x])]
             h == [x \in T |-> L!Earned(n, led2[x])]
  <2>1. n \in DOMAIN car /\ car2[n] = car[n] + L!Earned(n, players)
    BY DEF L!Credited
  <2>2. car[n] = SetSum(g, S)
    BY <2>1 DEF Summed, EarnedIn
  <2>3. Same(g, h, S)
    BY <1>1, <1>2, EarnedNat DEF Same
  <2>4. h[m] = L!Earned(n, players) /\ h[m] \in Nat
    BY <1>1, EarnedNat
  <2>5. EarnedIn(n, led2) = SetSum(h, T)
    BY DEF EarnedIn
  <2> HIDE DEF g, h
  <2>6. SetSum(h, T) = SetSum(g, S) + h[m]
    BY <1>1, <1>2, <2>3, <2>4, SetSumAdd
  <2> QED
    BY <2>1, <2>2, <2>4, <2>5, <2>6
<1> QED
  BY <1>3, <1>4, <1>5 DEF Summed

LEMMA SummedStep ==
  ASSUME Summed(ledger, career), [L!Next]_(L!ledgerVars)
  PROVE  Summed(ledger', career')
<1>1. CASE UNCHANGED L!ledgerVars
  <2>1. ledger' = ledger /\ career' = career
    BY <1>1 DEF L!ledgerVars
  <2> QED
    BY <2>1
<1>2. ASSUME NEW m \in Match, NEW players \in L!Entry, L!Record(m, players)
      PROVE  Summed(ledger', career')
  BY <1>2, RecordSums DEF L!Record
<1>3. ASSUME NEW n \in Soldier, L!Retire(n)
      PROVE  Summed(ledger', career')
  <2>1. /\ ledger' = ledger /\ DOMAIN career' \subseteq DOMAIN career
        /\ \A x \in DOMAIN career' : career'[x] = career[x]
    BY <1>3 DEF L!Retire, L!Delete, L!Without
  <2> QED
    BY <2>1 DEF Summed
<1> QED
  BY <1>1, <1>2, <1>3 DEF L!Next

LEMMA SummedInit == ASSUME L!Init PROVE Summed(ledger, career)
<1>1. DOMAIN ledger = {} /\ \A n \in DOMAIN career : career[n] = 0
  BY DEF L!Init, L!EmptyMap
<1>2. IsFiniteSet(DOMAIN ledger)
  BY <1>1, FS_EmptySet
<1>3. ASSUME NEW n
      PROVE  EarnedIn(n, ledger) = 0
  <2> DEFINE g == [m \in DOMAIN ledger |-> L!Earned(n, ledger[m])]
  <2>1. EarnedIn(n, ledger) = SetSum(g, DOMAIN ledger)
    BY DEF EarnedIn
  <2> HIDE DEF g
  <2>2. PICK f : AddsUp(f, g, DOMAIN ledger) /\ SetSum(g, DOMAIN ledger) = f[DOMAIN ledger]
    BY <1>2, SetSumAdds
  <2>3. f[DOMAIN ledger] = 0
    BY <1>1, <2>2, AddsStep
  <2> QED
    BY <2>1, <2>2, <2>3
<1> QED
  BY <1>1, <1>2, <1>3 DEF Summed

CareersSummed == Summed(ledger, career)

\* Through racing, repeated and rolled back reports a career stays the sum of
\* what its soldier earned in the recorded matches.
THEOREM CareersAddUp == Spec => []CareerIsSum
<1>1. L!Init => CareersSummed
  BY SummedInit DEF CareersSummed
<1>2. CareersSummed /\ [L!Next]_(L!ledgerVars) => CareersSummed'
  BY SummedStep DEF CareersSummed
<1>3. CareersSummed => CareerIsSum
  <2> SUFFICES ASSUME Summed(ledger, career), NEW n \in DOMAIN career
               PROVE  career[n] = MapThenSumSet(LAMBDA m : L!Earned(n, ledger[m]), DOMAIN ledger)
    BY DEF CareersSummed, CareerIsSum
  <2>1. IsFiniteSet(DOMAIN ledger) /\ \A m \in DOMAIN ledger : ledger[m] \in L!Entry
    BY DEF Summed
  <2>2. MapThenSumSet(LAMBDA m : L!Earned(n, ledger[m]), DOMAIN ledger) = EarnedIn(n, ledger)
    BY <2>1, EarnedIsSum
  <2>3. career[n] = EarnedIn(n, ledger)
    BY DEF Summed
  <2> QED
    BY <2>2, <2>3, Zenon
<1> QED
  BY <1>1, <1>2, <1>3, LedgerImplemented, PTL DEF ImplementsLedger, L!Spec

-----------------------------------------------------------------------------
(* What a match shows *)

\* d is e, further on its way.
Onward(e, d) == d.match = e.match /\ d.snapshot = e.snapshot

ReportsOnward ==
  /\ DOMAIN report' = DOMAIN report
  /\ \A r \in Started : Onward(report[r], report'[r])

\* A step of one report leaves the frames alone.
LEMMA StepOnward ==
  ASSUME NEW r \in Started, NEW e, Onward(report[r], e), Step(r, e)
  PROVE  ReportsOnward /\ UNCHANGED <<buffer, details, sent, finals>>
BY DEF ReportsOnward, Onward, Step, Started, db

LEMMA ReportsGoOn ==
  ASSUME Sound, NEW r \in Started,
         \/ Lookup(r) \/ Post(r) \/ Timeout(r) \/ Reply(r)
         \/ InsertMatch(r) \/ Increment(r) \/ DeadlockVictim(r) \/ ServiceFault(r)
  PROVE  ReportsOnward /\ UNCHANGED <<buffer, details, sent, finals>>
<1> DEFINE e == report[r]
<1>1. e \in ReportState
  BY ReportTyped
<1>2. ASSUME NEW c, NEW v, NEW k
      PROVE  /\ Onward(e, [e EXCEPT !.client = c]) /\ Onward(e, [e EXCEPT !.server = v])
             /\ Onward(e, [e EXCEPT !.client = c, !.server = v])
             /\ Onward(e, [e EXCEPT !.credited = k])
  BY <1>1 DEF Onward, ReportState
<1>3. ASSUME NEW n, NEW f
      PROVE  Onward(e, [e EXCEPT !.next = n, !.found = f])
  <2>1. [e EXCEPT !.next = n, !.found = f] =
           [match |-> e.match, snapshot |-> e.snapshot, next |-> n, found |-> f,
            client |-> e.client, server |-> e.server, credited |-> e.credited]
    BY <1>1, LookedUpFields
  <2> QED
    BY <2>1 DEF Onward
<1>4. CASE Lookup(r)
  <2>1. PICK id : Step(r, [e EXCEPT !.next = @ + 1,
                                    !.found = Found(@, e.snapshot[e.next], id)])
    BY <1>4 DEF Lookup
  <2>2. Step(r, [e EXCEPT !.next = e.next + 1, !.found = Found(e.found, e.snapshot[e.next], id)])
    BY <1>1, <2>1 DEF ReportState
  <2> QED
    BY <1>3, <2>2, StepOnward
<1>5. CASE Post(r) \/ Timeout(r) \/ Reply(r)
  BY <1>2, <1>5, StepOnward DEF Post, Timeout, Reply
<1>6. CASE InsertMatch(r) \/ DeadlockVictim(r) \/ ServiceFault(r)
  BY <1>2, <1>6, StepOnward DEF InsertMatch, DeadlockVictim, ServiceFault
<1>7. CASE Increment(r)
  <2>1. \/ Step(r, [e EXCEPT !.credited = e.credited + 1])
        \/ Step(r, [e EXCEPT !.server = "rejected"])
    BY <1>1, <1>7 DEF Increment, ReportState
  <2> QED
    BY <1>2, <2>1, StepOnward
<1> QED
  BY <1>4, <1>5, <1>6, <1>7

\* The snapshot that an empty final frame stands for.
Latest(m) == IF m \in DOMAIN buffer THEN buffer[m] ELSE <<>>

\* Until its server ends a match the buffer follows it; then its reports have
\* its last snapshot.
LatestOK(m) ==
  /\ finals[m] \in {0, 1}
  /\ finals[m] = 0 => Latest(m) = sent[m] /\ m \notin DOMAIN details
  /\ \A r \in Started : report[r].match = m => finals[m] = 1 /\ report[r].snapshot = sent[m]
  /\ m \in DOMAIN details => details[m] = sent[m]

Shows ==
  /\ sent \in [Match -> {sent[m] : m \in Match}]
  /\ finals \in [Match -> {finals[m] : m \in Match}]
  /\ \A m \in Match : LatestOK(m)

\* A frame of a match that has not ended.
LEMMA FrameShows ==
  ASSUME Sound, Shows, MaxFinal = 1, NEW m \in Match, NEW snapshot, NEW done \in BOOLEAN,
         Updgame(m, snapshot, done)
  PROVE  Shows'
<1>1. finals[m] = 0 /\ Latest(m) = sent[m] /\ m \notin DOMAIN details
      /\ \A r \in Started : report[r].match # m
  BY DEF Shows, LatestOK, Updgame, Write
<1>2. /\ finals' = IF done THEN [finals EXCEPT ![m] = @ + 1] ELSE finals
      /\ sent' = IF done /\ snapshot = <<>> THEN sent ELSE [sent EXCEPT ![m] = snapshot]
      /\ details' = details
  BY DEF Updgame, Write, db
<1>3. /\ sent' \in [Match -> {sent'[x] : x \in Match}]
      /\ finals' \in [Match -> {finals'[x] : x \in Match}]
      /\ \A x \in Match : x # m => sent'[x] = sent[x] /\ finals'[x] = finals[x]
  BY <1>2 DEF Shows
<1>4. CASE done
  <2> DEFINE s == IF snapshot # <<>> THEN snapshot ELSE Latest(m)
             n == Cardinality(Started) + 1
             e == StartReport(m, s)
  <2>1. report' = Put(report, n, e) /\ buffer' = Delete(buffer, m)
    BY <1>4 DEF Updgame, TakeFinal, Latest
  <2>2. finals'[m] = 1 /\ sent'[m] = s
    BY <1>1, <1>2, <1>4 DEF Shows
  <2>3. e.match = m /\ e.snapshot = s
    BY DEF StartReport
  <2> HIDE DEF s, n, e
  <2>4. \A r \in Started' : \/ r = n /\ report'[r] = e
                            \/ r \in Started /\ report'[r] = report[r]
    BY <2>1 DEF Put, Started
  <2>5. \A x \in Match : x # m => Latest(x)' = Latest(x)
    BY <2>1 DEF Latest, Delete, Without
  <2>6. ASSUME NEW x \in Match
        PROVE  LatestOK(x)'
    <3>1. CASE x = m
      BY <1>1, <1>2, <2>2, <2>3, <2>4, <3>1 DEF LatestOK
    <3>2. CASE x # m
      <4>1. LatestOK(x) /\ sent'[x] = sent[x] /\ finals'[x] = finals[x] /\ Latest(x)' = Latest(x)
        BY <1>3, <2>5, <3>2 DEF Shows
      <4>2. \A r \in Started' : report'[r].match = x => r \in Started /\ report'[r] = report[r]
        BY <2>3, <2>4, <3>2
      <4> QED
        BY <1>2, <4>1, <4>2 DEF LatestOK
    <3> QED
      BY <3>1, <3>2
  <2> QED
    BY <1>3, <2>6 DEF Shows
<1>5. CASE ~done
  <2>1. buffer' = Put(buffer, m, snapshot) /\ report' = report
    BY <1>5 DEF Updgame, Remember
  <2>2. sent'[m] = snapshot /\ finals' = finals
    BY <1>2, <1>5 DEF Shows
  <2>3. Latest(m)' = snapshot /\ \A x \in Match : x # m => Latest(x)' = Latest(x)
    BY <2>1 DEF Latest, Put
  <2>4. ASSUME NEW x \in Match
        PROVE  LatestOK(x)'
    <3>1. CASE x = m
      BY <1>1, <1>2, <2>1, <2>2, <2>3, <3>1 DEF LatestOK, Started
    <3>2. CASE x # m
      BY <1>2, <1>3, <2>1, <2>2, <2>3, <3>2 DEF Shows, LatestOK, Started
    <3> QED
      BY <3>1, <3>2
  <2> QED
    BY <1>3, <2>4 DEF Shows
<1> QED
  BY <1>4, <1>5

\* Steps that send nothing and record nothing.
LEMMA OnwardShows ==
  ASSUME Shows, ReportsOnward, UNCHANGED <<buffer, details, sent, finals>>
  PROVE  Shows'
<1>1. \A m \in Match : Latest(m)' = Latest(m)
  BY DEF Latest
<1>2. \A m \in Match : LatestOK(m)'
  BY <1>1 DEF Shows, LatestOK, ReportsOnward, Onward, Started
<1> QED
  BY <1>2 DEF Shows

LEMMA CommitShows ==
  ASSUME Sound, Shows, NEW r \in Started, Commit(r)
  PROVE  Shows'
<1> DEFINE e == report[r]
<1>1. e \in ReportState /\ e.match \in Match
  BY ReportTyped DEF ReportState
<1>2. /\ report' = [report EXCEPT ![r].server = "committed"]
      /\ details' = Put(details, e.match, e.snapshot)
      /\ UNCHANGED <<buffer, sent, finals>>
  BY DEF Commit
<1>3. ReportsOnward
  BY <1>1, <1>2 DEF ReportsOnward, Onward, Started, ReportState
<1>4. finals[e.match] = 1 /\ e.snapshot = sent[e.match]
  BY <1>1 DEF Shows, LatestOK
<1>5. \A m \in Match : Latest(m)' = Latest(m)
  BY <1>2 DEF Latest
<1> HIDE DEF e
<1>6. \A m \in Match : LatestOK(m)'
  <2> SUFFICES ASSUME NEW m \in Match
               PROVE  LatestOK(m)'
    OBVIOUS
  <2>1. LatestOK(m)
    BY DEF Shows
  <2>2. /\ m \in DOMAIN details' <=> m \in DOMAIN details \/ m = e.match
        /\ m \in DOMAIN details' => details'[m] = IF m = e.match THEN e.snapshot ELSE details[m]
    BY <1>2 DEF Put
  <2> QED
    BY <1>2, <1>3, <1>4, <1>5, <2>1, <2>2 DEF LatestOK, ReportsOnward, Onward, Started
<1> QED
  BY <1>2, <1>6 DEF Shows

LEMMA ShowsStep ==
  ASSUME Sound, Shows, ~Split, ~Faults, MaxFinal = 1, [Next]_vars
  PROVE  Shows'
<1>1. ASSUME NEW m \in Match, NEW snapshot \in Snapshot, NEW done \in BOOLEAN,
             Updgame(m, snapshot, done)
      PROVE  Shows'
  BY <1>1, FrameShows
<1>2. ASSUME NEW r \in Started,
             \/ Lookup(r) \/ Post(r) \/ Timeout(r) \/ Reply(r)
             \/ InsertMatch(r) \/ Increment(r) \/ DeadlockVictim(r) \/ ServiceFault(r)
      PROVE  Shows'
  BY <1>2, ReportsGoOn, OnwardShows
<1>3. ASSUME NEW r \in Started, Commit(r)
      PROVE  Shows'
  BY <1>3, CommitShows
<1>4. CASE UNCHANGED vars
  BY <1>4 DEF vars, Shows, LatestOK, Latest, Started
<1>5. \A m \in Match, snapshot \in Snapshot, done \in BOOLEAN : ~SplitUpdgame(m, snapshot, done)
  BY DEF SplitUpdgame
<1>6. ~EngineCrash /\ (\A m \in Match : ~Reconnect(m)) /\ (\A n \in Name : ~DeletePersona(n))
  BY DEF EngineCrash, Reconnect, DeletePersona
<1> QED
  BY <1>1, <1>2, <1>3, <1>4, <1>5, <1>6 DEF Next

LEMMA ShowsInit == ASSUME Init PROVE Shows
<1>1. \A m \in Match : sent[m] = <<>> /\ finals[m] = 0 /\ Latest(m) = <<>>
  BY DEF Init, Latest, EmptyMap
<1>2. Started = {} /\ DOMAIN details = {}
  BY DEF Init, Started, EmptyMap
<1>3. sent \in [Match -> {sent[m] : m \in Match}] /\ finals \in [Match -> {finals[m] : m \in Match}]
  BY DEF Init
<1> QED
  BY <1>1, <1>2, <1>3 DEF Shows, LatestOK

\* Where every server ends its match once, frames come in one piece and no
\* connection breaks, a recorded match shows the last snapshot that was sent,
\* whatever reports come in between; also when the final frame is empty.  The
\* three hypotheses are what the buffer needs: a second final frame starts a
\* report of its own, and a broken connection takes the buffer with it.
THEOREM LastSnapshotCounts ==
  ASSUME ~Split, ~Faults, MaxFinal = 1
  PROVE  Spec => []FinalSnapshotCounts
<1>1. Init => Shows
  BY ShowsInit
<1>2. Sound /\ Shows /\ [Next]_vars => Shows'
  BY ShowsStep
<1>3. Sound /\ Shows => FinalSnapshotCounts
  BY DEF Sound, TypeOK, Shows, LatestOK, FinalSnapshotCounts
<1> QED
  BY <1>1, <1>2, <1>3, SoundHolds, PTL DEF Spec

-----------------------------------------------------------------------------
(* Who is credited *)

\* g[i] are those of the first i players of s whose name is in X.
Picks(g, s, X, N) ==
  g = [i \in 0..N |-> IF i = 0 THEN <<>>
                      ELSE IF s[i].name \in X THEN Append(g[i - 1], s[i])
                      ELSE g[i - 1]]

LEMMA PicksExist ==
  ASSUME NEW N, N \in Nat, NEW s, NEW X
  PROVE  \E g : Picks(g, s, X, N)
<1> DEFINE Bad == {n \in 0..N : ~ \E g : Picks(g, s, X, n)}
<1>1. ASSUME Bad # {}
      PROVE  FALSE
  <2> Bad \subseteq Nat
    OBVIOUS
  <2> HIDE DEF Bad
  <2>1. PICK n \in Bad : \A m \in Bad : n <= m
    BY <1>1, LeastNat
  <2> USE DEF Bad
  <2>2. CASE n = 0
    <3> DEFINE h == [i \in 0..0 |-> <<>>]
    <3>1. Picks(h, s, X, 0)
      BY DEF Picks
    <3> HIDE DEF h
    <3> QED
      BY <2>1, <2>2, <3>1
  <2>3. CASE n # 0
    <3>1. n - 1 \in 0..N /\ n - 1 \notin Bad
      BY <2>1, <2>3
    <3>2. PICK f : Picks(f, s, X, n - 1)
      BY <3>1
    <3> DEFINE last == IF s[n].name \in X THEN Append(f[n - 1], s[n]) ELSE f[n - 1]
               h == [i \in 0..n |-> IF i = n THEN last ELSE f[i]]
    <3>3. f = [i \in 0..(n - 1) |-> IF i = 0 THEN <<>>
                                    ELSE IF s[i].name \in X THEN Append(f[i - 1], s[i])
                                    ELSE f[i - 1]]
      BY <3>2 DEF Picks
    <3>4. ASSUME NEW i \in 0..n
          PROVE  h[i] = IF i = 0 THEN <<>>
                        ELSE IF s[i].name \in X THEN Append(h[i - 1], s[i])
                        ELSE h[i - 1]
      <4>1. CASE i = n
        <5>1. h[i] = last /\ h[i - 1] = f[n - 1]
          BY <2>1, <2>3, <4>1
        <5> QED
          BY <2>3, <4>1, <5>1
      <4>2. CASE i # n
        <5>1. i \in 0..(n - 1) /\ (i # 0 => i - 1 \in 0..(n - 1))
          BY <2>1, <4>2
        <5>2. h[i] = f[i] /\ (i # 0 => h[i - 1] = f[i - 1])
          BY <2>1, <4>2, <5>1
        <5>3. f[i] = IF i = 0 THEN <<>>
                     ELSE IF s[i].name \in X THEN Append(f[i - 1], s[i])
                     ELSE f[i - 1]
          BY <3>3, <5>1
        <5> HIDE DEF h
        <5> QED
          BY <5>2, <5>3
      <4> QED
        BY <4>1, <4>2
    <3>5. Picks(h, s, X, n)
      <4> DEFINE e == [i \in 0..n |-> IF i = 0 THEN <<>>
                                      ELSE IF s[i].name \in X THEN Append(h[i - 1], s[i])
                                      ELSE h[i - 1]]
      <4>1. h = [i \in 0..n |-> h[i]] /\ e = [i \in 0..n |-> e[i]]
        OBVIOUS
      <4> HIDE DEF h
      <4>2. \A i \in 0..n : h[i] = e[i]
        BY <3>4
      <4> HIDE DEF e
      <4>3. h = e
        BY <4>1, <4>2
      <4> QED
        BY <4>3 DEF Picks, e
    <3> QED
      BY <2>1, <3>5
  <2> QED
    BY <2>2, <2>3
<1> QED
  BY <1>1

LEMMA PicksStep ==
  ASSUME NEW N, N \in Nat, NEW s, NEW X, NEW g, Picks(g, s, X, N), NEW i, i \in 0..N
  PROVE  /\ i = 0 => g[i] = <<>>
         /\ i # 0 => g[i] = IF s[i].name \in X THEN Append(g[i - 1], s[i]) ELSE g[i - 1]
BY DEF Picks

LEMMA PicksType ==
  ASSUME NEW s, s \in Seq(Player), NEW X, NEW g, Picks(g, s, X, Len(s))
  PROVE  \A i \in 0..Len(s) : g[i] \in Seq(Player)
<1> DEFINE N == Len(s)
           Bad == {i \in 0..N : g[i] \notin Seq(Player)}
<1>1. N \in Nat
  OBVIOUS
<1>2. ASSUME Bad # {}
      PROVE  FALSE
  <2> Bad \subseteq Nat
    BY <1>1
  <2> HIDE DEF Bad
  <2>1. PICK n \in Bad : \A m \in Bad : n <= m
    BY <1>2, LeastNat
  <2> USE DEF Bad
  <2>2. n # 0
    <3>1. n = 0 => g[n] = <<>>
      BY <1>1, <2>1, PicksStep
    <3>2. <<>> \in Seq(Player)
      OBVIOUS
    <3> QED
      BY <2>1, <3>1, <3>2
  <2>3. n - 1 \in 0..N /\ n - 1 \notin Bad /\ n \in 1..N /\ n \in 0..N
    BY <1>1, <2>1, <2>2
  <2>4. g[n - 1] \in Seq(Player) /\ s[n] \in Player
    BY <2>3, ElementOfSeq
  <2>5. g[n] = IF s[n].name \in X THEN Append(g[n - 1], s[n]) ELSE g[n - 1]
    <3>1. Picks(g, s, X, N)
      OBVIOUS
    <3> HIDE DEF N, Bad
    <3>2. \A i \in 0..N :
            i # 0 => g[i] = IF s[i].name \in X THEN Append(g[i - 1], s[i]) ELSE g[i - 1]
      BY ONLY <1>1, <3>1 DEF Picks
    <3> QED
      BY ONLY <2>2, <2>3, <3>2, Zenon
  <2>6. g[n] \in Seq(Player)
    BY <2>4, <2>5
  <2> QED
    BY <2>1, <2>6
<1> QED
  BY <1>2

\* If all that were picked by X are in Y, a subset of X, then Y picks the same.
LEMMA PicksAgree ==
  ASSUME NEW s, s \in Seq(Player), NEW X, NEW Y, Y \subseteq X, NEW g, NEW h,
         Picks(g, s, X, Len(s)), Picks(h, s, Y, Len(s)),
         \A j \in 1..Len(g[Len(s)]) : g[Len(s)][j].name \in Y
  PROVE  g[Len(s)] = h[Len(s)]
<1> DEFINE N == Len(s)
           All(x) == \A j \in 1..Len(x) : x[j].name \in Y
           Bad == {i \in 0..N : All(g[i]) /\ g[i] # h[i]}
<1>1. N \in Nat /\ \A i \in 0..N : g[i] \in Seq(Player)
  BY PicksType
<1>2. ASSUME Bad # {}
      PROVE  FALSE
  <2> Bad \subseteq Nat
    BY <1>1
  <2> HIDE DEF Bad
  <2>1. PICK n \in Bad : \A m \in Bad : n <= m
    BY <1>2, LeastNat
  <2> USE DEF Bad
  <2>2. n # 0
    <3>1. n = 0 => g[n] = <<>> /\ h[n] = <<>>
      BY <1>1, <2>1, PicksStep
    <3> QED
      BY <2>1, <3>1
  <2>3. n - 1 \in 0..N /\ n - 1 \notin Bad /\ n \in 1..N /\ All(g[n]) /\ g[n] # h[n]
    <3>1. n \in 0..N /\ All(g[n]) /\ g[n] # h[n]
      BY <2>1
    <3> HIDE DEF N, Bad, All
    <3>2. n - 1 \in 0..N /\ n \in 1..N /\ ~(n <= n - 1)
      BY ONLY <1>1, <2>2, <3>1
    <3> QED
      BY ONLY <2>1, <3>1, <3>2
  <2>4. g[n - 1] \in Seq(Player) /\ s[n] \in Player
    BY <1>1, <2>3, ElementOfSeq
  <2> n \in 0..N
    BY <2>1
  <2>5. g[n] = IF s[n].name \in X THEN Append(g[n - 1], s[n]) ELSE g[n - 1]
    <3>1. Picks(g, s, X, N)
      OBVIOUS
    <3> HIDE DEF N, Bad, All
    <3>2. \A i \in 0..N :
            i # 0 => g[i] = IF s[i].name \in X THEN Append(g[i - 1], s[i]) ELSE g[i - 1]
      BY ONLY <1>1, <3>1 DEF Picks
    <3> QED
      BY ONLY <2>2, n \in 0..N, <3>2, Zenon
  <2>6. h[n] = IF s[n].name \in Y THEN Append(h[n - 1], s[n]) ELSE h[n - 1]
    <3>1. Picks(h, s, Y, N)
      OBVIOUS
    <3> HIDE DEF N, Bad, All
    <3>2. \A i \in 0..N :
            i # 0 => h[i] = IF s[i].name \in Y THEN Append(h[i - 1], s[i]) ELSE h[i - 1]
      BY ONLY <1>1, <3>1 DEF Picks
    <3> QED
      BY ONLY <2>2, n \in 0..N, <3>2, Zenon
  <2>7. ASSUME NEW j \in 1..Len(g[n - 1]), s[n].name \in X
        PROVE  g[n][j] = g[n - 1][j] /\ j \in 1..Len(g[n])
    BY <2>4, <2>5, <2>7
  <2>8. All(g[n - 1])
    <3>1. CASE s[n].name \in X
      BY <2>3, <2>7, <3>1
    <3>2. CASE s[n].name \notin X
      BY <2>3, <2>5, <3>2
    <3> QED
      BY <3>1, <3>2
  <2>9. g[n - 1] = h[n - 1]
    BY <2>3, <2>8
  <2>10. s[n].name \in X => s[n].name \in Y
    <3> SUFFICES ASSUME s[n].name \in X
                 PROVE  s[n].name \in Y
      OBVIOUS
    <3> DEFINE k == Len(g[n - 1]) + 1
    <3>1. k \in 1..Len(g[n]) /\ g[n][k] = s[n]
      BY <2>4, <2>5
    <3> QED
      BY <2>3, <3>1
  <2> QED
    BY <2>3, <2>5, <2>6, <2>9, <2>10
<1>3. All(g[N])
  OBVIOUS
<1> QED
  BY <1>1, <1>2, <1>3
\* The first k players of s, as far as their name is in X.
Picked(s, k, X) == (CHOOSE g : Picks(g, s, X, Len(s)))[k]

LEMMA PickedNone ==
  ASSUME NEW s, s \in Seq(Player), NEW X
  PROVE  Picked(s, 0, X) = <<>>
<1>1. Len(s) \in Nat
  OBVIOUS
<1>2. \E h : Picks(h, s, X, Len(s))
  BY <1>1, PicksExist
<1> DEFINE g == CHOOSE g : Picks(g, s, X, Len(s))
<1>3. Picks(g, s, X, Len(s))
  BY <1>2
<1> HIDE DEF g
<1>4. g[0] = <<>>
  BY <1>1, <1>3, PicksStep
<1> QED
  BY <1>4 DEF Picked, g

LEMMA PickedNext ==
  ASSUME NEW s, s \in Seq(Player), NEW X, NEW k, k \in 1..Len(s)
  PROVE  Picked(s, k, X) = IF s[k].name \in X THEN Append(Picked(s, k - 1, X), s[k])
                           ELSE Picked(s, k - 1, X)
<1>1. Len(s) \in Nat
  OBVIOUS
<1>2. \E h : Picks(h, s, X, Len(s))
  BY <1>1, PicksExist
<1> DEFINE g == CHOOSE g : Picks(g, s, X, Len(s))
<1>3. Picks(g, s, X, Len(s))
  BY <1>2
<1> HIDE DEF g
<1>4. k \in 0..Len(s) /\ k # 0
  BY <1>1
<1>5. g[k] = IF s[k].name \in X THEN Append(g[k - 1], s[k]) ELSE g[k - 1]
  BY <1>1, <1>3, <1>4, PicksStep
<1>6. Picked(s, k, X) = g[k] /\ Picked(s, k - 1, X) = g[k - 1]
  BY DEF Picked, g
<1> QED
  BY <1>5, <1>6

LEMMA PickedAgree ==
  ASSUME NEW s, s \in Seq(Player), NEW X, NEW Y, Y \subseteq X,
         \A j \in 1..Len(Picked(s, Len(s), X)) : Picked(s, Len(s), X)[j].name \in Y
  PROVE  Picked(s, Len(s), X) = Picked(s, Len(s), Y)
<1> DEFINE g == CHOOSE f : Picks(f, s, X, Len(s))
           h == CHOOSE f : Picks(f, s, Y, Len(s))
<1>1. Len(s) \in Nat
  OBVIOUS
<1>2. Picks(g, s, X, Len(s)) /\ Picks(h, s, Y, Len(s))
  <2>1. (\E f : Picks(f, s, X, Len(s))) /\ (\E f : Picks(f, s, Y, Len(s)))
    BY <1>1, PicksExist
  <2> QED
    BY <2>1
<1>3. Picked(s, Len(s), X) = g[Len(s)] /\ Picked(s, Len(s), Y) = h[Len(s)]
  BY DEF Picked
<1> HIDE DEF g, h
<1>4. \A j \in 1..Len(g[Len(s)]) : g[Len(s)][j].name \in Y
  BY <1>3
<1>5. g[Len(s)] = h[Len(s)]
  BY <1>2, <1>4, PicksAgree
<1> QED
  BY <1>3, <1>5

\* The players with a career are those picked by the names with a career.
LEMMA WithCareerPicked ==
  ASSUME NEW s, s \in Seq(Player)
  PROVE  WithCareer(s) = Picked(s, Len(s), DOMAIN career)
BY Zenon DEF WithCareer, Picked, Picks

\* The names that a look-up answers.
Answered == Soldier \cup Account

\* The look-ups of e have found the players of the snapshot that have an id, up
\* to the next one; the POST waits for the last of them; and only personas
\* have been credited.
Resolved(e) ==
  /\ Players(e) = Picked(e.snapshot, e.next - 1, Answered)
  /\ \A i \in 1..Len(e.found) : e.found[i].persona <=> e.found[i].name \in Soldier
  /\ e.client # "lookup" => e.next = Len(e.snapshot) + 1
  /\ \A i \in 1..e.credited : e.found[i].persona

Credits(led, det) ==
  \A m \in DOMAIN led : led[m] = Picked(det[m], Len(det[m]), Soldier)

DetailsOK == \A m \in DOMAIN details : details[m] \in Seq(Player)

Resolving ==
  /\ DOMAIN career = Soldier
  /\ \A r \in Started : Resolved(report[r])
  /\ DetailsOK
  /\ Credits(ledger, details)

\* d has got no further in what it knows than e.
SameFound(e, d) ==
  /\ d.snapshot = e.snapshot
  /\ d.next = e.next
  /\ d.found = e.found
  /\ d.credited = e.credited
  /\ d.client # "lookup" => e.next = Len(e.snapshot) + 1

LEMMA ResolvedStill ==
  ASSUME NEW e, NEW d, Resolved(e), SameFound(e, d)
  PROVE  Resolved(d)
<1>1. Players(d) = Players(e)
  BY DEF Players, SameFound
<1> QED
  BY <1>1 DEF Resolved, SameFound

LEMMA StepResolving ==
  ASSUME Resolving, NEW r \in Started, NEW e, Resolved(e), Step(r, e)
  PROVE  Resolving'
<1>1. /\ DOMAIN report' = DOMAIN report
      /\ \A s \in Started : report'[s] = IF s = r THEN e ELSE report[s]
  BY DEF Step, Started
<1>2. UNCHANGED <<ledger, details, career>>
  BY DEF Step, db
<1>3. \A s \in Started' : Resolved(report'[s])
  BY <1>1 DEF Resolving, Started
<1>4. DetailsOK' /\ Credits(ledger, details)'
  BY <1>2 DEF Resolving, DetailsOK, Credits
<1> QED
  BY <1>2, <1>3, <1>4 DEF Resolving, Resolved, Players

\* One more player looked up.
LEMMA PlayersFound ==
  ASSUME NEW e, ReportOK(e), e.next <= Len(e.snapshot), Resolved(e),
         NEW id, id \in Resolve(e.snapshot[e.next].name), ~LookupFails, DOMAIN career = Soldier,
         NEW d, d.snapshot = e.snapshot, d.next = e.next + 1, d.credited = e.credited,
         d.client = "lookup", d.found = Found(e.found, e.snapshot[e.next], id)
  PROVE  Resolved(d)
<1> DEFINE s == e.snapshot
           n == e.next
           p == s[n]
           f == e.found
           x == [name |-> p.name, kills |-> p.kills, persona |-> id = "persona"]
<1>1. /\ s \in Seq(Player) /\ n \in Nat \ {0} /\ Len(s) \in Nat /\ n <= Len(s)
      /\ f \in Seq([name : Name, kills : Kills, persona : BOOLEAN])
      /\ e.credited \in Nat /\ e.credited <= Len(f)
  BY DEF ReportOK, ReportState, Player
<1>2. n \in 1..Len(s) /\ d.next - 1 = n
  BY <1>1
<1>3. p \in Player
  BY <1>1, <1>2, ElementOfSeq
<1>4. Len(f) \in Nat /\ DOMAIN f = 1..Len(f)
  BY <1>1
<1>5. Picked(s, n, Answered) = IF p.name \in Answered THEN Append(Picked(s, n - 1, Answered), p)
                               ELSE Picked(s, n - 1, Answered)
  <2>1. s \in Seq(Player)
    BY <1>1
  <2>2. n \in 1..Len(s)
    BY <1>2
  <2> HIDE DEF s, n
  <2> DEFINE X == Answered
  <2> HIDE DEF X
  <2>3. Picked(s, n, X) = IF s[n].name \in X THEN Append(Picked(s, n - 1, X), s[n])
                          ELSE Picked(s, n - 1, X)
    BY <2>1, <2>2, PickedNext
  <2> QED
    BY <2>3, Zenon DEF X
<1>6. Players(e) = Picked(s, n - 1, Answered)
  BY DEF Resolved
<1>7. /\ id = "nobody" <=> p.name \notin Answered
      /\ id = "persona" <=> p.name \in Soldier
  BY DEF Resolve, Answered
<1>8. \A i \in 1..Len(f) : f[i].persona <=> f[i].name \in Soldier
  BY DEF Resolved
<1>9. \A i \in 1..e.credited : f[i].persona
  BY DEF Resolved
<1>10. CASE id = "nobody"
  <2>1. d.found = f
    BY <1>10 DEF Found
  <2>2. Players(d) = Players(e)
    BY <2>1 DEF Players
  <2>3. Players(d) = Picked(d.snapshot, d.next - 1, Answered)
    BY <1>2, <1>5, <1>6, <1>7, <1>10, <2>2
  <2> QED
    BY <1>8, <1>9, <2>1, <2>3 DEF Resolved
<1>11. CASE id # "nobody"
  <2>1. d.found = Append(f, x)
    BY <1>11 DEF Found
  <2>2. x.name = p.name /\ x.kills = p.kills /\ (x.persona <=> p.name \in Soldier)
    BY <1>7
  <2> HIDE DEF x
  <2>3. /\ Len(d.found) = Len(f) + 1
        /\ DOMAIN d.found = 1..(Len(f) + 1)
        /\ d.found[Len(f) + 1] = x
        /\ \A i \in 1..Len(f) : d.found[i] = f[i]
    BY <1>1, <2>1
  <2> DEFINE a == Players(e)
             b == Players(d)
  <2>4. /\ b = [i \in 1..(Len(f) + 1) |-> [name |-> d.found[i].name, kills |-> d.found[i].kills]]
        /\ a = [i \in 1..Len(f) |-> [name |-> f[i].name, kills |-> f[i].kills]]
    BY <1>4, <2>3 DEF Players
  <2>5. p = [name |-> p.name, kills |-> p.kills]
    BY <1>3 DEF Player
  <2>6. a \in Seq(Player)
    <3>1. \A i \in 1..Len(f) : f[i] \in [name : Name, kills : Kills, persona : BOOLEAN]
      BY <1>1, ElementOfSeq
    <3>2. \A i \in 1..Len(f) : [name |-> f[i].name, kills |-> f[i].kills] \in Player
      BY <3>1 DEF Player
    <3>3. a \in [1..Len(f) -> Player]
      BY <2>4, <3>2
    <3> QED
      BY <1>4, <3>3
  <2>7. Len(a) = Len(f)
    BY <1>4, <2>4, <2>6
  <2>8. Append(a, p) = [i \in 1..(Len(f) + 1) |-> IF i = Len(f) + 1 THEN p ELSE a[i]]
    <3>1. Append(a, p) = [i \in 1..(Len(a) + 1) |-> IF i = Len(a) + 1 THEN p ELSE a[i]]
      BY <1>3, <2>6
    <3> QED
      BY <2>7, <3>1
  <2>9. \A i \in 1..(Len(f) + 1) :
          [name |-> d.found[i].name, kills |-> d.found[i].kills]
            = IF i = Len(f) + 1 THEN p ELSE a[i]
    <3> SUFFICES ASSUME NEW i \in 1..(Len(f) + 1)
                 PROVE  [name |-> d.found[i].name, kills |-> d.found[i].kills]
                          = IF i = Len(f) + 1 THEN p ELSE a[i]
      OBVIOUS
    <3>1. CASE i = Len(f) + 1
      BY <2>2, <2>3, <2>5, <3>1
    <3>2. CASE i # Len(f) + 1
      <4>1. i \in 1..Len(f)
        BY <1>4, <3>2
      <4> QED
        BY ZenonT(40), <2>3, <2>4, <3>2, <4>1
    <3> QED
      BY <3>1, <3>2
  <2> DEFINE c == [i \in 1..(Len(f) + 1) |-> IF i = Len(f) + 1 THEN p ELSE a[i]]
  <2> HIDE DEF a, b
  <2>10. b = Append(a, p)
    <3>1. \A i \in 1..(Len(f) + 1) : b[i] = c[i]
      BY <2>4, <2>9
    <3>2. b = [i \in 1..(Len(f) + 1) |-> b[i]]
      BY ONLY <2>4
    <3>3. c = [i \in 1..(Len(f) + 1) |-> c[i]]
      OBVIOUS
    <3>4. c = Append(a, p)
      BY <2>8
    <3> HIDE DEF c
    <3>5. b = c
      BY ONLY <3>1, <3>2, <3>3
    <3> QED
      BY <3>4, <3>5
  <2>11. Players(d) = Picked(d.snapshot, d.next - 1, Answered)
    BY <1>2, <1>5, <1>6, <1>7, <1>11, <2>10 DEF a, b
  <2>12. ASSUME NEW i \in 1..Len(d.found)
         PROVE  d.found[i].persona <=> d.found[i].name \in Soldier
    <3>1. i \in 1..Len(f) \/ i = Len(f) + 1
      BY <1>4, <2>3
    <3> QED
      BY <1>8, <2>2, <2>3, <3>1
  <2>13. ASSUME NEW i \in 1..d.credited
         PROVE  d.found[i].persona
    <3>1. i \in 1..e.credited /\ i \in 1..Len(f)
      BY <1>1, <1>4
    <3> QED
      BY <1>9, <2>3, <3>1
  <2> QED
    BY <2>11, <2>12, <2>13 DEF Resolved
<1> QED
  BY <1>10, <1>11

LEMMA LookupResolves ==
  ASSUME Sound, Resolving, ~LookupFails, NEW r \in Started, Lookup(r)
  PROVE  Resolving'
<1> DEFINE e == report[r]
<1>1. e \in ReportState /\ ReportOK(e) /\ e.client = "lookup" /\ e.next <= Len(e.snapshot)
  BY ReportTyped DEF Lookup, Sound, TypeOK
<1>2. PICK id \in Resolve(e.snapshot[e.next].name) :
        Step(r, [e EXCEPT !.next = @ + 1, !.found = Found(@, e.snapshot[e.next], id)])
  BY DEF Lookup
<1> DEFINE d == [e EXCEPT !.next = e.next + 1, !.found = Found(e.found, e.snapshot[e.next], id)]
<1>3. Step(r, d)
  BY <1>1, <1>2 DEF ReportState
<1>4. d = [match |-> e.match, snapshot |-> e.snapshot, next |-> e.next + 1,
           found |-> Found(e.found, e.snapshot[e.next], id),
           client |-> e.client, server |-> e.server, credited |-> e.credited]
  BY <1>1, LookedUpFields
<1>5. /\ d.snapshot = e.snapshot /\ d.next = e.next + 1 /\ d.credited = e.credited
      /\ d.client = "lookup" /\ d.found = Found(e.found, e.snapshot[e.next], id)
  BY <1>1, <1>4
<1> HIDE DEF d
<1>6. Resolved(e) /\ DOMAIN career = Soldier
  BY DEF Resolving
<1>7. Resolved(d)
  BY <1>1, <1>2, <1>5, <1>6, PlayersFound
<1> QED
  BY <1>3, <1>7, StepResolving

LEMMA ResolvedTyped ==
  ASSUME Sound, Resolving, NEW r \in Started
  PROVE  /\ report[r] \in ReportState /\ ReportOK(report[r]) /\ Resolved(report[r])
         /\ report[r].match \in Match /\ report[r].next \in Nat /\ report[r].credited \in Nat
         /\ report[r].snapshot \in Seq(Player)
         /\ report[r].found \in Seq([name : Name, kills : Kills, persona : BOOLEAN])
<1> DEFINE e == report[r]
<1>1. e \in ReportState
  BY ReportTyped
<1>2. ReportOK(e)
  BY DEF Sound, TypeOK
<1>3. Resolved(e)
  BY DEF Resolving
<1> HIDE DEF e
<1>4. /\ e.match \in Match /\ e.next \in Nat /\ e.credited \in Nat
      /\ e.snapshot \in Seq(Player)
      /\ e.found \in Seq([name : Name, kills : Kills, persona : BOOLEAN])
  BY <1>1 DEF ReportState, Player
<1> QED
  BY <1>1, <1>2, <1>3, <1>4 DEF e

\* The steps of a report that find nobody.
LEMMA ProgressResolves ==
  ASSUME Sound, Resolving, NEW r \in Started,
         \/ Post(r) \/ Timeout(r) \/ Reply(r)
         \/ InsertMatch(r) \/ DeadlockVictim(r) \/ ServiceFault(r)
  PROVE  Resolving'
<1> DEFINE e == report[r]
<1>1. /\ e \in ReportState /\ ReportOK(e) /\ Resolved(e)
      /\ e.next \in Nat /\ Len(e.snapshot) \in Nat
  <2>1. /\ e \in ReportState /\ ReportOK(e) /\ Resolved(e)
        /\ e.next \in Nat /\ e.snapshot \in Seq(Player)
    BY ResolvedTyped, Zenon
  <2> QED
    BY <2>1
<1>2. ASSUME NEW c, NEW v, c # "lookup" => e.next = Len(e.snapshot) + 1
      PROVE  /\ SameFound(e, [e EXCEPT !.client = c])
             /\ SameFound(e, [e EXCEPT !.client = c, !.server = v])
  BY <1>1, <1>2 DEF SameFound, ReportState
<1>3. ASSUME NEW v
      PROVE  SameFound(e, [e EXCEPT !.server = v])
  BY <1>1 DEF SameFound, ReportState, Resolved
<1>4. e.client # "lookup" => e.next = Len(e.snapshot) + 1
  BY <1>1 DEF Resolved
<1>5. PICK d : SameFound(e, d) /\ Step(r, d)
  <2>1. CASE Post(r)
    <3>1. e.next = Len(e.snapshot) + 1
      <4>1. e.next > Len(e.snapshot) /\ e.next <= Len(e.snapshot) + 1
        BY <1>1, <2>1 DEF Post, ReportOK
      <4> QED
        BY <1>1, <4>1
    <3> QED
      BY <1>2, <2>1, <3>1 DEF Post
  <2>2. CASE Timeout(r) \/ Reply(r)
    BY <1>2, <1>4, <2>2 DEF Timeout, Reply
  <2>3. CASE InsertMatch(r) \/ DeadlockVictim(r) \/ ServiceFault(r)
    BY <1>3, <2>3 DEF InsertMatch, DeadlockVictim, ServiceFault
  <2> QED
    BY <2>1, <2>2, <2>3
<1> QED
  BY <1>1, <1>5, ResolvedStill, StepResolving

LEMMA IncrementResolves ==
  ASSUME Sound, Resolving, NEW r \in Started, Increment(r)
  PROVE  Resolving'
<1> DEFINE e == report[r]
           d == [e EXCEPT !.credited = e.credited + 1]
           x == [e EXCEPT !.server = "rejected"]
<1>1. e \in ReportState /\ Resolved(e) /\ e.credited \in Nat
  BY ReportTyped DEF Resolving, ReportState
<1>2. \/ Step(r, d) /\ e.found[e.credited + 1].persona
      \/ Step(r, x)
  BY <1>1 DEF Increment
<1>3. CASE Step(r, d) /\ e.found[e.credited + 1].persona
  <2>1. /\ d.snapshot = e.snapshot /\ d.next = e.next /\ d.found = e.found
        /\ d.client = e.client /\ d.credited = e.credited + 1
    BY <1>1 DEF ReportState
  <2> HIDE DEF d
  <2>2. Players(d) = Players(e)
    BY <2>1 DEF Players
  <2>3. \A i \in 1..d.credited : d.found[i].persona
    <3> SUFFICES ASSUME NEW i \in 1..d.credited
                 PROVE  d.found[i].persona
      OBVIOUS
    <3>1. i \in 1..e.credited \/ i = e.credited + 1
      BY <1>1, <2>1
    <3>2. \A j \in 1..e.credited : e.found[j].persona
      BY <1>1 DEF Resolved
    <3> QED
      BY <1>3, <2>1, <3>1, <3>2
  <2>4. Resolved(d)
    BY <1>1, <2>1, <2>2, <2>3 DEF Resolved
  <2> QED
    BY <1>3, <2>4, StepResolving
<1>4. CASE Step(r, x)
  <2>1. SameFound(e, x)
    BY <1>1 DEF SameFound, ReportState, Resolved
  <2> HIDE DEF x
  <2>2. Resolved(x)
    BY <1>1, <2>1, ResolvedStill
  <2> QED
    BY <1>4, <2>2, StepResolving
<1> QED
  BY <1>2, <1>3, <1>4

\* A transaction commits when all that were found had a persona: then they are
\* the players of the snapshot that have one.
LEMMA CommitCredits ==
  ASSUME Sound, Resolving, NEW r \in Started, Commit(r)
  PROVE  /\ report[r].snapshot \in Seq(Player)
         /\ Players(report[r])
              = Picked(report[r].snapshot, Len(report[r].snapshot), Soldier)
<1> DEFINE e == report[r]
           s == e.snapshot
           f == e.found
<1>1. /\ e \in ReportState /\ ReportOK(e) /\ Resolved(e)
      /\ s \in Seq(Player) /\ Len(s) \in Nat
      /\ f \in Seq([name : Name, kills : Kills, persona : BOOLEAN])
      /\ Len(f) \in Nat /\ DOMAIN f = 1..Len(f)
  <2>1. /\ e \in ReportState /\ ReportOK(e) /\ Resolved(e) /\ s \in Seq(Player)
        /\ f \in Seq([name : Name, kills : Kills, persona : BOOLEAN])
    BY ResolvedTyped, Zenon
  <2> QED
    BY <2>1
<1>2. e.server = "open" /\ e.credited = Len(f)
  BY DEF Commit
<1>3. e.client # "lookup"
  BY <1>1, <1>2 DEF ReportOK
<1>4. e.next - 1 = Len(s)
  <2>1. e.next = Len(s) + 1
    BY <1>1, <1>3 DEF Resolved
  <2> QED
    BY <1>1, <2>1
<1>5. Players(e) = Picked(s, Len(s), Answered)
  BY <1>1, <1>4 DEF Resolved
<1>6. \A i \in 1..Len(f) : f[i].name \in Soldier
  BY <1>1, <1>2 DEF Resolved
<1>7. /\ Players(e) = [i \in 1..Len(f) |-> [name |-> f[i].name, kills |-> f[i].kills]]
      /\ Players(e) \in Seq(Player)
  <2>1. Players(e) = [i \in 1..Len(f) |-> [name |-> f[i].name, kills |-> f[i].kills]]
    BY <1>1 DEF Players
  <2>2. \A i \in 1..Len(f) : f[i] \in [name : Name, kills : Kills, persona : BOOLEAN]
    BY <1>1, ElementOfSeq
  <2>3. \A i \in 1..Len(f) : [name |-> f[i].name, kills |-> f[i].kills] \in Player
    BY <2>2 DEF Player
  <2>4. Players(e) \in [1..Len(f) -> Player]
    BY <2>1, <2>3
  <2>5. Len(f) \in Nat
    BY <1>1
  <2> HIDE DEF f
  <2>6. Players(e) \in Seq(Player)
    BY <2>4, <2>5
  <2> QED
    BY <2>1, <2>6 DEF f
<1>8. Len(Players(e)) = Len(f)
  BY <1>1, <1>7
<1>9. \A j \in 1..Len(Players(e)) : Players(e)[j].name \in Soldier
  BY <1>6, <1>7, <1>8
<1>10. \A j \in 1..Len(Picked(s, Len(s), Answered)) : Picked(s, Len(s), Answered)[j].name \in Soldier
  BY <1>5, <1>9
<1>11. Soldier \subseteq Answered
  BY DEF Answered
<1>12. Picked(s, Len(s), Answered) = Picked(s, Len(s), Soldier)
  BY <1>1, <1>10, <1>11, PickedAgree
<1> QED
  BY <1>1, <1>5, <1>12

LEMMA CommitResolves ==
  ASSUME Sound, Resolving, NEW r \in Started, Commit(r)
  PROVE  Resolving'
<1> DEFINE e == report[r]
           d == [e EXCEPT !.server = "committed"]
           s == e.snapshot
           p == Players(e)
<1>1. e \in ReportState /\ Resolved(e) /\ e.match \in Match
  BY ReportTyped DEF Resolving, ReportState
<1>2. /\ report' = [report EXCEPT ![r] = d]
      /\ ledger' = Put(ledger, e.match, p)
      /\ details' = Put(details, e.match, s)
      /\ Credit(p)
  BY DEF Commit
<1>3. SameFound(e, d)
  BY <1>1 DEF SameFound, ReportState, Resolved
<1> HIDE DEF d
<1>4. Resolved(d)
  BY <1>1, <1>3, ResolvedStill
<1>5. \A q \in Started' : Resolved(report'[q])
  BY <1>2, <1>4 DEF Resolving, Started
<1>6. DOMAIN career' = Soldier
  BY <1>2 DEF Credit, L!Credited, Resolving
<1>7. s \in Seq(Player) /\ p = Picked(s, Len(s), Soldier)
  BY CommitCredits
<1> HIDE DEF e, s, p
<1>8. DetailsOK'
  BY <1>2, <1>7 DEF Resolving, DetailsOK, Put
<1>9. Credits(ledger', details')
  <2> SUFFICES ASSUME NEW m \in DOMAIN ledger'
               PROVE  ledger'[m] = Picked(details'[m], Len(details'[m]), Soldier)
    BY DEF Credits
  <2>1. CASE m = e.match
    <3>1. ledger'[m] = p /\ details'[m] = s
      BY <1>2, <2>1 DEF Put
    <3> QED
      BY <1>7, <3>1
  <2>2. CASE m # e.match
    <3>1. m \in DOMAIN ledger /\ m \in DOMAIN details
      BY <1>2, <2>2 DEF Put, Sound, TypeOK
    <3>2. ledger'[m] = ledger[m] /\ details'[m] = details[m]
      BY <1>2, <2>2, <3>1 DEF Put
    <3>3. ledger[m] = Picked(details[m], Len(details[m]), Soldier)
      BY <3>1 DEF Resolving, Credits
    <3> QED
      BY <3>2, <3>3
  <2> QED
    BY <2>1, <2>2
<1> QED
  BY <1>5, <1>6, <1>8, <1>9 DEF Resolving, Credits, Resolved, Players

LEMMA ResolvingInit == ASSUME Init PROVE Resolving
BY DEF Init, Resolving, DetailsOK, Credits, EmptyMap, Started

LEMMA FrameResolves ==
  ASSUME Sound, Sound', Resolving, NEW m \in Match, NEW snapshot \in Snapshot,
         NEW done \in BOOLEAN,
         Updgame(m, snapshot, done) \/ SplitUpdgame(m, snapshot, done)
  PROVE  Resolving'
<1>1. UNCHANGED <<ledger, details, career>>
  BY DEF Updgame, SplitUpdgame, db
<1>2. \/ report' = report
      \/ \E s : report' = Put(report, Cardinality(Started) + 1, StartReport(m, s))
  BY DEF Updgame, SplitUpdgame, TakeFinal, Remember
<1>3. \A q \in Started' : Resolved(report'[q])
  <2>1. CASE report' = report
    BY <2>1 DEF Resolving, Started
  <2>2. ASSUME NEW s, report' = Put(report, Cardinality(Started) + 1, StartReport(m, s))
        PROVE  \A q \in Started' : Resolved(report'[q])
    <3> DEFINE n == Cardinality(Started) + 1
               e == StartReport(m, s)
    <3>1. /\ e.snapshot = s /\ e.next = 1 /\ e.found = <<>> /\ e.client = "lookup"
          /\ e.credited = 0
      BY DEF StartReport
    <3>2. n \in Started' /\ report'[n] = e
      BY <2>2 DEF Put, Started
    <3>3. s \in Seq(Player)
      <4>1. ReportOK(report'[n])
        BY <3>2 DEF Sound, TypeOK
      <4> QED
        BY <3>1, <3>2, <4>1 DEF ReportOK, ReportState, Player
    <3> HIDE DEF n, e
    <3>4. Players(e) = <<>>
      BY <3>1 DEF Players
    <3>5. Picked(s, 0, Answered) = <<>>
      BY <3>3, PickedNone
    <3>6. Resolved(e)
      BY <3>1, <3>4, <3>5 DEF Resolved
    <3>7. \A q \in Started' : q = n \/ (q \in Started /\ report'[q] = report[q])
      BY <2>2 DEF Put, Started, n
    <3> QED
      BY <3>2, <3>6, <3>7 DEF Resolving
  <2> QED
    BY <1>2, <2>1, <2>2
<1> QED
  BY <1>1, <1>3 DEF Resolving, DetailsOK, Credits, Resolved, Players

LEMMA ResolvingStep ==
  ASSUME Sound, Sound', Resolving, ~LookupFails, ~Faults, [Next]_vars
  PROVE  Resolving'
<1>1. ASSUME NEW m \in Match, NEW snapshot \in Snapshot, NEW done \in BOOLEAN,
             Updgame(m, snapshot, done) \/ SplitUpdgame(m, snapshot, done)
      PROVE  Resolving'
  BY <1>1, FrameResolves
<1>2. ASSUME NEW r \in Started,
             \/ Post(r) \/ Timeout(r) \/ Reply(r)
             \/ InsertMatch(r) \/ DeadlockVictim(r) \/ ServiceFault(r)
      PROVE  Resolving'
  BY <1>2, ProgressResolves
<1>3. ASSUME NEW r \in Started, Lookup(r) \/ Increment(r) \/ Commit(r)
      PROVE  Resolving'
  BY <1>3, LookupResolves, IncrementResolves, CommitResolves
<1>4. CASE UNCHANGED vars
  BY <1>4 DEF vars, Resolving, DetailsOK, Credits, Resolved, Players, Started
<1>5. ~EngineCrash /\ (\A m \in Match : ~Reconnect(m)) /\ (\A n \in Name : ~DeletePersona(n))
  BY DEF EngineCrash, Reconnect, DeletePersona
<1> QED
  BY <1>1, <1>2, <1>3, <1>4, <1>5 DEF Next

\* Where every look-up is answered and no persona is deleted, a recorded match
\* credits exactly its players with a persona: frames may be split, reports of
\* one match may race, and any of them may be rolled back.  The two hypotheses
\* are needed: a look-up that times out drops its player from the credits and
\* not from the details, and a deleted persona stays in both.
THEOREM CreditsExact ==
  ASSUME ~LookupFails, ~Faults
  PROVE  Spec => []CreditedExactly
<1>1. Init => Resolving
  BY ResolvingInit
<1>2. Sound /\ Sound' /\ Resolving /\ [Next]_vars => Resolving'
  BY ResolvingStep
<1>3. Sound /\ Resolving => CreditedExactly
  <2> SUFFICES ASSUME Sound, Resolving, NEW m \in DOMAIN ledger
               PROVE  ledger[m] = WithCareer(details[m])
    BY DEF CreditedExactly
  <2>1. details[m] \in Seq(Player)
    BY DEF Sound, TypeOK, Resolving, DetailsOK
  <2>2. WithCareer(details[m]) = Picked(details[m], Len(details[m]), DOMAIN career)
    BY <2>1, WithCareerPicked
  <2>3. ledger[m] = Picked(details[m], Len(details[m]), Soldier)
    BY DEF Resolving, Credits
  <2> QED
    BY <2>2, <2>3 DEF Resolving
<1> QED
  BY <1>1, <1>2, <1>3, SoundHolds, PTL DEF Spec


=============================================================================
