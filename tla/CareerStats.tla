----------------------------- MODULE CareerStats -----------------------------
(***************************************************************************)
(* The row of persona_stats under its writers: the presence recordings of  *)
(* heartbeats and polls, which keep server_player_sessions too; match      *)
(* credits; the game servers' setpd; and the end of a persona's creation.  *)
(* Every writer runs its statements without a transaction, beside the      *)
(* others.  getpd reads the row back.                                      *)
(*                                                                         *)
(* Score stands for score, kills and deaths, which presence treats alike;  *)
(* time played is counted in elapsedSeconds.  A match credit adds any      *)
(* integers to them, negative ones too.  custom_stats is the number of the *)
(* setpd that replaced it last, and how often it was added to.             *)
(***************************************************************************)
EXTENDS Integers, Sequences, FiniteSets, Maps

CONSTANTS
  Server, Persona, PlayerName,
  NameOf,        \* the name of each persona; personas of two games may share it
  MaxScore,      \* bound on the score that a server reports
  Delta,         \* what a match may credit of score or of time
  Cutoff,        \* activeThreshold
  MaxTime,       \* bound on the clock
  Slots,         \* bound on the requests under way
  MaxRequests    \* bound on the requests of a behaviour

ASSUME CareerAssumption ==
  /\ NameOf \in [Persona -> PlayerName]
  /\ Delta \subseteq Int
  /\ {MaxScore, Cutoff, MaxTime, Slots, MaxRequests} \subseteq Nat

VARIABLES
  now,       \* the time
  sessions,  \* the table server_player_sessions
  rows,      \* the table persona_stats
  creating,  \* personas whose creation has still to insert their row
  reqs,      \* the requests under way
  begun,     \* requests begun
  writes,    \* per setpd its persona, and the setpds that had ended before it
  ended,     \* the setpds that were stored and answered
  tally      \* per persona, what matches credited and the recordings that missed it

vars == <<now, sessions, rows, creating, reqs, begun, writes, ended, tally>>

Slot == 1..Slots
NewRow == [score |-> 0, secs |-> 0, set |-> 0, plus |-> 0]
Larger(a, b) == IF a > b THEN a ELSE b
RowOf(p) == IF p \in DOMAIN rows THEN rows[p] ELSE NewRow

Init ==
  /\ now = 0 /\ sessions = <<>>
  /\ creating \in SUBSET Persona
  /\ rows = [p \in Persona \ creating |-> NewRow]
  /\ reqs = EmptyMap /\ begun = 0
  /\ writes = <<>> /\ ended = {}
  /\ tally = [p \in Persona |-> [score |-> 0, secs |-> 0, missed |-> 0]]

Open(s) == s \notin DOMAIN reqs /\ 1..(s - 1) \subseteq DOMAIN reqs /\ begun < MaxRequests

Begin(s, req) == reqs' = Put(reqs, s, req) /\ begun' = begun + 1

At(s, op, pc) == s \in DOMAIN reqs /\ reqs[s].op \in op /\ reqs[s].pc = pc
Goto(s, pc) == reqs' = [reqs EXCEPT ![s].pc = pc]
End(s) == reqs' = Delete(reqs, s)

Tick ==
  /\ now < MaxTime /\ now' = now + 1
  /\ UNCHANGED <<sessions, rows, creating, reqs, begun, writes, ended, tally>>

\* The second statement of PersonaRepository.create: INSERT ... ON CONFLICT DO NOTHING.
InsertStats(p) ==
  /\ p \in creating
  /\ creating' = creating \ {p}
  /\ rows' = IF p \in DOMAIN rows THEN rows ELSE Put(rows, p, NewRow)
  /\ UNCHANGED <<now, sessions, reqs, begun, writes, ended, tally>>

-----------------------------------------------------------------------------
(* recordPlayerSessions, for one of its players *)

Presence(s) ==
  /\ Open(s)
  /\ \E v \in Server, n \in PlayerName, x \in 0..MaxScore :
       Begin(s, [op |-> "presence", pc |-> "find", server |-> v, name |-> n,
                 score |-> x, at |-> now, row |-> 0])
  /\ UNCHANGED <<now, sessions, rows, creating, writes, ended, tally>>

\* The sessions of the player on the server seen since the threshold.
Active(q) ==
  {i \in DOMAIN sessions : /\ sessions[i].server = q.server /\ sessions[i].name = q.name
                           /\ sessions[i].seen + Cutoff >= q.at}

FindSession(s) ==
  /\ At(s, {"presence"}, "find")
  /\ LET found == Active(reqs[s]) IN
     \E i \in IF found = {} THEN {0} ELSE
                {j \in found : \A k \in found : sessions[k].seen <= sessions[j].seen} :
       reqs' = [reqs EXCEPT ![s].pc = "write", ![s].row = i]
  /\ UNCHANGED <<now, sessions, rows, creating, begun, writes, ended, tally>>

\* UPDATE of the session that was found, or INSERT of a new one.
WriteSession(s) ==
  /\ At(s, {"presence"}, "write")
  /\ LET q == reqs[s] IN
     sessions' =
       IF q.row = 0
       THEN Append(sessions, [server |-> q.server, name |-> q.name, score |-> q.score,
                              secs |-> 1, seen |-> q.at])
       ELSE [sessions EXCEPT ![q.row].seen = q.at, ![q.row].secs = @ + 1,
                             ![q.row].score = Larger(@, q.score)]
  /\ Goto(s, "sync")
  /\ UNCHANGED <<now, rows, creating, begun, writes, ended, tally>>

Synced(row, q) == [row EXCEPT !.secs = @ + 1, !.score = Larger(@, q.score)]

\* Mutant: only the sessions that were found are counted on.
SyncedOnline(q) == {p \in DOMAIN rows : NameOf[p] = q.name /\ q.row # 0}

\* UPDATE persona_stats ... WHERE LOWER(p.name) = LOWER($5): every persona of the name.
Synchronised(q) == {p \in DOMAIN rows : NameOf[p] = q.name}

\* The recording reached the personas of P with its name; it missed the others.
MissedBut(q, P) ==
  [p \in Persona |-> IF NameOf[p] = q.name /\ p \notin P
                     THEN [tally[p] EXCEPT !.missed = @ + 1] ELSE tally[p]]

Sync(s) ==
  /\ At(s, {"presence"}, "sync")
  /\ LET q == reqs[s] IN
     /\ rows' = [p \in DOMAIN rows |->
                   IF p \in Synchronised(q) THEN Synced(rows[p], q) ELSE rows[p]]
     /\ tally' = MissedBut(q, DOMAIN rows)
  /\ End(s)
  /\ UNCHANGED <<now, sessions, creating, begun, writes, ended>>

\* The error is ignored.
SyncFails(s) ==
  /\ At(s, {"presence"}, "sync")
  /\ tally' = MissedBut(reqs[s], {})
  /\ End(s)
  /\ UNCHANGED <<now, sessions, rows, creating, begun, writes, ended>>

-----------------------------------------------------------------------------
(* A match credit: incrementStats *)

\* INSERT ... ON CONFLICT DO UPDATE adds what the report says, whatever its sign.
Credited(row, x, t) == [row EXCEPT !.score = @ + x, !.secs = @ + t, !.plus = @ + 1]

Credit(p) ==
  /\ begun < MaxRequests /\ begun' = begun + 1
  /\ \E x \in Delta, t \in Delta :
       /\ rows' = Put(rows, p, Credited(RowOf(p), x, t))
       /\ tally' = [tally EXCEPT ![p].score = @ + x, ![p].secs = @ + t]
  /\ UNCHANGED <<now, sessions, creating, reqs, writes, ended>>

-----------------------------------------------------------------------------
(* setpd: writeCustomStats *)

\* kv = 0 replaces what is stored, any other kv adds to it.
Setpd(s) ==
  /\ Open(s)
  /\ \E p \in Persona, replace \in BOOLEAN :
       /\ Begin(s, [op |-> "setpd", pc |-> "write", persona |-> p, replace |-> replace,
                    id |-> Len(writes) + 1])
       /\ writes' = Append(writes, [persona |-> p, replace |-> replace, after |-> ended \cup {0}])
  /\ UNCHANGED <<now, sessions, rows, creating, ended, tally>>

WriteCustom(s) ==
  /\ At(s, {"setpd", "late"}, "write")
  /\ LET q == reqs[s] IN
     CASE q.replace /\ q.persona \in DOMAIN rows ->
            rows' = [rows EXCEPT ![q.persona].set = q.id, ![q.persona].plus = 0] /\ Goto(s, "stored")
       [] q.replace /\ q.persona \notin DOMAIN rows ->
            rows' = rows /\ Goto(s, "insert")
       [] OTHER ->
            rows' = Put(rows, q.persona, [RowOf(q.persona) EXCEPT !.plus = @ + 1]) /\ Goto(s, "stored")
  /\ UNCHANGED <<now, sessions, creating, begun, writes, ended, tally>>

\* Mutant: INSERT ... ON CONFLICT DO NOTHING.
InsertIgnored(s) ==
  /\ At(s, {"setpd", "late"}, "insert")
  /\ LET q == reqs[s] IN
     rows' = IF q.persona \in DOMAIN rows THEN rows
             ELSE Put(rows, q.persona, [NewRow EXCEPT !.set = q.id])
  /\ Goto(s, "stored")
  /\ UNCHANGED <<now, sessions, creating, begun, writes, ended, tally>>

\* Mutant: INSERT ... ON CONFLICT DO UPDATE with the values of the INSERT.
InsertOver(s) ==
  /\ At(s, {"setpd", "late"}, "insert")
  /\ rows' = Put(rows, reqs[s].persona, [NewRow EXCEPT !.set = reqs[s].id])
  /\ Goto(s, "stored")
  /\ UNCHANGED <<now, sessions, creating, begun, writes, ended, tally>>

\* The UPDATE found no row.  The INSERT fails if there is one meanwhile.
InsertCustom(s) ==
  /\ At(s, {"setpd", "late"}, "insert")
  /\ LET q == reqs[s] IN
     IF q.persona \in DOMAIN rows THEN rows' = rows /\ End(s)
     ELSE rows' = Put(rows, q.persona, [NewRow EXCEPT !.set = q.id]) /\ Goto(s, "stored")
  /\ UNCHANGED <<now, sessions, creating, begun, writes, ended, tally>>

\* setpdr; the write of a call that timed out ends here too.
Setpdr(s) ==
  /\ At(s, {"setpd", "late"}, "stored")
  /\ ended' = ended \cup {reqs[s].id} /\ End(s)
  /\ UNCHANGED <<now, sessions, rows, creating, begun, writes, tally>>

\* After 3 s the server is answered setpdr although the API has not stored.
CallTimesOut(s) ==
  /\ s \in DOMAIN reqs /\ reqs[s].op = "setpd"
  /\ reqs' = [reqs EXCEPT ![s].op = "late"]
  /\ UNCHANGED <<now, sessions, rows, creating, begun, writes, ended, tally>>

\* A persona that is not resolved or a statement that fails: setpdr all the same,
\* with nothing stored, and no recording that failed before its sync.
Fault(s) ==
  /\ s \in DOMAIN reqs /\ reqs[s].pc \in {"find", "write", "insert"}
  /\ End(s)
  /\ UNCHANGED <<now, sessions, rows, creating, begun, writes, ended, tally>>

-----------------------------------------------------------------------------
(* getpd *)

\* acked: the setpds that had ended when it began; found: the API answered the
\* look-up; set: what is answered, at first EMPTY_CAREER.
Getpd(s) ==
  /\ Open(s)
  /\ \E p \in Persona :
       Begin(s, [op |-> "getpd", pc |-> "read", persona |-> p, acked |-> ended, set |-> 0,
                 found |-> FALSE])
  /\ UNCHANGED <<now, sessions, rows, creating, writes, ended, tally>>

\* persona is whom the look-up finds, by name or else by profile id; without a row
\* the API answers zeros.
ReadCareer(s) ==
  /\ At(s, {"getpd"}, "read")
  /\ reqs' = [reqs EXCEPT ![s].pc = "answer", ![s].set = RowOf(reqs[s].persona).set,
                         ![s].found = TRUE]
  /\ UNCHANGED <<now, sessions, rows, creating, begun, writes, ended, tally>>

\* The look-ups fail or time out: resolvePersona returns null and the answer is
\* EMPTY_CAREER, whatever is stored.
LookupFails(s) ==
  /\ At(s, {"getpd"}, "read") /\ Goto(s, "answer")
  /\ UNCHANGED <<now, sessions, rows, creating, begun, writes, ended, tally>>

Getpdr(s) ==
  /\ At(s, {"getpd"}, "answer") /\ End(s)
  /\ UNCHANGED <<now, sessions, rows, creating, begun, writes, ended, tally>>

-----------------------------------------------------------------------------
Step(s) ==
  \/ Presence(s) \/ FindSession(s) \/ WriteSession(s) \/ Sync(s) \/ SyncFails(s)
  \/ Setpd(s) \/ WriteCustom(s) \/ InsertCustom(s) \/ Setpdr(s) \/ CallTimesOut(s)
  \/ Getpd(s) \/ ReadCareer(s) \/ LookupFails(s) \/ Getpdr(s) \/ Fault(s)

Next ==
  \/ \E s \in Slot : Step(s)
  \/ \E p \in Persona : Credit(p) \/ InsertStats(p)
  \/ Tick

Spec == Init /\ [][Next]_vars

-----------------------------------------------------------------------------
TypeOK ==
  /\ now \in 0..MaxTime /\ creating \subseteq Persona
  /\ DOMAIN rows \subseteq Persona
  /\ \A p \in DOMAIN rows : rows[p] \in [score: Int, secs: Int, set: 0..Len(writes), plus: Nat]
  /\ \A i \in DOMAIN sessions : sessions[i].server \in Server /\ sessions[i].name \in PlayerName
  /\ DOMAIN reqs \subseteq Slot /\ begun \in 0..MaxRequests
  /\ ended \subseteq 1..Len(writes)
  /\ DOMAIN tally = Persona
  \* a persona is without a row only while it is created
  /\ Persona \ DOMAIN rows \subseteq creating

\* Two tables agree on the time: what the sessions of a name hold on all servers
\* is what its persona was given besides match credits, except for the recordings
\* between their two writes and those whose second write reached no row
\* (recordPlayerSessions beside incrementStats and writeCustomStats).
Played(n) ==
  LET upTo[i \in 0..Len(sessions)] ==
        IF i = 0 THEN 0
        ELSE upTo[i - 1] + (IF sessions[i].name = n THEN sessions[i].secs ELSE 0)
  IN upTo[Len(sessions)]
Syncing(n) == {s \in DOMAIN reqs : reqs[s].pc = "sync" /\ reqs[s].name = n}
TimeAgrees ==
  \A p \in Persona :
    Played(NameOf[p]) + tally[p].secs
      = RowOf(p).secs + tally[p].missed + Cardinality(Syncing(NameOf[p]))

\* No update is lost: score and time never fall besides what the credit of a match
\* takes itself, and a credit is added whole to what the other writers have left,
\* whichever of them makes the row (incrementStats, writeCustomStats, the sync of
\* recordPlayerSessions, PersonaRepository.create).
NoLostUpdate ==
  [][/\ DOMAIN rows \subseteq DOMAIN rows'
     /\ \A p \in Persona :
          /\ (RowOf(p).score - tally[p].score)' >= RowOf(p).score - tally[p].score
          /\ (RowOf(p).secs - tally[p].secs)' >= RowOf(p).secs - tally[p].secs]_vars

\* A getpd whose look-up the API answered does not return statistics that are older
\* than a stored setpd that ended before it began; of setpds that overlap it may
\* return either.  A setpd that timed out ends when the API has stored it.  Of a
\* getpd whose look-up failed nothing is said: it answers zeros (resolvePersona).
NoStaleRead ==
  \A s \in DOMAIN reqs : reqs[s].op = "getpd" /\ reqs[s].found =>
    ~ \E w \in reqs[s].acked :
        /\ writes[w].persona = reqs[s].persona /\ writes[w].replace
        /\ reqs[s].set \in writes[w].after

=============================================================================
