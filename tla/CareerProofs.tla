---------------------------- MODULE CareerProofs ----------------------------
(***************************************************************************)
(* Proofs about CareerStats, for any number of personas that share names,  *)
(* servers and requests, and any credits, those that take included: no     *)
(* update of a writer is lost to another; a getpd whose look-up was        *)
(* answered returns nothing older than a setpd that ended before it began; *)
(* and the time that the sessions of a name hold is the time of its        *)
(* personas besides credits, up to the recordings between their two writes *)
(* and those whose second write reached no row.                            *)
(*                                                                         *)
(* The last one is about a sum over the table of sessions, a recursive     *)
(* function: that it exists, and how it follows a row, is proved first.    *)
(***************************************************************************)
EXTENDS CareerStats, MapLemmas, SequenceTheorems, FiniteSetTheorems

-----------------------------------------------------------------------------
(* Sums *)

\* f[i] is the sum of the first i numbers of g.
Sums(f, g, N) == f = [i \in 0..N |-> IF i = 0 THEN 0 ELSE f[i - 1] + g[i]]

LEMMA SumsExist ==
  ASSUME NEW N \in Nat, NEW g, \A i \in 1..N : g[i] \in Nat
  PROVE  \E f : Sums(f, g, N)
<1> DEFINE Bad == {n \in 0..N : ~ \E f : Sums(f, g, n)}
<1>1. ASSUME Bad # {}
      PROVE  FALSE
  <2> Bad \subseteq Nat
    OBVIOUS
  <2> HIDE DEF Bad
  <2>1. PICK n \in Bad : \A m \in Bad : n <= m
    BY <1>1, LeastNat
  <2> USE DEF Bad
  <2>2. CASE n = 0
    <3>1. Sums([i \in 0..0 |-> 0], g, 0)
      BY DEF Sums
    <3> QED
      BY <2>1, <2>2, <3>1
  <2>3. CASE n # 0
    <3>1. n - 1 \in 0..N /\ n - 1 \notin Bad
      BY <2>1, <2>3
    <3>2. PICK f : Sums(f, g, n - 1)
      BY <3>1
    <3> DEFINE h == [i \in 0..n |-> IF i = n THEN f[n - 1] + g[n] ELSE f[i]]
    <3>3. f = [i \in 0..(n - 1) |-> IF i = 0 THEN 0 ELSE f[i - 1] + g[i]]
      BY <3>2 DEF Sums
    <3>4. ASSUME NEW i \in 0..n
          PROVE  h[i] = IF i = 0 THEN 0 ELSE h[i - 1] + g[i]
      <4>1. CASE i = n
        BY <2>1, <2>3, <4>1
      <4>2. CASE i # n
        <5>1. i \in 0..(n - 1) /\ (i # 0 => i - 1 \in 0..(n - 1))
          BY <2>1, <4>2
        <5> QED
          BY <2>1, <3>3, <4>2, <5>1
      <4> QED
        BY <4>1, <4>2
    <3>5. Sums(h, g, n)
      BY <3>4 DEF Sums
    <3> QED
      BY <2>1, <3>5
  <2> QED
    BY <2>2, <2>3
<1> QED
  BY <1>1

LEMMA SumsStep ==
  ASSUME NEW N \in Nat, NEW g, NEW f, Sums(f, g, N)
  PROVE  f[0] = 0 /\ \A i \in 1..N : f[i] = f[i - 1] + g[i]
BY DEF Sums

\* One of the numbers grows by d; the sums from there on grow by d.
GrowAt(g, h, N, k, d) ==
  \A i \in 1..N : g[i] \in Nat /\ h[i] = g[i] + (IF i = k THEN d ELSE 0)
GrowFrom(f, e, N, k, d) ==
  \A i \in 0..N : f[i] \in Nat /\ e[i] = f[i] + (IF k \in 1..i THEN d ELSE 0)

LEMMA SumsChange ==
  ASSUME NEW N \in Nat, NEW M \in Nat, N <= M, NEW g, NEW h, NEW f, NEW e,
         Sums(f, g, N), Sums(e, h, M), NEW k, k \in Nat, NEW d, d \in Nat, GrowAt(g, h, N, k, d)
  PROVE  GrowFrom(f, e, N, k, d)
<1> USE DEF GrowAt, GrowFrom
<1> DEFINE Bad == {i \in 0..N : ~(f[i] \in Nat /\ e[i] = f[i] + (IF k \in 1..i THEN d ELSE 0))}
<1>1. /\ f[0] = 0 /\ \A i \in 1..N : f[i] = f[i - 1] + g[i]
      /\ e[0] = 0 /\ \A i \in 1..M : e[i] = e[i - 1] + h[i]
  BY SumsStep
<1>2. ASSUME Bad # {}
      PROVE  FALSE
  <2> Bad \subseteq Nat
    OBVIOUS
  <2> HIDE DEF Bad
  <2>1. PICK n \in Bad : \A m \in Bad : n <= m
    BY <1>2, LeastNat
  <2> USE DEF Bad
  <2>2. CASE n = 0
    BY <1>1, <2>1, <2>2
  <2>3. CASE n # 0
    <3>1. n - 1 \in 0..N /\ n - 1 \notin Bad /\ n \in 1..N /\ n \in 1..M
      BY <2>1, <2>3
    <3>2. f[n - 1] \in Nat /\ e[n - 1] = f[n - 1] + (IF k \in 1..(n - 1) THEN d ELSE 0)
      BY <3>1
    <3>3. /\ f[n] = f[n - 1] + g[n] /\ e[n] = e[n - 1] + h[n]
          /\ g[n] \in Nat /\ h[n] = g[n] + (IF n = k THEN d ELSE 0)
      BY <1>1, <3>1
    <3> QED
      BY <2>1, <3>1, <3>2, <3>3
  <2> QED
    BY <2>2, <2>3
<1> QED
  BY <1>2

\* The last sum when one number is added at the end, and when one grows.
LEMMA SumsAppend ==
  ASSUME NEW N \in Nat, NEW g, NEW h, NEW f, NEW e, NEW d, d \in Nat,
         Sums(f, g, N), Sums(e, h, N + 1), GrowAt(g, h, N, 0, 0), h[N + 1] = d
  PROVE  f[N] \in Nat /\ e[N + 1] = f[N] + d
<1>1. N + 1 \in Nat /\ N <= N + 1 /\ 0 \in Nat
  OBVIOUS
<1>2. GrowFrom(f, e, N, 0, 0)
  BY <1>1, SumsChange
<1>3. f[N] \in Nat /\ e[N] = f[N]
  BY <1>2 DEF GrowFrom
<1>4. \A i \in 1..(N + 1) : e[i] = e[i - 1] + h[i]
  BY <1>1, SumsStep
<1>5. e[N + 1] = e[N] + h[N + 1]
  BY <1>4
<1> QED
  BY <1>3, <1>5

GrowIn(f, g, e, h, N, k, d) ==
  /\ N \in Nat /\ k \in 1..N /\ d \in Nat
  /\ Sums(f, g, N) /\ Sums(e, h, N) /\ GrowAt(g, h, N, k, d)

LEMMA SumsGrow ==
  ASSUME NEW N, NEW g, NEW h, NEW f, NEW e, NEW k, NEW d, GrowIn(f, g, e, h, N, k, d)
  PROVE  f[N] \in Nat /\ e[N] = f[N] + d
<1>1. /\ N \in Nat /\ k \in 1..N /\ d \in Nat
      /\ Sums(f, g, N) /\ Sums(e, h, N) /\ GrowAt(g, h, N, k, d)
  BY DEF GrowIn
<1>2. k \in Nat /\ N <= N
  BY <1>1
<1>3. GrowFrom(f, e, N, k, d)
  BY <1>1, <1>2, SumsChange
<1> QED
  BY <1>1, <1>3 DEF GrowFrom

\* The seconds that the sessions of a name have.
SecsOf(sess, n) == [i \in 1..Len(sess) |-> IF sess[i].name = n THEN sess[i].secs ELSE 0]

-----------------------------------------------------------------------------
(* Types *)

PresenceReq == [op : {"presence"}, pc : {"find", "write", "sync"}, server : Server,
                name : PlayerName, score : Nat, at : Nat, row : Nat]
SetpdReq == [op : {"setpd", "late"}, pc : {"write", "insert", "stored"}, persona : Persona,
             replace : BOOLEAN, id : Nat]
GetpdReq == [op : {"getpd"}, pc : {"read", "answer"}, persona : Persona,
             acked : SUBSET Nat, set : Nat, found : BOOLEAN]
Req == PresenceReq \cup SetpdReq \cup GetpdReq

Row == [score : Int, secs : Int, set : Nat, plus : Nat]
Sess == [server : Server, name : PlayerName, score : Nat, secs : Nat, seen : Nat]
Written == [persona : Persona, replace : BOOLEAN, after : SUBSET Nat]
Count == [score : Int, secs : Int, missed : Nat]

Reqs == IsMap(reqs, Slot, Req)
Rows == IsMap(rows, Persona, Row)
Sessions == sessions \in Seq(Sess)
Writes == writes \in Seq(Written) /\ ended \subseteq DOMAIN writes
Tally == tally \in [Persona -> Count]

TInv == Reqs /\ Rows /\ Sessions /\ Writes /\ Tally /\ now \in Nat

\* A request is of one of the three kinds.
LEMMA Kinds ==
  ASSUME NEW q, q \in Req
  PROVE  /\ q.op = "presence" => q \in PresenceReq
         /\ q.op \in {"setpd", "late"} => q \in SetpdReq
         /\ q.op = "getpd" => q \in GetpdReq
         /\ q.pc \in {"find", "sync"} => q \in PresenceReq
BY DEF Req, PresenceReq, SetpdReq, GetpdReq

LEMMA Known ==
  ASSUME TInv, NEW s, s \in DOMAIN reqs
  PROVE  IsMap(reqs, Slot, Req) /\ s \in Slot /\ reqs[s] \in Req
BY DEF TInv, Reqs, IsMap

\* One request begins, goes on or ends.
One(s) == IsMap(reqs', Slot, Req) /\ Rest(reqs, reqs', s) /\ Rest(reqs', reqs, s)

LEMMA Begins ==
  ASSUME TInv, NEW s \in Slot, s \notin DOMAIN reqs, NEW q, q \in Req, Begin(s, q)
  PROVE  One(s) /\ s \in DOMAIN reqs' /\ reqs'[s] = q
<1>1. IsMap(reqs, Slot, Req) /\ reqs' = Put(reqs, s, q)
  BY DEF TInv, Reqs, Begin
<1> QED
  BY <1>1, AddOne DEF One

LEMMA GoesOn ==
  ASSUME TInv, NEW s, s \in DOMAIN reqs, NEW q, q \in Req, reqs' = [reqs EXCEPT ![s] = q]
  PROVE  One(s) /\ s \in DOMAIN reqs' /\ reqs'[s] = q
<1>1. IsMap(reqs, Slot, Req)
  BY DEF TInv, Reqs
<1> QED
  BY <1>1, ChangeOne DEF One

LEMMA Ends ==
  ASSUME TInv, NEW s, s \in DOMAIN reqs, End(s)
  PROVE  One(s) /\ s \notin DOMAIN reqs'
<1>1. IsMap(reqs, Slot, Req) /\ reqs' = Delete(reqs, s)
  BY DEF TInv, Reqs, End
<1> QED
  BY <1>1, DropOne DEF One

\* What each operation makes of its request.
LEMMA PresenceReqs ==
  ASSUME TInv, NEW s \in Slot, Presence(s)
  PROVE  One(s) /\ s \notin DOMAIN reqs /\ s \in DOMAIN reqs'
         /\ reqs'[s].op = "presence" /\ reqs'[s].pc = "find"
<1>1. PICK v \in Server, n \in PlayerName, x \in 0..MaxScore :
        Begin(s, [op |-> "presence", pc |-> "find", server |-> v, name |-> n,
                  score |-> x, at |-> now, row |-> 0])
  BY DEF Presence
<1>2. [op |-> "presence", pc |-> "find", server |-> v, name |-> n,
       score |-> x, at |-> now, row |-> 0] \in Req
  BY CareerAssumption DEF TInv, Req, PresenceReq
<1>3. s \notin DOMAIN reqs
  BY DEF Presence, Open
<1> QED
  BY <1>1, <1>2, <1>3, Begins

LEMMA FindReqs ==
  ASSUME TInv, NEW s \in Slot, FindSession(s)
  PROVE  /\ One(s) /\ s \in DOMAIN reqs /\ s \in DOMAIN reqs' /\ reqs[s].pc = "find"
         /\ reqs'[s].op = "presence" /\ reqs'[s].pc = "write"
         /\ reqs'[s].name = reqs[s].name
         /\ reqs'[s].row # 0 => reqs'[s].row \in Active(reqs[s])
<1>1. PICK i \in {0} \cup Active(reqs[s]) :
        reqs' = [reqs EXCEPT ![s].pc = "write", ![s].row = i]
  BY DEF FindSession
<1>2. s \in DOMAIN reqs /\ reqs[s].op = "presence" /\ reqs[s].pc = "find"
  BY DEF FindSession, At
<1> DEFINE q == [reqs[s] EXCEPT !.pc = "write", !.row = i]
           q1 == [reqs[s] EXCEPT !.pc = "write"]
<1>3. reqs' = [reqs EXCEPT ![s] = q]
  BY <1>1
<1>4. reqs[s] \in PresenceReq /\ i \in Nat
  BY <1>2, Known, Kinds, LenProperties DEF Active, TInv, Sessions
<1>5. q1 \in PresenceReq /\ q1.pc = "write" /\ q1.name = reqs[s].name /\ q1.op = "presence"
  BY <1>4 DEF PresenceReq
<1>6. q = [q1 EXCEPT !.row = i]
  BY <1>4 DEF PresenceReq
<1> HIDE DEF q, q1
<1>7. /\ q \in PresenceReq /\ q.pc = "write" /\ q.name = reqs[s].name /\ q.op = "presence"
      /\ q.row = i
  BY <1>4, <1>5, <1>6 DEF PresenceReq
<1>8. q \in Req
  BY <1>7 DEF Req
<1>9. One(s) /\ s \in DOMAIN reqs' /\ reqs'[s] = q
  BY <1>2, <1>3, <1>8, GoesOn
<1> QED
  BY <1>1, <1>2, <1>7, <1>9

LEMMA GotoSync ==
  ASSUME TInv, NEW s \in Slot, WriteSession(s)
  PROVE  /\ One(s) /\ s \in DOMAIN reqs /\ s \in DOMAIN reqs'
         /\ reqs[s] \in PresenceReq /\ reqs[s].pc = "write"
         /\ reqs'[s].op = "presence" /\ reqs'[s].pc = "sync"
         /\ reqs'[s].name = reqs[s].name /\ reqs'[s].row = reqs[s].row
<1> DEFINE q == [reqs[s] EXCEPT !.pc = "sync"]
<1>1. /\ s \in DOMAIN reqs /\ reqs[s].op = "presence" /\ reqs[s].pc = "write"
      /\ reqs' = [reqs EXCEPT ![s] = q]
  BY DEF WriteSession, At, Goto
<1>2. reqs[s] \in PresenceReq
  BY <1>1, Known, Kinds
<1>3. /\ q \in PresenceReq /\ q.pc = "sync" /\ q.op = "presence"
      /\ q.name = reqs[s].name /\ q.row = reqs[s].row
  BY <1>2 DEF PresenceReq
<1> HIDE DEF q
<1>4. q \in Req
  BY <1>3 DEF Req
<1> QED
  BY <1>1, <1>2, <1>3, <1>4, GoesOn

LEMMA SyncReqs ==
  ASSUME TInv, NEW s \in Slot, Sync(s) \/ SyncFails(s)
  PROVE  /\ One(s) /\ s \in DOMAIN reqs /\ s \notin DOMAIN reqs'
         /\ reqs[s] \in PresenceReq /\ reqs[s].pc = "sync"
<1>1. s \in DOMAIN reqs /\ reqs[s].op = "presence" /\ reqs[s].pc = "sync" /\ End(s)
  BY DEF Sync, SyncFails, At
<1> QED
  BY <1>1, Known, Kinds, Ends

LEMMA SetpdReqs ==
  ASSUME TInv, NEW s \in Slot, Setpd(s)
  PROVE  /\ One(s) /\ s \notin DOMAIN reqs /\ s \in DOMAIN reqs'
         /\ reqs'[s].op = "setpd" /\ reqs'[s].pc = "write"
         /\ reqs'[s].id = Len(writes) + 1 /\ reqs'[s].persona \in Persona
         /\ reqs'[s].replace \in BOOLEAN
         /\ writes' = Append(writes, [persona |-> reqs'[s].persona, replace |-> reqs'[s].replace,
                                      after |-> ended \cup {0}])
<1>1. PICK p \in Persona, replace \in BOOLEAN :
        /\ Begin(s, [op |-> "setpd", pc |-> "write", persona |-> p, replace |-> replace,
                     id |-> Len(writes) + 1])
        /\ writes' = Append(writes, [persona |-> p, replace |-> replace, after |-> ended \cup {0}])
  BY DEF Setpd
<1>2. Len(writes) + 1 \in Nat
  BY LenProperties DEF TInv, Writes
<1>3. [op |-> "setpd", pc |-> "write", persona |-> p, replace |-> replace,
       id |-> Len(writes) + 1] \in Req
  BY <1>2 DEF Req, SetpdReq
<1>4. s \notin DOMAIN reqs
  BY DEF Setpd, Open
<1>5. /\ One(s) /\ s \in DOMAIN reqs'
      /\ reqs'[s] = [op |-> "setpd", pc |-> "write", persona |-> p, replace |-> replace,
                     id |-> Len(writes) + 1]
  BY <1>1, <1>3, <1>4, Begins
<1> QED
  BY <1>1, <1>4, <1>5

\* A setpd goes on to its INSERT or is stored.
LEMMA SetpdGoes ==
  ASSUME TInv, NEW s, s \in DOMAIN reqs, reqs[s].op \in {"setpd", "late"},
         NEW pc, pc \in {"insert", "stored"}, Goto(s, pc)
  PROVE  /\ One(s) /\ s \in DOMAIN reqs' /\ reqs[s] \in SetpdReq
         /\ reqs'[s].op = reqs[s].op /\ reqs'[s].pc = pc
         /\ reqs'[s].persona = reqs[s].persona /\ reqs'[s].replace = reqs[s].replace
         /\ reqs'[s].id = reqs[s].id
<1> DEFINE q == [reqs[s] EXCEPT !.pc = pc]
<1>1. reqs' = [reqs EXCEPT ![s] = q]
  BY DEF Goto
<1>2. reqs[s] \in SetpdReq
  BY Known, Kinds
<1>3. /\ q \in SetpdReq /\ q.pc = pc /\ q.op = reqs[s].op
      /\ q.persona = reqs[s].persona /\ q.replace = reqs[s].replace /\ q.id = reqs[s].id
  BY <1>2 DEF SetpdReq
<1> HIDE DEF q
<1>4. q \in Req
  BY <1>3 DEF Req
<1> QED
  BY <1>1, <1>2, <1>3, <1>4, GoesOn

LEMMA TimesOutReqs ==
  ASSUME TInv, NEW s \in Slot, CallTimesOut(s)
  PROVE  /\ One(s) /\ s \in DOMAIN reqs /\ s \in DOMAIN reqs' /\ reqs[s] \in SetpdReq
         /\ reqs[s].op = "setpd" /\ reqs'[s].op = "late" /\ reqs'[s].pc = reqs[s].pc
         /\ reqs'[s].persona = reqs[s].persona /\ reqs'[s].replace = reqs[s].replace
         /\ reqs'[s].id = reqs[s].id
<1> DEFINE q == [reqs[s] EXCEPT !.op = "late"]
<1>1. s \in DOMAIN reqs /\ reqs[s].op = "setpd" /\ reqs' = [reqs EXCEPT ![s] = q]
  BY DEF CallTimesOut
<1>2. reqs[s] \in SetpdReq
  BY <1>1, Known, Kinds
<1>3. /\ q \in SetpdReq /\ q.pc = reqs[s].pc /\ q.op = "late"
      /\ q.persona = reqs[s].persona /\ q.replace = reqs[s].replace /\ q.id = reqs[s].id
  BY <1>2 DEF SetpdReq
<1> HIDE DEF q
<1>4. q \in Req
  BY <1>3 DEF Req
<1> QED
  BY <1>1, <1>2, <1>3, <1>4, GoesOn

LEMMA GetpdReqs ==
  ASSUME TInv, NEW s \in Slot, Getpd(s)
  PROVE  /\ One(s) /\ s \notin DOMAIN reqs /\ s \in DOMAIN reqs'
         /\ reqs'[s].op = "getpd" /\ reqs'[s].pc = "read" /\ reqs'[s].acked = ended
         /\ reqs'[s].found = FALSE
<1>1. PICK p \in Persona :
        Begin(s, [op |-> "getpd", pc |-> "read", persona |-> p, acked |-> ended, set |-> 0,
                  found |-> FALSE])
  BY DEF Getpd
<1>2. ended \in SUBSET Nat
  BY LenProperties DEF TInv, Writes
<1>3. [op |-> "getpd", pc |-> "read", persona |-> p, acked |-> ended, set |-> 0,
       found |-> FALSE] \in Req
  BY <1>2 DEF Req, GetpdReq
<1>4. s \notin DOMAIN reqs
  BY DEF Getpd, Open
<1> QED
  BY <1>1, <1>3, <1>4, Begins

LEMMA ReadReqs ==
  ASSUME TInv, NEW s \in Slot, ReadCareer(s)
  PROVE  /\ One(s) /\ s \in DOMAIN reqs /\ s \in DOMAIN reqs' /\ reqs[s] \in GetpdReq
         /\ reqs[s].op = "getpd" /\ reqs'[s].op = "getpd"
         /\ reqs[s].pc = "read" /\ reqs'[s].pc = "answer"
         /\ reqs'[s].persona = reqs[s].persona /\ reqs'[s].acked = reqs[s].acked
         /\ reqs'[s].set = IF reqs[s].persona \in DOMAIN rows THEN rows[reqs[s].persona].set ELSE 0
<1> DEFINE p == reqs[s].persona
           x == IF p \in DOMAIN rows THEN rows[p].set ELSE 0
           q1 == [reqs[s] EXCEPT !.pc = "answer"]
           q2 == [reqs[s] EXCEPT !.pc = "answer", !.set = x]
           q == [reqs[s] EXCEPT !.pc = "answer", !.set = x, !.found = TRUE]
<1>1. s \in DOMAIN reqs /\ reqs[s].op = "getpd" /\ reqs[s].pc = "read"
      /\ reqs' = [reqs EXCEPT ![s] = q]
  <2>1. RowOf(p).set = x
    BY DEF RowOf, NewRow
  <2> HIDE DEF x
  <2> QED
    BY <2>1 DEF ReadCareer, At
<1>2. reqs[s] \in GetpdReq
  BY <1>1, Known, Kinds
<1>3. x \in Nat
  BY DEF TInv, Rows, Row, IsMap
<1>4. /\ q1 \in GetpdReq /\ q1.pc = "answer" /\ q1.op = "getpd"
      /\ q1.persona = p /\ q1.acked = reqs[s].acked
  BY <1>1, <1>2 DEF GetpdReq
<1>5. q2 = [q1 EXCEPT !.set = x] /\ q = [q2 EXCEPT !.found = TRUE]
  BY <1>2 DEF GetpdReq
<1> HIDE DEF q, q1, q2, x
<1>6. /\ q2 \in GetpdReq /\ q2.pc = "answer" /\ q2.op = "getpd"
      /\ q2.persona = p /\ q2.acked = reqs[s].acked /\ q2.set = x
  BY <1>3, <1>4, <1>5 DEF GetpdReq
<1>7. /\ q \in GetpdReq /\ q.pc = "answer" /\ q.op = "getpd"
      /\ q.persona = p /\ q.acked = reqs[s].acked /\ q.set = x
  BY <1>5, <1>6 DEF GetpdReq
<1>8. q \in Req
  BY <1>7 DEF Req
<1>9. One(s) /\ s \in DOMAIN reqs' /\ reqs'[s] = q
  BY <1>1, <1>8, GoesOn
<1> QED
  BY <1>1, <1>2, <1>7, <1>9 DEF x

LEMMA FailsReqs ==
  ASSUME TInv, NEW s \in Slot, LookupFails(s)
  PROVE  /\ One(s) /\ s \in DOMAIN reqs /\ s \in DOMAIN reqs' /\ reqs[s] \in GetpdReq
         /\ reqs[s].op = "getpd" /\ reqs'[s].op = "getpd"
         /\ reqs[s].pc = "read" /\ reqs'[s].pc = "answer"
         /\ reqs'[s].persona = reqs[s].persona /\ reqs'[s].acked = reqs[s].acked
         /\ reqs'[s].set = reqs[s].set /\ reqs'[s].found = reqs[s].found
<1> DEFINE q == [reqs[s] EXCEPT !.pc = "answer"]
<1>1. /\ s \in DOMAIN reqs /\ reqs[s].op = "getpd" /\ reqs[s].pc = "read"
      /\ reqs' = [reqs EXCEPT ![s] = q]
  BY DEF LookupFails, At, Goto
<1>2. reqs[s] \in GetpdReq
  BY <1>1, Known, Kinds
<1>3. /\ q \in GetpdReq /\ q.pc = "answer" /\ q.op = "getpd" /\ q.persona = reqs[s].persona
      /\ q.acked = reqs[s].acked /\ q.set = reqs[s].set /\ q.found = reqs[s].found
  BY <1>2 DEF GetpdReq
<1> HIDE DEF q
<1>4. q \in Req
  BY <1>3 DEF Req
<1> QED
  BY <1>1, <1>2, <1>3, <1>4, GoesOn

LEMMA EndReqs ==
  ASSUME TInv, NEW s \in Slot, Setpdr(s) \/ Getpdr(s) \/ Fault(s)
  PROVE  One(s) /\ s \in DOMAIN reqs /\ s \notin DOMAIN reqs' /\ reqs[s].pc # "sync"
<1>1. s \in DOMAIN reqs /\ End(s) /\ reqs[s].pc # "sync"
  BY DEF Setpdr, Getpdr, Fault, At
<1> QED
  BY <1>1, Ends

-----------------------------------------------------------------------------
(* Rows *)

SecsAt(R, p) == IF p \in DOMAIN R THEN R[p].secs ELSE 0

ScoreAt(R, p) == IF p \in DOMAIN R THEN R[p].score ELSE 0

\* No row goes; no score falls.
RowsKept == \A p \in DOMAIN rows : p \in DOMAIN rows'
ScoresRise == \A p \in Persona : ScoreAt(rows', p) >= ScoreAt(rows, p)

SecsStay == \A p \in Persona : SecsAt(rows', p) = SecsAt(rows, p)
SetsStay == \A p \in DOMAIN rows : rows'[p].set = rows[p].set

LEMMA RowsSame ==
  ASSUME TInv, rows' = rows
  PROVE  Rows' /\ RowsKept /\ ScoresRise /\ SecsStay /\ SetsStay
BY DEF TInv, Rows, RowsKept, ScoresRise, ScoreAt, SecsStay, SetsStay, IsMap, Row

LEMMA PutRow ==
  ASSUME TInv, NEW p \in Persona, NEW row \in Row, rows' = Put(rows, p, row)
  PROVE  /\ Rows' /\ p \in DOMAIN rows' /\ rows'[p] = row
         /\ DOMAIN rows \subseteq DOMAIN rows'
         /\ \A x : x # p => (x \in DOMAIN rows' <=> x \in DOMAIN rows)
         /\ \A x \in DOMAIN rows : x # p => rows'[x] = rows[x]
<1>1. Rows'
  BY PutType DEF TInv, Rows
<1> QED
  BY <1>1 DEF Put

LEMMA RowOfType ==
  ASSUME TInv, NEW p
  PROVE  /\ RowOf(p) \in Row /\ RowOf(p).secs = SecsAt(rows, p)
         /\ RowOf(p).score = ScoreAt(rows, p)
         /\ p \in DOMAIN rows => RowOf(p) = rows[p]
         /\ p \notin DOMAIN rows => RowOf(p).set = 0
BY DEF TInv, Rows, IsMap, Row, NewRow, RowOf, SecsAt, ScoreAt

LEMMA Numbers ==
  ASSUME TInv, NEW p \in Persona
  PROVE  /\ ScoreAt(rows, p) \in Int /\ SecsAt(rows, p) \in Int
         /\ tally[p].score \in Int /\ tally[p].secs \in Int
BY DEF TInv, Rows, IsMap, Row, ScoreAt, SecsAt, Tally, Count

LEMMA SyncRows ==
  ASSUME TInv, NEW s \in Slot, Sync(s)
  PROVE  /\ Rows' /\ RowsKept /\ ScoresRise /\ SetsStay /\ DOMAIN rows' = DOMAIN rows
         /\ \A p \in DOMAIN rows :
              rows'[p].secs = rows[p].secs + (IF NameOf[p] = reqs[s].name THEN 1 ELSE 0)
<1> DEFINE q == reqs[s]
<1>1. q \in PresenceReq
  BY SyncReqs
<1>2. q.score \in Nat
  BY <1>1 DEF PresenceReq
<1>3. rows' = [p \in DOMAIN rows |->
                 IF p \in Synchronised(q) THEN Synced(rows[p], q) ELSE rows[p]]
  BY DEF Sync
<1>4. IsMap(rows, Persona, Row)
  BY DEF TInv, Rows
<1>5. ASSUME NEW row \in Row
      PROVE  /\ Synced(row, q) \in Row /\ Synced(row, q).score >= row.score
             /\ Synced(row, q).secs = row.secs + 1 /\ Synced(row, q).set = row.set
  <2> DEFINE y == Larger(row.score, q.score)
             x == row.secs + 1
  <2>1. row.score \in Int /\ row.secs \in Int
    BY DEF Row
  <2>2. y \in Int /\ y >= row.score /\ x \in Int
    BY <1>2, <2>1 DEF Larger
  <2>3. Synced(row, q) = [row EXCEPT !.secs = x, !.score = y]
    BY DEF Synced
  <2> HIDE DEF x, y
  <2>4. Synced(row, q) = [score |-> y, secs |-> x, set |-> row.set, plus |-> row.plus]
    BY <2>3 DEF Row
  <2>5. row.set \in Nat /\ row.plus \in Nat
    BY DEF Row
  <2>6. Synced(row, q) \in Row
    BY <2>2, <2>4, <2>5 DEF Row
  <2> QED
    BY <2>2, <2>4, <2>6 DEF x
<1> HIDE DEF q
<1>6. \A p \in DOMAIN rows : rows[p] \in Row /\ rows[p].score \in Int /\ rows[p].secs \in Int
  BY <1>4 DEF IsMap, Row
<1>7. /\ DOMAIN rows' = DOMAIN rows
      /\ \A p \in DOMAIN rows :
           /\ rows'[p] \in Row /\ rows'[p].score >= rows[p].score
           /\ rows'[p].secs = rows[p].secs + (IF NameOf[p] = q.name THEN 1 ELSE 0)
           /\ rows'[p].set = rows[p].set
  BY <1>3, <1>5, <1>6 DEF Synchronised
<1>8. Rows'
  BY <1>3, <1>4, <1>7 DEF Rows, IsMap
<1> QED
  BY <1>7, <1>8 DEF RowsKept, ScoresRise, ScoreAt, SetsStay, q

\* What the statements make of one row.
LEMMA RowCredited ==
  ASSUME NEW row, row \in Row, NEW u, u \in Int, NEW t, t \in Int, NEW new, new = Credited(row, u, t)
  PROVE  /\ new \in Row /\ new.score = row.score + u
         /\ new.secs = row.secs + t /\ new.set = row.set
<1> DEFINE a == row.score + u
           b == row.secs + t
           c == row.plus + 1
           x == [row EXCEPT !.score = a]
           y == [x EXCEPT !.secs = b]
<1>1. row = [score |-> row.score, secs |-> row.secs, set |-> row.set, plus |-> row.plus]
  BY DEF Row
<1>2. a \in Int /\ b \in Int /\ c \in Nat /\ row.set \in Nat
  BY DEF Row
<1>3. new = [row EXCEPT !.score = a, !.secs = b, !.plus = c]
  BY DEF Credited
<1> HIDE DEF a, b, c
<1>4. x = [score |-> a, secs |-> row.secs, set |-> row.set, plus |-> row.plus]
  BY <1>1
<1>5. new = [y EXCEPT !.plus = c]
  BY <1>1, <1>3
<1> HIDE DEF x
<1>6. y = [score |-> a, secs |-> b, set |-> row.set, plus |-> row.plus]
  BY <1>4
<1> HIDE DEF y
<1>7. new = [score |-> a, secs |-> b, set |-> row.set, plus |-> c]
  BY <1>5, <1>6
<1> QED
  BY <1>2, <1>7 DEF Row, a, b

LEMMA RowReplaced ==
  ASSUME NEW row, row \in Row, NEW a, NEW b, NEW new, new = [row EXCEPT !.set = a, !.plus = b]
  PROVE  new = [score |-> row.score, secs |-> row.secs, set |-> a, plus |-> b]
<1> DEFINE x == [row EXCEPT !.set = a]
<1>1. row = [score |-> row.score, secs |-> row.secs, set |-> row.set, plus |-> row.plus]
  BY DEF Row
<1>2. x = [score |-> row.score, secs |-> row.secs, set |-> a, plus |-> row.plus]
  BY <1>1
<1>3. new = [x EXCEPT !.plus = b]
  BY <1>1
<1> HIDE DEF x
<1> QED
  BY <1>2, <1>3

\* A credit of u to the score and t to the time.
CreditBy(p, u, t) ==
  /\ rows' = Put(rows, p, Credited(RowOf(p), u, t))
  /\ tally' = [tally EXCEPT ![p].score = @ + u, ![p].secs = @ + t]

LEMMA CreditPick ==
  ASSUME NEW p \in Persona, Credit(p)
  PROVE  \E u \in Int, t \in Int : CreditBy(p, u, t)
<1>1. PICK u \in Delta, t \in Delta : CreditBy(p, u, t)
  BY DEF Credit, CreditBy
<1>2. u \in Int /\ t \in Int
  BY CareerAssumption
<1> QED
  BY <1>1, <1>2

LEMMA CreditRows ==
  ASSUME TInv, NEW p \in Persona, NEW u \in Int, NEW t \in Int, CreditBy(p, u, t)
  PROVE  /\ Rows' /\ RowsKept /\ SetsStay
         /\ \A x \in Persona :
              /\ SecsAt(rows', x) = SecsAt(rows, x) + (IF x = p THEN t ELSE 0)
              /\ ScoreAt(rows', x) = ScoreAt(rows, x) + (IF x = p THEN u ELSE 0)
<1> DEFINE row == RowOf(p)
           new == Credited(row, u, t)
<1>1. rows' = Put(rows, p, new)
  BY DEF CreditBy
<1>2. row \in Row /\ row.secs = SecsAt(rows, p) /\ row.score = ScoreAt(rows, p)
      /\ (p \in DOMAIN rows => row = rows[p])
  BY RowOfType
<1> HIDE DEF row
<1>3. /\ new \in Row /\ new.score = row.score + u /\ new.secs = row.secs + t
      /\ new.set = row.set
  BY <1>2, RowCredited
<1> HIDE DEF new
<1>4. /\ Rows' /\ p \in DOMAIN rows' /\ rows'[p] = new
      /\ DOMAIN rows \subseteq DOMAIN rows'
      /\ \A x : x # p => (x \in DOMAIN rows' <=> x \in DOMAIN rows)
      /\ \A x \in DOMAIN rows : x # p => rows'[x] = rows[x]
  BY <1>1, <1>3, PutRow
<1>5. \A x \in DOMAIN rows : rows[x].score \in Int /\ rows[x].secs \in Int
  BY DEF TInv, Rows, IsMap, Row
<1>6. RowsKept /\ SetsStay
  BY <1>2, <1>3, <1>4 DEF RowsKept, SetsStay
<1>7. \A x \in Persona :
        /\ SecsAt(rows', x) = SecsAt(rows, x) + (IF x = p THEN t ELSE 0)
        /\ ScoreAt(rows', x) = ScoreAt(rows, x) + (IF x = p THEN u ELSE 0)
  BY <1>2, <1>3, <1>4, <1>5 DEF SecsAt, ScoreAt
<1> QED
  BY <1>4, <1>6, <1>7

LEMMA InsertStatsRows ==
  ASSUME TInv, NEW p \in Persona, InsertStats(p)
  PROVE  Rows' /\ RowsKept /\ ScoresRise /\ SecsStay /\ SetsStay
<1>1. NewRow \in Row /\ NewRow.secs = 0 /\ NewRow.score = 0
  BY DEF NewRow, Row
<1>2. CASE p \in DOMAIN rows
  BY <1>2, RowsSame DEF InsertStats
<1>3. CASE p \notin DOMAIN rows
  <2>1. rows' = Put(rows, p, NewRow)
    BY <1>3 DEF InsertStats
  <2>2. /\ Rows' /\ p \in DOMAIN rows' /\ rows'[p] = NewRow
        /\ DOMAIN rows \subseteq DOMAIN rows'
        /\ \A x : x # p => (x \in DOMAIN rows' <=> x \in DOMAIN rows)
        /\ \A x \in DOMAIN rows : x # p => rows'[x] = rows[x]
    BY <1>1, <2>1, PutRow
  <2>3. \A x \in DOMAIN rows : x # p /\ rows[x].score \in Int
    BY <1>3 DEF TInv, Rows, IsMap, Row
  <2>4. RowsKept /\ SetsStay
    BY <1>3, <2>2, <2>3 DEF RowsKept, SetsStay
  <2>5. \A x \in Persona : ScoreAt(rows', x) = ScoreAt(rows, x) /\ SecsAt(rows', x) = SecsAt(rows, x)
    BY <1>1, <1>3, <2>2 DEF ScoreAt, SecsAt
  <2>6. \A x \in Persona : ScoreAt(rows, x) \in Int
    BY Numbers
  <2> QED
    BY <2>2, <2>4, <2>5, <2>6 DEF ScoresRise, SecsStay
<1> QED
  BY <1>2, <1>3

\* What a setpd writes: the persona's custom statistics, or nothing.
SetsBut(p, id) ==
  \A x \in DOMAIN rows : rows'[x].set = rows[x].set \/ (x = p /\ rows'[x].set = id)

LEMMA WriteCustomRows ==
  ASSUME TInv, NEW s \in Slot, WriteCustom(s)
  PROVE  /\ Rows' /\ RowsKept /\ ScoresRise /\ SecsStay
         /\ s \in DOMAIN reqs /\ reqs[s] \in SetpdReq /\ reqs[s].pc = "write"
         /\ SetsBut(reqs[s].persona, reqs[s].id)
         /\ \/ Goto(s, "insert") /\ rows' = rows
            \/ Goto(s, "stored") /\
               (reqs[s].replace => /\ reqs[s].persona \in DOMAIN rows'
                                   /\ rows'[reqs[s].persona].set = reqs[s].id)
<1> DEFINE q == reqs[s]
           p == q.persona
<1>1. s \in DOMAIN reqs /\ q.op \in {"setpd", "late"} /\ q.pc = "write"
  BY DEF WriteCustom, At
<1>2. q \in SetpdReq
  BY <1>1, Known, Kinds
<1>3. p \in Persona /\ q.id \in Nat /\ q.replace \in BOOLEAN
  BY <1>2 DEF SetpdReq
<1>4. IsMap(rows, Persona, Row)
  BY DEF TInv, Rows
<1>5. \A x \in DOMAIN rows : rows[x] \in Row /\ rows[x].score \in Int /\ rows[x].secs \in Int
  BY <1>4 DEF IsMap, Row
<1>6. CASE q.replace /\ p \in DOMAIN rows
  <2> DEFINE new == [rows[p] EXCEPT !.set = q.id, !.plus = 0]
  <2>1. rows' = [rows EXCEPT ![p].set = q.id, ![p].plus = 0] /\ Goto(s, "stored")
    BY <1>6 DEF WriteCustom
  <2>2. rows' = [rows EXCEPT ![p] = new]
    BY <1>6, <2>1
  <2>3. new = [score |-> rows[p].score, secs |-> rows[p].secs, set |-> q.id, plus |-> 0]
    <3>1. rows[p] \in Row
      BY <1>5, <1>6
    <3> QED
      BY <3>1, RowReplaced
  <2>4. new \in Row
    BY <1>3, <1>5, <1>6, <2>3 DEF Row
  <2>5. DOMAIN rows' = DOMAIN rows /\ rows'[p] = new
        /\ \A x \in DOMAIN rows : x # p => rows'[x] = rows[x]
    BY <1>6, <2>2
  <2>6. Rows'
    BY <1>4, <2>2, <2>4 DEF Rows, IsMap
  <2>7. RowsKept /\ ScoresRise /\ SecsStay /\ SetsBut(p, q.id) /\ rows'[p].set = q.id
    BY <1>5, <1>6, <2>3, <2>5 DEF RowsKept, ScoresRise, ScoreAt, SecsStay, SecsAt, SetsBut
  <2> QED
    BY <1>1, <1>2, <1>6, <2>1, <2>5, <2>6, <2>7
<1>7. CASE q.replace /\ p \notin DOMAIN rows
  <2>1. rows' = rows /\ Goto(s, "insert")
    BY <1>7 DEF WriteCustom
  <2> QED
    BY <1>1, <1>2, <2>1, RowsSame DEF SetsStay, SetsBut
<1>8. CASE ~q.replace
  <2> DEFINE row == RowOf(p)
             new == [row EXCEPT !.plus = @ + 1]
  <2>1. rows' = Put(rows, p, new) /\ Goto(s, "stored")
    BY <1>8 DEF WriteCustom
  <2>2. /\ row \in Row /\ row.secs = SecsAt(rows, p) /\ row.score = ScoreAt(rows, p)
        /\ (p \in DOMAIN rows => row = rows[p])
    BY RowOfType
  <2> HIDE DEF row
  <2>3. new = [score |-> row.score, secs |-> row.secs, set |-> row.set, plus |-> row.plus + 1]
    BY <2>2 DEF Row
  <2>4. new \in Row /\ new.score = row.score /\ new.secs = row.secs /\ new.set = row.set
    BY <2>2, <2>3 DEF Row
  <2> HIDE DEF new
  <2>5. /\ Rows' /\ p \in DOMAIN rows' /\ rows'[p] = new
        /\ DOMAIN rows \subseteq DOMAIN rows'
        /\ \A x : x # p => (x \in DOMAIN rows' <=> x \in DOMAIN rows)
        /\ \A x \in DOMAIN rows : x # p => rows'[x] = rows[x]
    BY <1>3, <2>1, <2>4, PutRow
  <2>6. RowsKept /\ ScoresRise /\ SecsStay /\ SetsBut(p, q.id)
    BY <1>5, <2>2, <2>4, <2>5 DEF RowsKept, ScoresRise, ScoreAt, SecsStay, SecsAt, SetsBut
  <2> QED
    BY <1>1, <1>2, <1>8, <2>1, <2>5, <2>6
<1> QED
  BY <1>3, <1>6, <1>7, <1>8

LEMMA InsertCustomRows ==
  ASSUME TInv, NEW s \in Slot, InsertCustom(s)
  PROVE  /\ Rows' /\ RowsKept /\ ScoresRise /\ SecsStay /\ SetsStay
         /\ s \in DOMAIN reqs /\ reqs[s] \in SetpdReq /\ reqs[s].pc = "insert"
         /\ \/ End(s) /\ rows' = rows
            \/ Goto(s, "stored") /\ reqs[s].persona \in DOMAIN rows'
               /\ rows'[reqs[s].persona].set = reqs[s].id
<1> DEFINE q == reqs[s]
           p == q.persona
           new == [NewRow EXCEPT !.set = q.id]
<1>1. s \in DOMAIN reqs /\ q.op \in {"setpd", "late"} /\ q.pc = "insert"
  BY DEF InsertCustom, At
<1>2. q \in SetpdReq
  BY <1>1, Known, Kinds
<1>3. p \in Persona /\ q.id \in Nat
  BY <1>2 DEF SetpdReq
<1>4. CASE p \in DOMAIN rows
  BY <1>1, <1>2, <1>4, RowsSame DEF InsertCustom
<1>5. CASE p \notin DOMAIN rows
  <2>1. rows' = Put(rows, p, new) /\ Goto(s, "stored")
    BY <1>5 DEF InsertCustom
  <2>2. new \in Row /\ new.secs = 0 /\ new.score = 0 /\ new.set = q.id
    BY <1>3 DEF Row, NewRow
  <2> HIDE DEF new
  <2>3. /\ Rows' /\ p \in DOMAIN rows' /\ rows'[p] = new
        /\ DOMAIN rows \subseteq DOMAIN rows'
        /\ \A x : x # p => (x \in DOMAIN rows' <=> x \in DOMAIN rows)
        /\ \A x \in DOMAIN rows : x # p => rows'[x] = rows[x]
    BY <1>3, <2>1, <2>2, PutRow
  <2>4. \A x \in DOMAIN rows : x # p /\ rows[x].score \in Int
    BY <1>5 DEF TInv, Rows, IsMap, Row
  <2>5. RowsKept /\ SetsStay
    BY <1>5, <2>3, <2>4 DEF RowsKept, SetsStay
  <2>6. \A x \in Persona : ScoreAt(rows', x) = ScoreAt(rows, x) /\ SecsAt(rows', x) = SecsAt(rows, x)
    BY <1>5, <2>2, <2>3 DEF ScoreAt, SecsAt
  <2>7. \A x \in Persona : ScoreAt(rows, x) \in Int
    BY Numbers
  <2>8. ScoresRise /\ SecsStay
    BY <2>6, <2>7 DEF ScoresRise, SecsStay
  <2> QED
    BY <1>1, <1>2, <2>1, <2>2, <2>3, <2>5, <2>8
<1> QED
  BY <1>4, <1>5

-----------------------------------------------------------------------------
(* Sessions and tallies *)

\* The row of its session that a recording found is one of its player.
Found(q, sess) ==
  q.op = "presence" /\ q.pc # "find" /\ q.row # 0
    => q.row \in DOMAIN sess /\ sess[q.row].name = q.name

RowsFound == \A s \in DOMAIN reqs : Found(reqs[s], sessions)

\* What a recording makes of the table: a row of its player gets one second more,
\* a new one if none was found.
Longer(sess, sess2, n) ==
  /\ Len(sess2) = Len(sess) + 1
  /\ \A i \in DOMAIN sess : sess2[i] = sess[i]
  /\ sess2[Len(sess) + 1].name = n /\ sess2[Len(sess) + 1].secs = 1

Raised(sess, sess2, n, row) ==
  /\ Len(sess2) = Len(sess) /\ row \in DOMAIN sess /\ sess[row].name = n
  /\ \A i \in DOMAIN sess :
       /\ sess2[i].name = sess[i].name
       /\ sess2[i].secs = sess[i].secs + (IF i = row THEN 1 ELSE 0)

Recorded(n, row) ==
  /\ sessions' \in Seq(Sess)
  /\ Longer(sessions, sessions', n) \/ Raised(sessions, sessions', n, row)

SeenAgain(new, e, at, x) ==
  new = [e EXCEPT !.seen = at, !.secs = @ + 1, !.score = Larger(@, x)]

LEMMA SessionSeen ==
  ASSUME NEW e, e \in Sess, NEW at, at \in Nat, NEW x, x \in Nat, NEW new,
         SeenAgain(new, e, at, x)
  PROVE  new \in Sess /\ new.name = e.name /\ new.secs = e.secs + 1
<1> DEFINE a == e.secs + 1
           b == Larger(e.score, x)
           y == [e EXCEPT !.seen = at]
           z == [y EXCEPT !.secs = a]
<1>1. e = [server |-> e.server, name |-> e.name, score |-> e.score, secs |-> e.secs, seen |-> e.seen]
  BY DEF Sess
<1>2. /\ a \in Nat /\ b \in Nat /\ e.server \in Server /\ e.name \in PlayerName
  BY DEF Sess, Larger
<1>3. new = [e EXCEPT !.seen = at, !.secs = a, !.score = b]
  BY DEF SeenAgain
<1> HIDE DEF a, b
<1>4. y = [server |-> e.server, name |-> e.name, score |-> e.score, secs |-> e.secs, seen |-> at]
  BY <1>1
<1>5. new = [z EXCEPT !.score = b]
  BY <1>1, <1>3
<1> HIDE DEF y
<1>6. z = [server |-> e.server, name |-> e.name, score |-> e.score, secs |-> a, seen |-> at]
  BY <1>4
<1> HIDE DEF z
<1>7. new = [server |-> e.server, name |-> e.name, score |-> b, secs |-> a, seen |-> at]
  BY <1>5, <1>6
<1> QED
  BY <1>2, <1>7 DEF Sess, a

LEMMA WriteSessionRecords ==
  ASSUME TInv, RowsFound, NEW s \in Slot, WriteSession(s)
  PROVE  Recorded(reqs[s].name, reqs[s].row)
<1> DEFINE q == reqs[s]
           r == q.row
<1>1. s \in DOMAIN reqs /\ q \in PresenceReq /\ q.pc = "write"
  BY GotoSync
<1>2. /\ r \in Nat /\ q.name \in PlayerName /\ q.server \in Server
      /\ q.score \in Nat /\ q.at \in Nat /\ q.op = "presence"
  BY <1>1 DEF PresenceReq
<1>3. sessions \in Seq(Sess)
  BY DEF TInv, Sessions
<1>4. CASE r = 0
  <2> DEFINE e == [server |-> q.server, name |-> q.name, score |-> q.score, secs |-> 1, seen |-> q.at]
  <2>1. sessions' = Append(sessions, e)
    BY <1>4 DEF WriteSession
  <2>2. e \in Sess /\ e.name = q.name /\ e.secs = 1
    BY <1>2 DEF Sess
  <2> HIDE DEF e
  <2>3. /\ sessions' \in Seq(Sess) /\ Len(sessions') = Len(sessions) + 1
        /\ \A i \in DOMAIN sessions : sessions'[i] = sessions[i]
        /\ sessions'[Len(sessions) + 1] = e
    BY <1>3, <2>1, <2>2
  <2> QED
    BY <2>2, <2>3 DEF Recorded, Longer, Raised
<1>5. CASE r # 0
  <2> DEFINE e == [sessions[r] EXCEPT !.seen = q.at, !.secs = @ + 1, !.score = Larger(@, q.score)]
  <2>1. sessions' = [sessions EXCEPT ![r].seen = q.at, ![r].secs = @ + 1,
                                     ![r].score = Larger(@, q.score)]
    BY <1>5 DEF WriteSession
  <2>2. r \in DOMAIN sessions /\ sessions[r].name = q.name
    BY <1>1, <1>2, <1>5 DEF RowsFound, Found
  <2>3. sessions' = [sessions EXCEPT ![r] = e]
    BY <2>1, <2>2
  <2>4. sessions[r] \in Sess
    BY <1>3, <2>2, ElementOfSeq, LenProperties
  <2>5. SeenAgain(e, sessions[r], q.at, q.score)
    BY DEF SeenAgain
  <2> HIDE DEF e
  <2>6. e \in Sess /\ e.name = sessions[r].name /\ e.secs = sessions[r].secs + 1
    BY <1>2, <2>4, <2>5, SessionSeen
  <2>7. sessions' \in Seq(Sess) /\ Len(sessions') = Len(sessions)
        /\ \A i \in DOMAIN sessions : sessions'[i] = IF i = r THEN e ELSE sessions[i]
    BY <1>3, <2>2, <2>3, <2>6
  <2>8. \A i \in DOMAIN sessions : sessions[i].secs \in Nat
    <3>1. \A i \in DOMAIN sessions : sessions[i] \in Sess
      BY <1>3, ElementOfSeq, LenProperties
    <3> QED
      BY <3>1 DEF Sess
  <2> QED
    BY <2>2, <2>6, <2>7, <2>8 DEF Recorded, Longer, Raised
<1> QED
  BY <1>4, <1>5

LEMMA MissedTally ==
  ASSUME TInv, NEW q, NEW P, tally' = MissedBut(q, P)
  PROVE  /\ Tally'
         /\ \A p \in Persona :
              /\ tally'[p].secs = tally[p].secs /\ tally'[p].score = tally[p].score
              /\ tally'[p].missed = tally[p].missed + (IF NameOf[p] = q.name /\ p \notin P THEN 1 ELSE 0)
<1>1. tally \in [Persona -> Count]
  BY DEF TInv, Tally
<1>2. ASSUME NEW c \in Count
      PROVE  /\ [c EXCEPT !.missed = @ + 1] \in Count
             /\ [c EXCEPT !.missed = @ + 1].secs = c.secs
             /\ [c EXCEPT !.missed = @ + 1].score = c.score
             /\ [c EXCEPT !.missed = @ + 1].missed = c.missed + 1
             /\ c.missed \in Nat
  BY DEF Count
<1>3. tally' = [p \in Persona |-> IF NameOf[p] = q.name /\ p \notin P
                                  THEN [tally[p] EXCEPT !.missed = @ + 1] ELSE tally[p]]
  BY DEF MissedBut
<1>4. \A p \in Persona :
        /\ tally'[p] \in Count
        /\ tally'[p].secs = tally[p].secs /\ tally'[p].score = tally[p].score
        /\ tally'[p].missed = tally[p].missed + (IF NameOf[p] = q.name /\ p \notin P THEN 1 ELSE 0)
  BY <1>1, <1>2, <1>3
<1> QED
  BY <1>3, <1>4 DEF Tally

LEMMA CreditTally ==
  ASSUME TInv, NEW p \in Persona, NEW u \in Int, NEW t \in Int, CreditBy(p, u, t)
  PROVE  /\ Tally'
         /\ \A x \in Persona :
              /\ tally'[x].secs = tally[x].secs + (IF x = p THEN t ELSE 0)
              /\ tally'[x].score = tally[x].score + (IF x = p THEN u ELSE 0)
              /\ tally'[x].missed = tally[x].missed
<1> DEFINE a == tally[p].score + u
           b == tally[p].secs + t
           c == [tally[p] EXCEPT !.score = a, !.secs = b]
<1>1. tally \in [Persona -> Count] /\ tally' = [tally EXCEPT ![p] = c]
  BY DEF TInv, Tally, CreditBy
<1>2. \A x \in Persona : tally[x] \in Count /\ tally[x].score \in Int /\ tally[x].secs \in Int
  BY <1>1 DEF Count
<1>3. a \in Int /\ b \in Int /\ tally[p].missed \in Nat
  BY <1>2 DEF Count
<1>4. c = [score |-> a, secs |-> b, missed |-> tally[p].missed]
  <2> HIDE DEF a, b
  <2> DEFINE d == [tally[p] EXCEPT !.score = a]
  <2>1. tally[p] = [score |-> tally[p].score, secs |-> tally[p].secs, missed |-> tally[p].missed]
    BY <1>2 DEF Count
  <2>2. d = [score |-> a, secs |-> tally[p].secs, missed |-> tally[p].missed]
    BY <2>1
  <2>3. c = [d EXCEPT !.secs = b]
    BY <2>1
  <2> HIDE DEF d
  <2> QED
    BY <2>2, <2>3
<1> HIDE DEF c
<1>5. c \in Count /\ c.score = a /\ c.secs = b /\ c.missed = tally[p].missed
  BY <1>3, <1>4 DEF Count
<1>6. \A x \in Persona : tally'[x] = IF x = p THEN c ELSE tally[x]
  BY <1>1
<1>7. Tally'
  BY <1>1, <1>2, <1>5, <1>6 DEF Tally
<1> QED
  BY <1>2, <1>5, <1>6, <1>7

-----------------------------------------------------------------------------
(* Every variable keeps its type *)

\* What a step does to the tables, by the operation.
LEMMA SetpdWrites ==
  ASSUME TInv, NEW s \in Slot, Setpd(s)
  PROVE  /\ Writes' /\ DOMAIN writes \subseteq DOMAIN writes' /\ reqs'[s].id \in DOMAIN writes'
         /\ \A w \in DOMAIN writes' : w \in DOMAIN writes \/ w = reqs'[s].id
         /\ \A w \in DOMAIN writes : writes'[w] = writes[w]
         /\ reqs'[s].id \notin DOMAIN writes
         /\ writes'[reqs'[s].id] = [persona |-> reqs'[s].persona, replace |-> reqs'[s].replace,
                                    after |-> ended \cup {0}]
<1> DEFINE e == [persona |-> reqs'[s].persona, replace |-> reqs'[s].replace,
                 after |-> ended \cup {0}]
<1>1. /\ writes \in Seq(Written) /\ ended \subseteq DOMAIN writes /\ ended' = ended
  BY DEF TInv, Writes, Setpd
<1>2. /\ reqs'[s].id = Len(writes) + 1 /\ writes' = Append(writes, e)
      /\ reqs'[s].persona \in Persona /\ reqs'[s].replace \in BOOLEAN
  BY SetpdReqs
<1>3. ended \cup {0} \in SUBSET Nat
  BY <1>1, LenProperties
<1>4. e \in Written
  BY <1>2, <1>3 DEF Written
<1> HIDE DEF e
<1>5. /\ writes' \in Seq(Written) /\ Len(writes') = Len(writes) + 1 /\ Len(writes) \in Nat
      /\ \A w \in DOMAIN writes : writes'[w] = writes[w]
      /\ writes'[Len(writes) + 1] = e
  BY <1>1, <1>2, <1>4
<1>6. DOMAIN writes' = 1..(Len(writes) + 1) /\ DOMAIN writes = 1..Len(writes)
  BY <1>1, <1>5
<1>7. DOMAIN writes \subseteq DOMAIN writes'
  BY <1>5, <1>6
<1>8. Writes'
  BY <1>1, <1>5, <1>7 DEF Writes
<1> QED
  BY <1>2, <1>5, <1>6, <1>7, <1>8 DEF e

\* The number of a setpd is that of its entry in writes.
Numbered ==
  \A s \in DOMAIN reqs : reqs[s].op \in {"setpd", "late"} => reqs[s].id \in DOMAIN writes

LEMMA TInvStep == ASSUME TInv, RowsFound, Numbered, [Next]_vars PROVE TInv'
<1>1. CASE UNCHANGED vars
  BY <1>1 DEF vars, TInv, Reqs, Rows, Sessions, Writes, Tally
<1>2. CASE Tick
  BY <1>2, CareerAssumption DEF Tick, TInv, Reqs, Rows, Sessions, Writes, Tally
<1>3. ASSUME NEW s \in Slot, Presence(s) \/ FindSession(s) \/ CallTimesOut(s) \/ Getpd(s)
                             \/ ReadCareer(s) \/ LookupFails(s) \/ Getpdr(s) \/ Fault(s)
      PROVE  TInv'
  <2>1. Reqs'
    BY <1>3, PresenceReqs, FindReqs, TimesOutReqs, GetpdReqs, ReadReqs, FailsReqs,
       EndReqs DEF One, Reqs
  <2> QED
    BY <1>3, <2>1 DEF TInv, Rows, Sessions, Writes, Tally, Presence, FindSession, CallTimesOut,
       Getpd, ReadCareer, LookupFails, Getpdr, Fault
<1>4. ASSUME NEW s \in Slot, WriteSession(s)
      PROVE  TInv'
  BY <1>4, GotoSync, WriteSessionRecords
     DEF WriteSession, One, Recorded, TInv, Reqs, Rows, Sessions, Writes, Tally
<1>5. ASSUME NEW s \in Slot, Sync(s)
      PROVE  TInv'
  <2>1. tally' = MissedBut(reqs[s], DOMAIN rows)
    BY <1>5 DEF Sync
  <2> QED
    BY <1>5, <2>1, SyncReqs, SyncRows, MissedTally DEF Sync, One, TInv, Reqs, Sessions, Writes
<1>6. ASSUME NEW s \in Slot, SyncFails(s)
      PROVE  TInv'
  <2>1. tally' = MissedBut(reqs[s], {})
    BY <1>6 DEF SyncFails
  <2> QED
    BY <1>6, <2>1, SyncReqs, MissedTally DEF SyncFails, One, TInv, Reqs, Rows, Sessions, Writes
<1>7. ASSUME NEW s \in Slot, Setpd(s)
      PROVE  TInv'
  BY <1>7, SetpdReqs, SetpdWrites DEF Setpd, One, TInv, Reqs, Rows, Sessions, Tally
<1>8. ASSUME NEW s \in Slot, WriteCustom(s)
      PROVE  TInv'
  <2>1. Rows' /\ s \in DOMAIN reqs /\ (Goto(s, "insert") \/ Goto(s, "stored"))
        /\ reqs[s].op \in {"setpd", "late"}
    BY <1>8, WriteCustomRows DEF WriteCustom, At
  <2>2. Reqs'
    BY <2>1, SetpdGoes DEF One, Reqs
  <2> QED
    BY <1>8, <2>1, <2>2 DEF WriteCustom, TInv, Sessions, Writes, Tally
<1>9. ASSUME NEW s \in Slot, InsertCustom(s)
      PROVE  TInv'
  <2>1. Rows' /\ s \in DOMAIN reqs /\ (End(s) \/ Goto(s, "stored"))
        /\ reqs[s].op \in {"setpd", "late"}
    BY <1>9, InsertCustomRows DEF InsertCustom, At
  <2>2. Reqs'
    BY <2>1, SetpdGoes, Ends DEF One, Reqs
  <2> QED
    BY <1>9, <2>1, <2>2 DEF InsertCustom, TInv, Sessions, Writes, Tally
<1>10. ASSUME NEW p \in Persona, Credit(p)
       PROVE  TInv'
  <2>1. PICK u \in Int, t \in Int : CreditBy(p, u, t)
    BY <1>10, CreditPick
  <2> QED
    BY <1>10, <2>1, CreditRows, CreditTally DEF Credit, TInv, Reqs, Sessions, Writes
<1>11. ASSUME NEW p \in Persona, InsertStats(p)
       PROVE  TInv'
  BY <1>11, InsertStatsRows DEF InsertStats, TInv, Reqs, Sessions, Writes, Tally
<1>12. ASSUME NEW s \in Slot, Setpdr(s)
       PROVE  TInv'
  <2>1. s \in DOMAIN reqs /\ reqs[s].id \in DOMAIN writes /\ ended' = ended \cup {reqs[s].id}
    BY <1>12 DEF Setpdr, At, Numbered
  <2> QED
    BY <1>12, <2>1, EndReqs DEF Setpdr, One, TInv, Reqs, Rows, Sessions, Writes, Tally
<1> QED
  BY <1>1, <1>2, <1>3, <1>4, <1>5, <1>6, <1>7, <1>8, <1>9, <1>10, <1>11, <1>12 DEF Next, Step

-----------------------------------------------------------------------------
(* What requests know, and what a getpd may return *)

IsSetpd(q) == q.op \in {"setpd", "late"}

IdOK(q, wr, end) ==
  IsSetpd(q) => /\ q.id \in DOMAIN wr /\ q.id \notin end
                /\ wr[q.id].persona = q.persona /\ wr[q.id].replace = q.replace

\* What a getpd found is not older than a setpd that had ended.
Fresh(q, wr) ==
  \A w \in q.acked : wr[w].persona = q.persona /\ wr[w].replace => q.set \notin wr[w].after

GetOK(q, wr, end) ==
  q.op = "getpd" => q.acked \subseteq end /\ (q.found => Fresh(q, wr))

Good(q, sess, wr, end) == Found(q, sess) /\ IdOK(q, wr, end) /\ GetOK(q, wr, end)

AllGood == \A s \in DOMAIN reqs : Good(reqs[s], sessions, writes, ended)

Distinct ==
  \A s, t \in DOMAIN reqs :
    IsSetpd(reqs[s]) /\ IsSetpd(reqs[t]) /\ reqs[s].id = reqs[t].id => s = t

\* A setpd began after those that had ended then.
After == \A w \in DOMAIN writes : writes[w].after \subseteq ended \cup {0}

\* The write of setpd w is done.
Done(R, end, w) ==
  w \in end \/ \E s \in DOMAIN R : IsSetpd(R[s]) /\ R[s].pc = "stored" /\ R[s].id = w

\* From then on the persona has a row, and no setpd that had ended before w is
\* the one that set it: those that write after w cannot have ended before it.
ShownOf(w, R, wr, end, tab) ==
  Done(R, end, w) /\ wr[w].replace =>
    wr[w].persona \in DOMAIN tab /\ tab[wr[w].persona].set \notin wr[w].after

Shown == \A w \in DOMAIN writes : ShownOf(w, reqs, writes, ended, rows)

SInv == AllGood /\ Distinct /\ After /\ Shown

LEMMA GoodStays ==
  ASSUME NEW q, NEW sess, NEW wr, NEW end, NEW sess2, NEW wr2, NEW end2,
         Good(q, sess, wr, end), end \subseteq DOMAIN wr, end \subseteq end2,
         IsSetpd(q) => q.id \notin end2,
         \A w \in DOMAIN wr : w \in DOMAIN wr2 /\ wr2[w] = wr[w],
         \A i \in DOMAIN sess : i \in DOMAIN sess2 /\ sess2[i].name = sess[i].name
  PROVE  Good(q, sess2, wr2, end2)
<1>1. Found(q, sess2)
  BY DEF Good, Found
<1>2. IdOK(q, wr2, end2)
  BY DEF Good, IdOK
<1>3. GetOK(q, wr2, end2)
  BY DEF Good, GetOK, Fresh
<1> QED
  BY <1>1, <1>2, <1>3 DEF Good

\* The tables keep what they have.
TablesGrow ==
  /\ ended \subseteq ended'
  /\ \A w \in DOMAIN writes : w \in DOMAIN writes' /\ writes'[w] = writes[w]
  /\ \A i \in DOMAIN sessions : i \in DOMAIN sessions' /\ sessions'[i].name = sessions[i].name

GoodNow(q) == Good(q, sessions', writes', ended')

LEMMA GoodStep ==
  ASSUME TInv, SInv, NEW s, One(s), TablesGrow,
         \A t \in DOMAIN reqs : t # s /\ IsSetpd(reqs[t]) => reqs[t].id \notin ended',
         s \in DOMAIN reqs' => GoodNow(reqs'[s]),
         \A t \in DOMAIN reqs :
           t # s /\ IsSetpd(reqs[t]) /\ s \in DOMAIN reqs' /\ IsSetpd(reqs'[s])
             => reqs[t].id # reqs'[s].id
  PROVE  AllGood' /\ Distinct'
<1>1. ASSUME NEW t \in DOMAIN reqs', t # s
      PROVE  GoodNow(reqs'[t])
  <2>1. t \in DOMAIN reqs /\ reqs'[t] = reqs[t]
    BY <1>1 DEF One, Rest
  <2>2. Good(reqs[t], sessions, writes, ended) /\ ended \subseteq DOMAIN writes
    BY <2>1 DEF SInv, AllGood, TInv, Writes
  <2>3. Good(reqs[t], sessions', writes', ended')
    BY <1>1, <2>1, <2>2, GoodStays DEF TablesGrow
  <2> QED
    BY <2>1, <2>3 DEF GoodNow
<1>2. AllGood'
  BY <1>1 DEF AllGood, GoodNow
<1>3. Distinct'
  BY DEF Distinct, SInv, One, Rest
<1> QED
  BY <1>2, <1>3

\* A step that stores nothing, or the setpd id.
LEMMA ShownStep ==
  ASSUME TInv, SInv, NEW id, id \notin ended, id # 0,
         DOMAIN writes \subseteq DOMAIN writes',
         \A w \in DOMAIN writes : writes'[w] = writes[w],
         \A w \in DOMAIN writes' : Done(reqs', ended', w) =>
           /\ w \in DOMAIN writes
           /\ \/ Done(reqs, ended, w)
              \/ w = id /\ (writes[id].replace => /\ writes[id].persona \in DOMAIN rows'
                                                  /\ rows'[writes[id].persona].set = id),
         \A p \in DOMAIN rows : p \in DOMAIN rows' /\ rows'[p].set \in {rows[p].set, id}
  PROVE  Shown'
<1>1. ASSUME NEW w \in DOMAIN writes', Done(reqs', ended', w), writes'[w].replace
      PROVE  /\ writes'[w].persona \in DOMAIN rows'
             /\ rows'[writes'[w].persona].set \notin writes'[w].after
  <2>1. w \in DOMAIN writes /\ writes'[w] = writes[w]
    BY <1>1
  <2>2. id \notin writes[w].after
    BY <2>1 DEF SInv, After
  <2>3. CASE Done(reqs, ended, w)
    <3>1. ShownOf(w, reqs, writes, ended, rows)
      BY <2>1 DEF SInv, Shown
    <3>2. writes[w].persona \in DOMAIN rows /\ rows[writes[w].persona].set \notin writes[w].after
      BY <1>1, <2>1, <2>3, <3>1 DEF ShownOf
    <3> QED
      BY <2>1, <2>2, <3>2
  <2>4. CASE ~Done(reqs, ended, w)
    BY <1>1, <2>1, <2>2, <2>4
  <2> QED
    BY <2>3, <2>4
<1> QED
  BY <1>1 DEF Shown, ShownOf

\* Steps that store nothing and change no row's custom statistics.
LEMMA QuietStep ==
  ASSUME TInv, SInv, NEW s, One(s), UNCHANGED <<writes, ended>>, TablesGrow, RowsKept, SetsStay,
         s \in DOMAIN reqs' => GoodNow(reqs'[s]),
         s \in DOMAIN reqs' /\ IsSetpd(reqs'[s]) =>
           /\ s \in DOMAIN reqs /\ IsSetpd(reqs[s]) /\ reqs'[s].id = reqs[s].id
           /\ reqs'[s].pc = "stored" => reqs[s].pc = "stored"
  PROVE  SInv'
<1>1. \A t \in DOMAIN reqs : IsSetpd(reqs[t]) => reqs[t].id \notin ended
  BY DEF SInv, AllGood, Good, IdOK
<1>2. \A t \in DOMAIN reqs :
           t # s /\ IsSetpd(reqs[t]) /\ s \in DOMAIN reqs' /\ IsSetpd(reqs'[s])
             => reqs[t].id # reqs'[s].id
  BY DEF SInv, Distinct
<1>3. AllGood' /\ Distinct'
  BY <1>1, <1>2, GoodStep
<1>4. After'
  BY DEF SInv, After
<1>5. \A w : Done(reqs', ended', w) => Done(reqs, ended, w)
  BY DEF Done, One, Rest
<1> DEFINE id == Len(writes) + 1
<1>6. id \notin ended /\ id # 0
  BY LenProperties DEF TInv, Writes
<1> HIDE DEF id
<1>7. \A p \in DOMAIN rows : p \in DOMAIN rows' /\ rows'[p].set \in {rows[p].set, id}
  BY DEF RowsKept, ScoresRise, ScoreAt, SetsStay
<1>8. Shown'
  BY <1>5, <1>6, <1>7, ShownStep
<1> QED
  BY <1>3, <1>4, <1>8 DEF SInv

LEMMA KnownGood ==
  ASSUME TInv, SInv, NEW s, s \in DOMAIN reqs
  PROVE  /\ Good(reqs[s], sessions, writes, ended)
         /\ IsSetpd(reqs[s]) => /\ reqs[s].id \in DOMAIN writes /\ reqs[s].id \notin ended
                                /\ reqs[s].id # 0
                                /\ writes[reqs[s].id].persona = reqs[s].persona
                                /\ writes[reqs[s].id].replace = reqs[s].replace
         /\ \A t \in DOMAIN reqs : t # s /\ IsSetpd(reqs[t]) /\ IsSetpd(reqs[s])
              => reqs[t].id # reqs[s].id
<1>1. 0 \notin DOMAIN writes
  BY LenProperties DEF TInv, Writes
<1> QED
  BY <1>1 DEF SInv, AllGood, Good, IdOK, Distinct

LEMMA RecordedGrow ==
  ASSUME TInv, NEW n, NEW row, Recorded(n, row), UNCHANGED <<writes, ended>>
  PROVE  /\ TablesGrow
         /\ row \in DOMAIN sessions => sessions'[row].name = sessions[row].name
<1>1. sessions \in Seq(Sess) /\ sessions' \in Seq(Sess)
  BY DEF TInv, Sessions, Recorded
<1>2. DOMAIN sessions \subseteq DOMAIN sessions'
  BY <1>1 DEF Recorded, Longer, Raised
<1>3. \A i \in DOMAIN sessions : sessions'[i].name = sessions[i].name
  BY DEF Recorded, Longer, Raised
<1> QED
  BY <1>2, <1>3 DEF TablesGrow

LEMMA SameGrow ==
  ASSUME UNCHANGED <<sessions, writes, ended>>
  PROVE  TablesGrow
BY DEF TablesGrow

\* The steps of no request.
LEMMA OthersSInv ==
  ASSUME TInv, SInv,
         Tick \/ (\E p \in Persona : Credit(p) \/ InsertStats(p)) \/ UNCHANGED vars
  PROVE  SInv'
<1>1. UNCHANGED <<reqs, sessions, writes, ended>>
  BY DEF Tick, Credit, InsertStats, vars
<1>2. RowsKept /\ SetsStay
  <2>1. ASSUME NEW p \in Persona, Credit(p)
        PROVE  RowsKept /\ SetsStay
    BY <2>1, CreditPick, CreditRows
  <2> QED
    BY <2>1, InsertStatsRows, RowsSame DEF Tick, vars
<1>3. One(0) /\ 0 \notin DOMAIN reqs'
  BY <1>1, CareerAssumption DEF One, TInv, Reqs, IsMap, Rest, Slot
<1> QED
  BY <1>1, <1>2, <1>3, SameGrow, QuietStep

LEMMA PresenceSInv ==
  ASSUME TInv, SInv, NEW s \in Slot,
         Presence(s) \/ FindSession(s) \/ WriteSession(s) \/ Sync(s) \/ SyncFails(s)
  PROVE  SInv'
<1>1. CASE Presence(s)
  <2>1. UNCHANGED <<sessions, rows, writes, ended>>
    BY <1>1 DEF Presence
  <2>2. /\ One(s) /\ s \in DOMAIN reqs' /\ reqs'[s].op = "presence" /\ reqs'[s].pc = "find"
    BY <1>1, PresenceReqs
  <2>3. GoodNow(reqs'[s]) /\ ~IsSetpd(reqs'[s])
    BY <2>2 DEF GoodNow, Good, Found, IdOK, GetOK, IsSetpd
  <2> QED
    BY <2>1, <2>2, <2>3, SameGrow, RowsSame, QuietStep
<1>2. CASE FindSession(s)
  <2>1. UNCHANGED <<sessions, rows, writes, ended>>
    BY <1>2 DEF FindSession
  <2>2. /\ One(s) /\ reqs'[s].op = "presence" /\ reqs'[s].name = reqs[s].name
        /\ reqs'[s].row # 0 => reqs'[s].row \in Active(reqs[s])
    BY <1>2, FindReqs
  <2>3. GoodNow(reqs'[s]) /\ ~IsSetpd(reqs'[s])
    BY <2>1, <2>2 DEF GoodNow, Good, Found, IdOK, GetOK, IsSetpd, Active
  <2> QED
    BY <2>1, <2>2, <2>3, SameGrow, RowsSame, QuietStep
<1>3. CASE WriteSession(s)
  <2>1. UNCHANGED <<rows, writes, ended>>
    BY <1>3 DEF WriteSession
  <2>2. /\ One(s) /\ s \in DOMAIN reqs /\ reqs[s] \in PresenceReq /\ reqs[s].pc = "write"
        /\ reqs'[s].op = "presence" /\ reqs'[s].name = reqs[s].name
        /\ reqs'[s].row = reqs[s].row
    BY <1>3, GotoSync
  <2>3. RowsFound
    BY DEF RowsFound, SInv, AllGood, Good
  <2>4. TablesGrow /\ (reqs[s].row \in DOMAIN sessions =>
                         sessions'[reqs[s].row].name = sessions[reqs[s].row].name)
    BY <1>3, <2>1, <2>3, WriteSessionRecords, RecordedGrow
  <2>5. reqs[s].row # 0 => reqs[s].row \in DOMAIN sessions /\ sessions[reqs[s].row].name = reqs[s].name
    BY <2>2, <2>3 DEF RowsFound, Found, PresenceReq
  <2>6. Found(reqs'[s], sessions')
    BY <2>2, <2>4, <2>5 DEF Found, TablesGrow
  <2>7. GoodNow(reqs'[s]) /\ ~IsSetpd(reqs'[s])
    BY <2>2, <2>6 DEF GoodNow, Good, IdOK, GetOK, IsSetpd
  <2> QED
    BY <2>1, <2>2, <2>4, <2>7, RowsSame, QuietStep
<1>4. CASE Sync(s) \/ SyncFails(s)
  <2>1. UNCHANGED <<sessions, writes, ended>>
    BY <1>4 DEF Sync, SyncFails
  <2>2. One(s) /\ s \notin DOMAIN reqs'
    BY <1>4, SyncReqs
  <2>3. RowsKept /\ ScoresRise /\ SetsStay
    BY <1>4, SyncRows, RowsSame DEF SyncFails
  <2> QED
    BY <2>1, <2>2, <2>3, SameGrow, QuietStep
<1> QED
  BY <1>1, <1>2, <1>3, <1>4

LEMMA SetpdSInv == ASSUME TInv, SInv, NEW s \in Slot, Setpd(s) PROVE SInv'
<1> DEFINE q == reqs'[s]
<1>1. UNCHANGED <<sessions, rows, ended>>
  BY DEF Setpd
<1>2. /\ One(s) /\ s \notin DOMAIN reqs /\ s \in DOMAIN reqs'
      /\ q.op = "setpd" /\ q.pc = "write"
  BY SetpdReqs
<1>3. /\ DOMAIN writes \subseteq DOMAIN writes' /\ q.id \in DOMAIN writes'
      /\ \A w \in DOMAIN writes' : w \in DOMAIN writes \/ w = q.id
      /\ \A w \in DOMAIN writes : writes'[w] = writes[w]
      /\ q.id \notin DOMAIN writes
      /\ writes'[q.id] = [persona |-> q.persona, replace |-> q.replace, after |-> ended \cup {0}]
  BY SetpdWrites
<1>4. /\ writes'[q.id].persona = q.persona /\ writes'[q.id].replace = q.replace
      /\ writes'[q.id].after = ended \cup {0}
  BY <1>3
<1>5. q.id \notin ended
  BY <1>3 DEF TInv, Writes
<1> HIDE DEF q
<1>6. TablesGrow
  BY <1>1, <1>3 DEF TablesGrow
<1>7. GoodNow(q)
  BY <1>1, <1>2, <1>3, <1>4, <1>5 DEF GoodNow, Good, Found, IdOK, GetOK, IsSetpd
<1>8. \A t \in DOMAIN reqs : IsSetpd(reqs[t]) =>
        reqs[t].id \in DOMAIN writes /\ reqs[t].id \notin ended /\ reqs[t].id # q.id
  BY <1>3, KnownGood
<1>9. AllGood' /\ Distinct'
  BY <1>1, <1>2, <1>6, <1>7, <1>8, GoodStep DEF q
<1>10. After'
  BY <1>1, <1>3, <1>4 DEF After, SInv
<1>11. \A w : Done(reqs', ended', w) => Done(reqs, ended, w)
  BY <1>1, <1>2 DEF Done, One, Rest, q
<1>12. \A w : Done(reqs, ended, w) => w \in DOMAIN writes
  BY <1>8 DEF Done, TInv, Writes
<1> DEFINE id == Len(writes) + 1
<1>13. id \notin ended /\ id # 0
  BY LenProperties DEF TInv, Writes
<1> HIDE DEF id
<1>14. \A p \in DOMAIN rows : p \in DOMAIN rows' /\ rows'[p].set \in {rows[p].set, id}
  BY <1>1
<1>15. Shown'
  BY <1>3, <1>11, <1>12, <1>13, <1>14, ShownStep
<1> QED
  BY <1>9, <1>10, <1>15 DEF SInv

\* A setpd that is stored now.
LEMMA StoredSInv ==
  ASSUME TInv, SInv, NEW s, s \in DOMAIN reqs, IsSetpd(reqs[s]), Goto(s, "stored"),
         UNCHANGED <<sessions, writes, ended>>, RowsKept /\ ScoresRise,
         SetsBut(reqs[s].persona, reqs[s].id),
         reqs[s].replace => /\ reqs[s].persona \in DOMAIN rows'
                            /\ rows'[reqs[s].persona].set = reqs[s].id
  PROVE  SInv'
<1> DEFINE q == reqs[s]
<1>1. /\ One(s) /\ s \in DOMAIN reqs'
      /\ reqs'[s].op = q.op /\ reqs'[s].pc = "stored"
      /\ reqs'[s].persona = q.persona /\ reqs'[s].replace = q.replace
      /\ reqs'[s].id = q.id
  BY SetpdGoes DEF IsSetpd
<1>2. /\ q.id \in DOMAIN writes /\ q.id \notin ended /\ q.id # 0
      /\ writes[q.id].persona = q.persona /\ writes[q.id].replace = q.replace
      /\ \A t \in DOMAIN reqs : t # s /\ IsSetpd(reqs[t]) => reqs[t].id # q.id /\ reqs[t].id \notin ended
  BY KnownGood
<1>3. GoodNow(reqs'[s])
  BY <1>1, <1>2 DEF GoodNow, Good, Found, IdOK, GetOK, IsSetpd
<1>4. AllGood' /\ Distinct'
  BY <1>1, <1>2, <1>3, SameGrow, GoodStep
<1>5. After'
  BY DEF SInv, After
<1>6. \A w : Done(reqs', ended', w) => Done(reqs, ended, w) \/ w = q.id
  BY <1>1 DEF Done, One, Rest
<1>7. \A w : Done(reqs, ended, w) => w \in DOMAIN writes
  BY KnownGood DEF Done, TInv, Writes
<1>8. \A p \in DOMAIN rows : p \in DOMAIN rows' /\ rows'[p].set \in {rows[p].set, q.id}
  BY DEF RowsKept, ScoresRise, ScoreAt, SetsBut
<1>9. Shown'
  BY <1>2, <1>6, <1>7, <1>8, ShownStep
<1> QED
  BY <1>4, <1>5, <1>9 DEF SInv

LEMMA CustomSInv ==
  ASSUME TInv, SInv, NEW s \in Slot, WriteCustom(s) \/ InsertCustom(s)
  PROVE  SInv'
<1>1. UNCHANGED <<sessions, writes, ended>>
  BY DEF WriteCustom, InsertCustom
<1>2. /\ RowsKept /\ ScoresRise /\ s \in DOMAIN reqs /\ reqs[s] \in SetpdReq /\ IsSetpd(reqs[s])
      /\ SetsBut(reqs[s].persona, reqs[s].id)
      /\ \/ Goto(s, "insert") /\ rows' = rows
         \/ End(s) /\ rows' = rows
         \/ Goto(s, "stored") /\
            (reqs[s].replace => /\ reqs[s].persona \in DOMAIN rows'
                                /\ rows'[reqs[s].persona].set = reqs[s].id)
  <2>1. CASE WriteCustom(s)
    BY <2>1, WriteCustomRows DEF WriteCustom, At, IsSetpd
  <2>2. CASE InsertCustom(s)
    BY <2>2, InsertCustomRows DEF InsertCustom, At, IsSetpd, SetsStay, SetsBut
  <2> QED
    BY <2>1, <2>2
<1>3. CASE Goto(s, "insert") /\ rows' = rows
  <2>1. /\ One(s) /\ s \in DOMAIN reqs'
        /\ reqs'[s].op = reqs[s].op /\ reqs'[s].pc = "insert"
        /\ reqs'[s].persona = reqs[s].persona /\ reqs'[s].replace = reqs[s].replace
        /\ reqs'[s].id = reqs[s].id
    BY <1>2, <1>3, SetpdGoes DEF IsSetpd
  <2>2. GoodNow(reqs'[s])
    BY <1>1, <1>2, <2>1, KnownGood DEF GoodNow, Good, Found, IdOK, GetOK, IsSetpd
  <2> QED
    BY <1>1, <1>2, <1>3, <2>1, <2>2, SameGrow, RowsSame, QuietStep
<1>4. CASE End(s) /\ rows' = rows
  BY <1>1, <1>2, <1>4, Ends, SameGrow, RowsSame, QuietStep
<1>5. CASE Goto(s, "stored") /\
            (reqs[s].replace => /\ reqs[s].persona \in DOMAIN rows'
                                /\ rows'[reqs[s].persona].set = reqs[s].id)
  BY <1>1, <1>2, <1>5, StoredSInv
<1> QED
  BY <1>2, <1>3, <1>4, <1>5

LEMMA SetpdrSInv == ASSUME TInv, SInv, NEW s \in Slot, Setpdr(s) PROVE SInv'
<1> DEFINE q == reqs[s]
<1>1. /\ s \in DOMAIN reqs /\ IsSetpd(q) /\ q.pc = "stored"
      /\ ended' = ended \cup {q.id} /\ UNCHANGED <<sessions, rows, writes>>
  BY DEF Setpdr, At, IsSetpd
<1>2. One(s) /\ s \notin DOMAIN reqs'
  BY EndReqs
<1>3. \A t \in DOMAIN reqs : t # s /\ IsSetpd(reqs[t]) => reqs[t].id \notin ended'
  BY <1>1, KnownGood
<1>4. TablesGrow
  BY <1>1 DEF TablesGrow
<1>5. AllGood' /\ Distinct'
  BY <1>2, <1>3, <1>4, GoodStep
<1>6. After'
  BY <1>1 DEF SInv, After
<1>7. \A w : Done(reqs', ended', w) => Done(reqs, ended, w)
  BY <1>1, <1>2 DEF Done, One, Rest
<1>8. \A w : Done(reqs, ended, w) => w \in DOMAIN writes
  BY KnownGood DEF Done, TInv, Writes
<1> DEFINE id == Len(writes) + 1
<1>9. id \notin ended /\ id # 0
  BY LenProperties DEF TInv, Writes
<1> HIDE DEF id
<1>10. \A p \in DOMAIN rows : p \in DOMAIN rows' /\ rows'[p].set \in {rows[p].set, id}
  BY <1>1
<1>11. Shown'
  BY <1>1, <1>7, <1>8, <1>9, <1>10, ShownStep
<1> QED
  BY <1>5, <1>6, <1>11 DEF SInv

\* What is read is as recent as every setpd that had ended when the getpd began.
LEMMA ReadSInv == ASSUME TInv, SInv, NEW s \in Slot, ReadCareer(s) PROVE SInv'
<1> DEFINE q == reqs[s]
<1>1. UNCHANGED <<sessions, rows, writes, ended>>
  BY DEF ReadCareer
<1>2. /\ One(s) /\ s \in DOMAIN reqs /\ s \in DOMAIN reqs'
      /\ q.op = "getpd" /\ reqs'[s].op = "getpd"
      /\ reqs'[s].persona = q.persona /\ reqs'[s].acked = q.acked
      /\ reqs'[s].set = IF q.persona \in DOMAIN rows THEN rows[q.persona].set ELSE 0
  BY ReadReqs
<1>3. q.acked \subseteq ended
  BY <1>2, KnownGood DEF Good, GetOK
<1>4. ASSUME NEW w \in q.acked, writes[w].persona = q.persona, writes[w].replace
      PROVE  reqs'[s].set \notin writes[w].after
  <2>1. w \in DOMAIN writes /\ Done(reqs, ended, w)
    BY <1>3 DEF TInv, Writes, Done
  <2>2. q.persona \in DOMAIN rows /\ rows[q.persona].set \notin writes[w].after
    BY <1>4, <2>1 DEF SInv, Shown, ShownOf
  <2> QED
    BY <1>2, <2>2
<1>5. Fresh(reqs'[s], writes)
  BY <1>2, <1>4 DEF Fresh
<1>6. GoodNow(reqs'[s]) /\ ~IsSetpd(reqs'[s])
  BY <1>1, <1>2, <1>3, <1>5 DEF GoodNow, Good, Found, IdOK, GetOK, IsSetpd
<1> QED
  BY <1>1, <1>2, <1>6, SameGrow, RowsSame, QuietStep

LEMMA RestSInv ==
  ASSUME TInv, SInv, NEW s \in Slot, CallTimesOut(s) \/ Getpd(s) \/ LookupFails(s) \/ Getpdr(s) \/ Fault(s)
  PROVE  SInv'
<1>1. UNCHANGED <<sessions, rows, writes, ended>>
  BY DEF CallTimesOut, Getpd, LookupFails, Getpdr, Fault
<1>2. CASE CallTimesOut(s)
  <2>1. /\ One(s) /\ s \in DOMAIN reqs /\ s \in DOMAIN reqs'
        /\ reqs[s].op = "setpd" /\ reqs'[s].op = "late" /\ reqs'[s].pc = reqs[s].pc
        /\ reqs'[s].persona = reqs[s].persona /\ reqs'[s].replace = reqs[s].replace
        /\ reqs'[s].id = reqs[s].id
    BY <1>2, TimesOutReqs
  <2>2. GoodNow(reqs'[s]) /\ IsSetpd(reqs[s])
    BY <1>1, <2>1, KnownGood DEF GoodNow, Good, Found, IdOK, GetOK, IsSetpd
  <2> QED
    BY <1>1, <2>1, <2>2, SameGrow, RowsSame, QuietStep
<1>3. CASE Getpd(s)
  <2>1. /\ One(s) /\ s \in DOMAIN reqs'
        /\ reqs'[s].op = "getpd" /\ reqs'[s].found = FALSE /\ reqs'[s].acked = ended
    BY <1>3, GetpdReqs
  <2>2. GoodNow(reqs'[s]) /\ ~IsSetpd(reqs'[s])
    BY <1>1, <2>1 DEF GoodNow, Good, Found, IdOK, GetOK, IsSetpd
  <2> QED
    BY <1>1, <2>1, <2>2, SameGrow, RowsSame, QuietStep
<1>4. CASE LookupFails(s)
  <2>1. /\ One(s) /\ s \in DOMAIN reqs /\ s \in DOMAIN reqs'
        /\ reqs[s].op = "getpd" /\ reqs'[s].op = "getpd"
        /\ reqs'[s].persona = reqs[s].persona /\ reqs'[s].acked = reqs[s].acked
        /\ reqs'[s].set = reqs[s].set /\ reqs'[s].found = reqs[s].found
    BY <1>4, FailsReqs
  <2>2. GoodNow(reqs'[s]) /\ ~IsSetpd(reqs'[s])
    BY <1>1, <2>1, KnownGood DEF GoodNow, Good, Found, IdOK, GetOK, Fresh, IsSetpd
  <2> QED
    BY <1>1, <2>1, <2>2, SameGrow, RowsSame, QuietStep
<1>5. CASE Getpdr(s) \/ Fault(s)
  BY <1>1, <1>5, EndReqs, SameGrow, RowsSame, QuietStep
<1> QED
  BY <1>2, <1>3, <1>4, <1>5

LEMMA SInvStep == ASSUME TInv, SInv, [Next]_vars PROVE SInv'
<1>1. CASE Tick \/ (\E p \in Persona : Credit(p) \/ InsertStats(p)) \/ UNCHANGED vars
  BY <1>1, OthersSInv
<1>2. ASSUME NEW s \in Slot, Step(s)
      PROVE  SInv'
  BY <1>2, PresenceSInv, SetpdSInv, CustomSInv, SetpdrSInv, ReadSInv, RestSInv DEF Step
<1> QED
  BY <1>1, <1>2 DEF Next

-----------------------------------------------------------------------------
(* The time played *)

PlayedIn(sess, n) ==
  LET upTo[i \in 0..Len(sess)] ==
        IF i = 0 THEN 0
        ELSE upTo[i - 1] + (IF sess[i].name = n THEN sess[i].secs ELSE 0)
  IN upTo[Len(sess)]

SyncingIn(R, n) == {s \in DOMAIN R : R[s].pc = "sync" /\ R[s].name = n}

TimeOf(p, sess, R, tab, tal) ==
  PlayedIn(sess, NameOf[p]) + tal[p].secs
    = SecsAt(tab, p) + tal[p].missed + Cardinality(SyncingIn(R, NameOf[p]))

TimeInv == \A p \in Persona : TimeOf(p, sessions, reqs, rows, tally)

LEMMA PlayedIsSum ==
  ASSUME NEW sess, NEW n, Len(sess) \in Nat, \A i \in 1..Len(sess) : sess[i].secs \in Nat
  PROVE  \E f : Sums(f, SecsOf(sess, n), Len(sess)) /\ PlayedIn(sess, n) = f[Len(sess)]
<1> DEFINE g == SecsOf(sess, n)
           N == Len(sess)
           Rec(f) == f = [i \in 0..N |-> IF i = 0 THEN 0
                                         ELSE f[i - 1] + (IF sess[i].name = n THEN sess[i].secs ELSE 0)]
           up == CHOOSE f : Rec(f)
<1>1. \A i \in 1..N : g[i] \in Nat
  BY DEF SecsOf
<1>2. PICK f : Sums(f, g, N)
  BY <1>1, SumsExist
<1>3. ASSUME NEW F
      PROVE  Sums(F, g, N) <=> Rec(F)
  <2>1. \A i \in 0..N : (IF i = 0 THEN 0 ELSE F[i - 1] + g[i])
                         = IF i = 0 THEN 0
                           ELSE F[i - 1] + (IF sess[i].name = n THEN sess[i].secs ELSE 0)
    BY DEF SecsOf
  <2> HIDE DEF g
  <2> QED
    BY <2>1, Zenon DEF Sums
<1>4. Rec(up)
  BY <1>2, <1>3
<1>5. Sums(up, g, N)
  BY <1>3, <1>4
<1>6. PlayedIn(sess, n) = up[N]
  BY DEF PlayedIn
<1> QED
  BY <1>5, <1>6
\* What a recording adds to the time that sessions hold.
LEMMA SecsAreNat ==
  ASSUME NEW sess, sess \in Seq(Sess)
  PROVE  /\ Len(sess) \in Nat /\ DOMAIN sess = 1..Len(sess)
         /\ \A i \in 1..Len(sess) : sess[i].secs \in Nat
<1>1. \A i \in 1..Len(sess) : sess[i] \in Sess
  BY ElementOfSeq
<1> QED
  BY <1>1, LenProperties DEF Sess

LEMMA RecordedTime ==
  ASSUME NEW sess, NEW sess2, sess \in Seq(Sess), sess2 \in Seq(Sess), NEW n, NEW n0, NEW row,
         Longer(sess, sess2, n0) \/ Raised(sess, sess2, n0, row)
  PROVE  /\ PlayedIn(sess, n) \in Nat
         /\ PlayedIn(sess2, n) = PlayedIn(sess, n) + (IF n = n0 THEN 1 ELSE 0)
<1> DEFINE N == Len(sess)
           M == Len(sess2)
           g == SecsOf(sess, n)
           h == SecsOf(sess2, n)
           d == IF n = n0 THEN 1 ELSE 0
<1>1. /\ N \in Nat /\ M \in Nat /\ DOMAIN sess = 1..N
      /\ \A i \in 1..N : sess[i].secs \in Nat
      /\ \A i \in 1..M : sess2[i].secs \in Nat
  BY SecsAreNat
<1>2. d \in Nat
  OBVIOUS
<1>3. PICK f : Sums(f, g, N) /\ PlayedIn(sess, n) = f[N]
  BY <1>1, PlayedIsSum
<1>4. PICK e : Sums(e, h, M) /\ PlayedIn(sess2, n) = e[M]
  BY <1>1, PlayedIsSum
<1>5. /\ \A i \in 1..N : g[i] = IF sess[i].name = n THEN sess[i].secs ELSE 0
      /\ \A i \in 1..M : h[i] = IF sess2[i].name = n THEN sess2[i].secs ELSE 0
  BY DEF SecsOf
<1>6. CASE Longer(sess, sess2, n0)
  <2>1. /\ M = N + 1 /\ \A i \in 1..N : sess2[i] = sess[i]
        /\ sess2[N + 1].name = n0 /\ sess2[N + 1].secs = 1
    BY <1>1, <1>6 DEF Longer
  <2> HIDE DEF g, h, N, M
  <2>2. GrowAt(g, h, N, 0, 0)
    <3>1. ASSUME NEW i \in 1..N
          PROVE  g[i] \in Nat /\ h[i] = g[i] + (IF i = 0 THEN 0 ELSE 0)
      <4>1. i \in 1..M /\ i # 0 /\ sess2[i] = sess[i] /\ sess[i].secs \in Nat
        BY <1>1, <2>1
      <4>2. g[i] = IF sess[i].name = n THEN sess[i].secs ELSE 0
        BY <1>5
      <4>3. h[i] = IF sess2[i].name = n THEN sess2[i].secs ELSE 0
        BY <1>5, <4>1
      <4> QED
        BY <4>1, <4>2, <4>3
    <3> QED
      BY <3>1 DEF GrowAt
  <2>3. h[N + 1] = d
    BY <1>1, <1>5, <2>1
  <2> HIDE DEF d
  <2>4. f[N] \in Nat /\ e[N + 1] = f[N] + d
    <3>1. Sums(e, h, N + 1)
      BY <1>4, <2>1
    <3>2. N \in Nat /\ d \in Nat /\ Sums(f, g, N)
      BY <1>1, <1>2, <1>3
    <3> QED
      BY ONLY <2>2, <2>3, <3>1, <3>2, SumsAppend
  <2> QED
    BY <1>3, <1>4, <2>1, <2>4 DEF d
<1>7. CASE Raised(sess, sess2, n0, row)
  <2>1. /\ M = N /\ row \in 1..N /\ sess[row].name = n0
        /\ \A i \in 1..N : /\ sess2[i].name = sess[i].name
                            /\ sess2[i].secs = sess[i].secs + (IF i = row THEN 1 ELSE 0)
    BY <1>1, <1>7 DEF Raised
  <2> HIDE DEF g, h, N, M
  <2>2. GrowAt(g, h, N, row, d)
    <3> SUFFICES ASSUME NEW i \in 1..N
                 PROVE  g[i] \in Nat /\ h[i] = g[i] + (IF i = row THEN d ELSE 0)
      BY DEF GrowAt
    <3>1. g[i] = IF sess[i].name = n THEN sess[i].secs ELSE 0
      BY <1>5
    <3>2. h[i] = IF sess2[i].name = n THEN sess2[i].secs ELSE 0
      BY <1>5, <2>1
    <3>3. sess[i].secs \in Nat
      BY <1>1
    <3>4. CASE i = row
      BY <2>1, <3>1, <3>2, <3>3, <3>4
    <3>5. CASE i # row
      BY <2>1, <3>1, <3>2, <3>3, <3>5
    <3> QED
      BY <3>4, <3>5
  <2> HIDE DEF d
  <2>3. f[N] \in Nat /\ e[N] = f[N] + d
    <3>1. Sums(e, h, N) /\ Sums(f, g, N)
      BY <1>3, <1>4, <2>1
    <3>2. GrowIn(f, g, e, h, N, row, d)
      BY <1>1, <1>2, <2>1, <2>2, <3>1 DEF GrowIn
    <3> QED
      BY <3>2, SumsGrow
  <2> QED
    BY <1>3, <1>4, <2>1, <2>3 DEF d
<1> QED
  BY <1>6, <1>7

LEMMA PlayedNat ==
  ASSUME NEW sess, sess \in Seq(Sess), NEW n
  PROVE  PlayedIn(sess, n) \in Nat
<1> DEFINE N == Len(sess)
           g == SecsOf(sess, n)
<1>1. N \in Nat /\ \A i \in 1..N : sess[i].secs \in Nat
  BY SecsAreNat
<1>2. PICK f : Sums(f, g, N) /\ PlayedIn(sess, n) = f[N]
  BY <1>1, PlayedIsSum
<1>3. GrowAt(g, g, N, 0, 0)
  BY <1>1 DEF SecsOf, GrowAt
<1> HIDE DEF g, N
<1>4. N <= N /\ 0 \in Nat
  BY <1>1
<1>5. GrowFrom(f, f, N, 0, 0)
  BY <1>1, <1>2, <1>3, <1>4, SumsChange
<1> QED
  BY <1>1, <1>2, <1>5 DEF GrowFrom

\* Requests whose second write is still to come.
LEMMA SyncingFinite ==
  ASSUME NEW R, IsMap(R, Slot, Req), NEW n
  PROVE  IsFiniteSet(SyncingIn(R, n)) /\ Cardinality(SyncingIn(R, n)) \in Nat
<1>1. IsFiniteSet(Slot)
  BY CareerAssumption, FS_Interval DEF Slot
<1>2. SyncingIn(R, n) \subseteq Slot
  BY DEF SyncingIn, IsMap
<1>3. IsFiniteSet(SyncingIn(R, n))
  BY <1>1, <1>2, FS_Subset
<1> QED
  BY <1>3, FS_CardinalityType

LEMMA SyncingSame ==
  ASSUME NEW R, NEW S, NEW s, NEW n, Rest(R, S, s), Rest(S, R, s),
         s \in DOMAIN R => R[s].pc # "sync", s \in DOMAIN S => S[s].pc # "sync"
  PROVE  SyncingIn(S, n) = SyncingIn(R, n)
<1>1. \A t : t \in SyncingIn(S, n) <=> t \in SyncingIn(R, n)
  BY DEF Rest, SyncingIn
<1> QED
  BY <1>1

LEMMA SyncingAdds ==
  ASSUME NEW R, NEW S, NEW s, NEW n, Rest(R, S, s), Rest(S, R, s), IsMap(R, Slot, Req),
         s \in DOMAIN R => R[s].pc # "sync", s \in DOMAIN S, S[s].pc = "sync"
  PROVE  Cardinality(SyncingIn(S, n)) = Cardinality(SyncingIn(R, n)) + (IF S[s].name = n THEN 1 ELSE 0)
<1>1. IsFiniteSet(SyncingIn(R, n)) /\ Cardinality(SyncingIn(R, n)) \in Nat
  BY SyncingFinite
<1>2. \A t : t \in SyncingIn(S, n) <=> t \in SyncingIn(R, n) \/ (t = s /\ S[s].name = n)
  BY DEF Rest, SyncingIn
<1>3. CASE S[s].name = n
  <2>1. SyncingIn(S, n) = SyncingIn(R, n) \cup {s}
    BY <1>2, <1>3
  <2>2. s \notin SyncingIn(R, n)
    BY DEF SyncingIn
  <2> QED
    BY <1>1, <1>3, <2>1, <2>2, FS_AddElement
<1>4. CASE S[s].name # n
  <2>1. SyncingIn(S, n) = SyncingIn(R, n)
    BY <1>2, <1>4
  <2> QED
    BY <1>1, <1>4, <2>1
<1> QED
  BY <1>3, <1>4

\* One more with the same players: the time that the tables agree on.
LEMMA TimeMoves ==
  ASSUME TInv, TInv', TimeInv, NEW p \in Persona, NEW a \in Nat, NEW b \in Nat, NEW c \in Int,
         PlayedIn(sessions', NameOf[p]) = PlayedIn(sessions, NameOf[p]) + a,
         tally'[p].secs + tally[p].missed + SecsAt(rows, p)
           = tally[p].secs + tally'[p].missed + SecsAt(rows', p) + b,
         Cardinality(SyncingIn(reqs', NameOf[p])) = Cardinality(SyncingIn(reqs, NameOf[p])) + c,
         a + b = c
  PROVE  TimeOf(p, sessions', reqs', rows', tally')
<1>1. TimeOf(p, sessions, reqs, rows, tally)
  BY DEF TimeInv
<1>2. /\ PlayedIn(sessions, NameOf[p]) \in Nat /\ PlayedIn(sessions', NameOf[p]) \in Nat
  BY PlayedNat DEF TInv, Sessions
<1>3. /\ Cardinality(SyncingIn(reqs, NameOf[p])) \in Nat
      /\ Cardinality(SyncingIn(reqs', NameOf[p])) \in Nat
  BY SyncingFinite DEF TInv, Reqs
<1>4. SecsAt(rows, p) \in Int /\ SecsAt(rows', p) \in Int
  BY DEF TInv, Rows, IsMap, Row, SecsAt
<1>5. /\ tally[p].secs \in Int /\ tally[p].missed \in Nat
      /\ tally'[p].secs \in Int /\ tally'[p].missed \in Nat
  BY DEF TInv, Tally, Count
<1> DEFINE P == PlayedIn(sessions, NameOf[p])
           P2 == PlayedIn(sessions', NameOf[p])
           C == Cardinality(SyncingIn(reqs, NameOf[p]))
           C2 == Cardinality(SyncingIn(reqs', NameOf[p]))
           S == SecsAt(rows, p)
           S2 == SecsAt(rows', p)
           r == tally[p].secs
           r2 == tally'[p].secs
           m == tally[p].missed
           m2 == tally'[p].missed
<1>6. P + r = S + m + C
  BY <1>1 DEF TimeOf
<1>7. P2 = P + a /\ r2 + m + S = r + m2 + S2 + b /\ C2 = C + c
  OBVIOUS
<1>8. SUFFICES P2 + r2 = S2 + m2 + C2
  BY DEF TimeOf
<1>9. /\ P \in Int /\ P2 \in Int /\ C \in Int /\ C2 \in Int /\ S \in Int /\ S2 \in Int
      /\ r \in Int /\ r2 \in Int /\ m \in Int /\ m2 \in Int
  BY <1>2, <1>3, <1>4, <1>5
<1> HIDE DEF P, P2, C, C2, S, S2, r, r2, m, m2
<1> QED
  BY <1>6, <1>7, <1>9

\* Steps of requests that are not between their two writes.
LEMMA QuietTime ==
  ASSUME TInv, TInv', TimeInv, NEW s, One(s), UNCHANGED <<sessions, tally>>, SecsStay,
         s \in DOMAIN reqs => reqs[s].pc # "sync", s \in DOMAIN reqs' => reqs'[s].pc # "sync"
  PROVE  TimeInv'
<1>1. ASSUME NEW p \in Persona
      PROVE  TimeOf(p, sessions', reqs', rows', tally')
  <2>1. SyncingIn(reqs', NameOf[p]) = SyncingIn(reqs, NameOf[p])
    BY SyncingSame DEF One
  <2>2. TimeOf(p, sessions, reqs, rows, tally) /\ SecsAt(rows', p) = SecsAt(rows, p)
    BY DEF TimeInv, SecsStay
  <2> QED
    BY <2>1, <2>2 DEF TimeOf
<1> QED
  BY <1>1 DEF TimeInv

\* What a match credits, the tally has too.
LEMMA CreditTime ==
  ASSUME TInv, TInv', TimeInv, NEW x \in Persona, Credit(x)
  PROVE  TimeInv'
<1>1. UNCHANGED <<sessions, reqs>>
  BY DEF Credit
<1> PICK u \in Int, t \in Int : CreditBy(x, u, t)
  BY CreditPick
<1>2. ASSUME NEW p \in Persona
      PROVE  TimeOf(p, sessions', reqs', rows', tally')
  <2> DEFINE d == IF p = x THEN t ELSE 0
  <2>1. SecsAt(rows', p) = SecsAt(rows, p) + d
    BY CreditRows
  <2>2. tally'[p].secs = tally[p].secs + d /\ tally'[p].missed = tally[p].missed
    BY CreditTally
  <2>3. d \in Int
    OBVIOUS
  <2> HIDE DEF d
  <2>4. /\ tally[p].secs \in Int /\ tally[p].missed \in Nat
    BY DEF TInv, Tally, Count
  <2>5. SecsAt(rows, p) \in Int
    BY DEF TInv, Rows, IsMap, Row, SecsAt
  <2>6. /\ PlayedIn(sessions', NameOf[p]) = PlayedIn(sessions, NameOf[p])
        /\ PlayedIn(sessions, NameOf[p]) \in Nat
    BY <1>1, PlayedNat DEF TInv, Sessions
  <2>7. /\ Cardinality(SyncingIn(reqs', NameOf[p])) = Cardinality(SyncingIn(reqs, NameOf[p]))
        /\ Cardinality(SyncingIn(reqs, NameOf[p])) \in Nat
    BY <1>1, SyncingFinite DEF TInv, Reqs
  <2>8. TimeOf(p, sessions, reqs, rows, tally)
    BY DEF TimeInv
  <2> QED
    BY <2>1, <2>2, <2>3, <2>4, <2>5, <2>6, <2>7, <2>8 DEF TimeOf
<1> QED
  BY <1>2 DEF TimeInv

\* A recording that wrote its session has still to write the rows.
LEMMA WriteTime ==
  ASSUME TInv, TInv', TimeInv, RowsFound, NEW s \in Slot, WriteSession(s)
  PROVE  TimeInv'
<1> DEFINE q == reqs[s]
<1>1. /\ One(s) /\ s \in DOMAIN reqs /\ s \in DOMAIN reqs' /\ q.pc = "write"
      /\ reqs'[s].pc = "sync" /\ reqs'[s].name = q.name
  BY GotoSync
<1>2. Recorded(q.name, q.row) /\ UNCHANGED <<rows, tally>>
  BY WriteSessionRecords DEF WriteSession
<1>3. ASSUME NEW p \in Persona
      PROVE  TimeOf(p, sessions', reqs', rows', tally')
  <2> DEFINE n == NameOf[p]
             d == IF n = q.name THEN 1 ELSE 0
  <2>1. PlayedIn(sessions, n) \in Nat /\ PlayedIn(sessions', n) = PlayedIn(sessions, n) + d
    BY <1>2, RecordedTime DEF Recorded, TInv, Sessions
  <2>2. Cardinality(SyncingIn(reqs', n)) = Cardinality(SyncingIn(reqs, n)) + d
    <3>1. Rest(reqs, reqs', s) /\ Rest(reqs', reqs, s) /\ IsMap(reqs, Slot, Req)
      BY <1>1 DEF One, TInv, Reqs
    <3>2. Cardinality(SyncingIn(reqs', n))
            = Cardinality(SyncingIn(reqs, n)) + (IF reqs'[s].name = n THEN 1 ELSE 0)
      BY <1>1, <3>1, SyncingAdds
    <3> QED
      BY <1>1, <3>2
  <2>3. d \in Nat
    OBVIOUS
  <2> HIDE DEF d, n
  <2>4. /\ tally[p].secs \in Int /\ tally[p].missed \in Nat
    BY DEF TInv, Tally, Count
  <2>5. SecsAt(rows, p) \in Int
    BY DEF TInv, Rows, IsMap, Row, SecsAt
  <2>6. Cardinality(SyncingIn(reqs, n)) \in Nat
    BY SyncingFinite DEF TInv, Reqs
  <2>7. PlayedIn(sessions, n) + tally[p].secs
          = SecsAt(rows, p) + tally[p].missed + Cardinality(SyncingIn(reqs, n))
    BY DEF TimeInv, TimeOf, n
  <2>8. PlayedIn(sessions', n) + tally'[p].secs
          = SecsAt(rows', p) + tally'[p].missed + Cardinality(SyncingIn(reqs', n))
    <3>1. tally'[p].secs = tally[p].secs /\ tally'[p].missed = tally[p].missed
          /\ SecsAt(rows', p) = SecsAt(rows, p)
      BY <1>2
    <3> DEFINE a == PlayedIn(sessions, n)
               b == tally[p].secs
               c == SecsAt(rows, p)
               m == tally[p].missed
               k == Cardinality(SyncingIn(reqs, n))
    <3>2. a \in Int /\ b \in Int /\ c \in Int /\ m \in Int /\ k \in Int /\ d \in Int
      BY <2>1, <2>3, <2>4, <2>5, <2>6
    <3>3. a + b = c + m + k
      BY <2>7
    <3>4. PlayedIn(sessions', n) = a + d /\ Cardinality(SyncingIn(reqs', n)) = k + d
      BY <2>1, <2>2
    <3> HIDE DEF a, b, c, m, k
    <3>5. (a + d) + b = c + m + (k + d)
      BY <3>2, <3>3
    <3> QED
      BY <3>1, <3>4, <3>5 DEF b, c, m
  <2> QED
    BY <2>8 DEF TimeOf, n
<1> QED
  BY <1>3 DEF TimeInv

\* The second write gives the second to every row of the name, or misses it.
LEMMA SyncTime ==
  ASSUME TInv, TInv', TimeInv, NEW s \in Slot, Sync(s) \/ SyncFails(s)
  PROVE  TimeInv'
<1> DEFINE q == reqs[s]
<1>1. One(s) /\ s \in DOMAIN reqs /\ s \notin DOMAIN reqs' /\ q.pc = "sync"
  BY SyncReqs
<1>2. sessions' = sessions
  BY DEF Sync, SyncFails
<1>3. ASSUME NEW p \in Persona
      PROVE  TimeOf(p, sessions', reqs', rows', tally')
  <2> DEFINE n == NameOf[p]
             d == IF q.name = n THEN 1 ELSE 0
  <2>1. Cardinality(SyncingIn(reqs, n)) = Cardinality(SyncingIn(reqs', n)) + d
    <3>1. Rest(reqs, reqs', s) /\ Rest(reqs', reqs, s) /\ IsMap(reqs', Slot, Req)
      BY <1>1 DEF One
    <3> QED
      BY <1>1, <3>1, SyncingAdds
  <2>2. /\ tally'[p].secs = tally[p].secs
        /\ SecsAt(rows', p) + tally'[p].missed = SecsAt(rows, p) + tally[p].missed + d
    <3>1. CASE Sync(s)
      <4>1. tally' = MissedBut(q, DOMAIN rows)
        BY <3>1 DEF Sync
      <4>2. /\ tally'[p].secs = tally[p].secs
            /\ tally'[p].missed = tally[p].missed + (IF n = q.name /\ p \notin DOMAIN rows THEN 1 ELSE 0)
        BY <4>1, MissedTally
      <4>3. /\ DOMAIN rows' = DOMAIN rows
            /\ p \in DOMAIN rows => rows'[p].secs = rows[p].secs + (IF n = q.name THEN 1 ELSE 0)
        BY <3>1, SyncRows
      <4>4. tally[p].missed \in Nat /\ (p \in DOMAIN rows => rows[p].secs \in Int)
        BY DEF TInv, Tally, Count, Rows, IsMap, Row
      <4> QED
        BY <4>2, <4>3, <4>4 DEF SecsAt
    <3>2. CASE SyncFails(s)
      <4>1. tally' = MissedBut(q, {}) /\ rows' = rows
        BY <3>2 DEF SyncFails
      <4>2. /\ tally'[p].secs = tally[p].secs
            /\ tally'[p].missed = tally[p].missed + (IF n = q.name THEN 1 ELSE 0)
        BY <4>1, MissedTally
      <4>3. tally[p].missed \in Nat /\ SecsAt(rows, p) \in Int
        BY DEF TInv, Tally, Count, Rows, IsMap, Row, SecsAt
      <4> QED
        BY <4>1, <4>2, <4>3
    <3> QED
      BY <3>1, <3>2
  <2>3. d \in Nat
    OBVIOUS
  <2> HIDE DEF d, n
  <2>4. /\ tally[p].secs \in Int /\ tally[p].missed \in Nat /\ tally'[p].missed \in Nat
    BY DEF TInv, Tally, Count
  <2>5. SecsAt(rows, p) \in Int /\ SecsAt(rows', p) \in Int
    BY DEF TInv, Rows, IsMap, Row, SecsAt
  <2>6. /\ Cardinality(SyncingIn(reqs, n)) \in Nat
        /\ Cardinality(SyncingIn(reqs', n)) \in Nat
    BY SyncingFinite DEF TInv, Reqs
  <2>7. PlayedIn(sessions, n) \in Nat
    BY PlayedNat DEF TInv, Sessions
  <2>8. PlayedIn(sessions, n) + tally[p].secs
          = SecsAt(rows, p) + tally[p].missed + Cardinality(SyncingIn(reqs, n))
    BY DEF TimeInv, TimeOf, n
  <2>9. PlayedIn(sessions, n) + tally'[p].secs
          = SecsAt(rows', p) + tally'[p].missed + Cardinality(SyncingIn(reqs', n))
    BY <2>1, <2>2, <2>3, <2>4, <2>5, <2>6, <2>7, <2>8
  <2> QED
    BY <1>2, <2>9 DEF TimeOf, n
<1> QED
  BY <1>3 DEF TimeInv

LEMMA TimeInvStep == ASSUME TInv, TInv', TimeInv, RowsFound, [Next]_vars PROVE TimeInv'
<1>1. CASE Tick \/ (\E p \in Persona : InsertStats(p)) \/ UNCHANGED vars
  <2>1. UNCHANGED <<sessions, tally, reqs>>
    BY <1>1 DEF Tick, InsertStats, vars
  <2>2. SecsStay
    BY <1>1, InsertStatsRows, RowsSame DEF Tick, vars
  <2>3. One(0) /\ 0 \notin DOMAIN reqs /\ 0 \notin DOMAIN reqs'
    BY <2>1, CareerAssumption DEF One, TInv, Reqs, IsMap, Rest, Slot
  <2> QED
    BY <2>1, <2>2, <2>3, QuietTime
<1>2. ASSUME NEW p \in Persona, Credit(p)
      PROVE  TimeInv'
  BY <1>2, CreditTime
<1>3. ASSUME NEW s \in Slot, WriteSession(s) \/ Sync(s) \/ SyncFails(s)
      PROVE  TimeInv'
  BY <1>3, WriteTime, SyncTime
<1>4. ASSUME NEW s \in Slot, \/ Presence(s) \/ FindSession(s) \/ Setpd(s) \/ Setpdr(s)
                             \/ CallTimesOut(s) \/ Getpd(s) \/ ReadCareer(s) \/ LookupFails(s)
                             \/ Getpdr(s) \/ Fault(s)
      PROVE  TimeInv'
  <2>1. UNCHANGED <<sessions, rows, tally>>
    BY <1>4 DEF Presence, FindSession, Setpd, Setpdr, CallTimesOut, Getpd, ReadCareer, LookupFails,
       Getpdr, Fault
  <2>2. /\ One(s)
        /\ s \in DOMAIN reqs => reqs[s].pc # "sync"
        /\ s \in DOMAIN reqs' => reqs'[s].pc # "sync"
    <3>1. CASE Presence(s) \/ FindSession(s)
      BY <3>1, PresenceReqs, FindReqs
    <3>2. CASE Setpd(s) \/ Getpd(s)
      BY <3>2, SetpdReqs, GetpdReqs
    <3>3. CASE ReadCareer(s) \/ LookupFails(s)
      BY <3>3, ReadReqs, FailsReqs
    <3>4. CASE CallTimesOut(s)
      <4>1. One(s) /\ reqs[s] \in SetpdReq /\ reqs'[s].pc = reqs[s].pc
        BY <3>4, TimesOutReqs
      <4> QED
        BY <4>1 DEF SetpdReq
    <3>5. CASE Setpdr(s) \/ Getpdr(s) \/ Fault(s)
      <4>1. One(s) /\ s \notin DOMAIN reqs'
        BY <3>5, EndReqs
      <4>2. reqs[s].pc # "sync"
        BY <3>5 DEF Setpdr, Getpdr, Fault, At
      <4> QED
        BY <4>1, <4>2
    <3> QED
      BY <1>4, <3>1, <3>2, <3>3, <3>4, <3>5
  <2> QED
    BY <2>1, <2>2, RowsSame, QuietTime
<1>5. ASSUME NEW s \in Slot, WriteCustom(s) \/ InsertCustom(s)
      PROVE  TimeInv'
  <2>1. /\ SecsStay /\ s \in DOMAIN reqs /\ reqs[s].pc # "sync"
        /\ End(s) \/ Goto(s, "insert") \/ Goto(s, "stored")
    BY <1>5, WriteCustomRows, InsertCustomRows
  <2>2. UNCHANGED <<sessions, tally>> /\ reqs[s].op \in {"setpd", "late"}
    BY <1>5 DEF WriteCustom, InsertCustom, At
  <2>3. One(s) /\ (s \in DOMAIN reqs' => reqs'[s].pc # "sync")
    BY <2>1, <2>2, SetpdGoes, Ends
  <2> QED
    BY <2>1, <2>2, <2>3, QuietTime
<1> QED
  BY <1>1, <1>2, <1>3, <1>4, <1>5 DEF Next, Step

-----------------------------------------------------------------------------
(* The invariants, and what follows from them *)

LEMMA SInvFinds == ASSUME SInv PROVE RowsFound /\ Numbered
BY DEF SInv, AllGood, Good, IdOK, IsSetpd, RowsFound, Numbered

LEMMA InitInv == ASSUME Init PROVE TInv /\ SInv /\ TimeInv
<1>1. /\ now = 0 /\ sessions = <<>> /\ rows = [p \in Persona \ creating |-> NewRow]
      /\ reqs = EmptyMap /\ writes = <<>> /\ ended = {}
      /\ tally = [p \in Persona |-> [score |-> 0, secs |-> 0, missed |-> 0]]
  BY DEF Init
<1>2. DOMAIN reqs = {}
  BY <1>1 DEF EmptyMap
<1>3. NewRow \in Row /\ NewRow.secs = 0
  BY DEF NewRow, Row
<1>4. Reqs
  BY <1>1, EmptyMapType DEF Reqs
<1>5. Rows
  BY <1>1, <1>3 DEF Rows, IsMap
<1>6. Sessions /\ Writes
  BY <1>1 DEF Sessions, Writes
<1>7. Tally
  BY <1>1 DEF Tally, Count
<1>8. TInv
  BY <1>1, <1>4, <1>5, <1>6, <1>7 DEF TInv
<1>9. SInv
  BY <1>1, <1>2 DEF SInv, AllGood, Distinct, After, Shown
<1>10. ASSUME NEW p \in Persona
       PROVE  TimeOf(p, sessions, reqs, rows, tally)
  <2>1. SyncingIn(reqs, NameOf[p]) = {}
    BY <1>2 DEF SyncingIn
  <2>2. Cardinality(SyncingIn(reqs, NameOf[p])) = 0
    BY <2>1, FS_EmptySet
  <2>3. SecsAt(rows, p) = 0
    BY <1>1, <1>3 DEF SecsAt
  <2>4. tally[p].secs = 0 /\ tally[p].missed = 0
    BY <1>1
  <2>5. Len(sessions) = 0
    BY <1>1
  <2>6. PICK f : Sums(f, SecsOf(sessions, NameOf[p]), Len(sessions))
                 /\ PlayedIn(sessions, NameOf[p]) = f[Len(sessions)]
    BY <2>5, PlayedIsSum
  <2>7. PlayedIn(sessions, NameOf[p]) = 0
    BY <2>5, <2>6, SumsStep
  <2> QED
    BY <2>2, <2>3, <2>4, <2>7 DEF TimeOf
<1>11. TimeInv
  BY <1>10 DEF TimeInv
<1> QED
  BY <1>8, <1>9, <1>11

LEMMA Invariants == Spec => [](TInv /\ SInv /\ TimeInv)
<1>1. Init => TInv /\ SInv /\ TimeInv
  BY InitInv
<1>2. TInv /\ SInv /\ TimeInv /\ [Next]_vars => (TInv /\ SInv /\ TimeInv)'
  <2> SUFFICES ASSUME TInv, SInv, TimeInv, [Next]_vars
               PROVE  TInv' /\ SInv' /\ TimeInv'
    OBVIOUS
  <2>1. TInv'
    BY SInvFinds, TInvStep
  <2>2. SInv'
    BY SInvStep
  <2>3. TimeInv'
    BY <2>1, SInvFinds, TimeInvStep
  <2> QED
    BY <2>1, <2>2, <2>3
<1> QED
  BY <1>1, <1>2, PTL DEF Spec

\* What a row has besides what matches credited.
Besides(R, T, p) == <<ScoreAt(R, p) - T[p].score, SecsAt(R, p) - T[p].secs>>
NoneLost(p) ==
  /\ Besides(rows', tally', p)[1] >= Besides(rows, tally, p)[1]
  /\ Besides(rows', tally', p)[2] >= Besides(rows, tally, p)[2]

LEMMA NothingLost ==
  ASSUME TInv, TInv', [Next]_vars
  PROVE  RowsKept /\ \A p \in Persona : NoneLost(p)
<1>1. \A p \in Persona : /\ ScoreAt(rows, p) \in Int /\ SecsAt(rows, p) \in Int
                         /\ tally[p].score \in Int /\ tally[p].secs \in Int
                         /\ ScoreAt(rows', p) \in Int /\ SecsAt(rows', p) \in Int
                         /\ tally'[p].score \in Int /\ tally'[p].secs \in Int
  <2>1. ASSUME NEW p \in Persona
        PROVE  /\ ScoreAt(rows', p) \in Int /\ SecsAt(rows', p) \in Int
               /\ tally'[p].score \in Int /\ tally'[p].secs \in Int
    BY DEF TInv, Rows, IsMap, Row, ScoreAt, SecsAt, Tally, Count
  <2> QED
    BY <2>1, Numbers
<1>2. ASSUME RowsKept, ScoresRise, SecsStay,
             \A p \in Persona : tally'[p].score = tally[p].score /\ tally'[p].secs = tally[p].secs
      PROVE  RowsKept /\ \A p \in Persona : NoneLost(p)
  <2>1. ASSUME NEW p \in Persona
        PROVE  NoneLost(p)
    <3>1. ScoreAt(rows', p) >= ScoreAt(rows, p) /\ SecsAt(rows', p) = SecsAt(rows, p)
      BY <1>2 DEF ScoresRise, SecsStay
    <3> QED
      BY <1>1, <1>2, <3>1 DEF NoneLost, Besides
  <2> QED
    BY <1>2, <2>1
<1>3. ASSUME NEW s \in Slot, Sync(s)
      PROVE  RowsKept /\ \A p \in Persona : NoneLost(p)
  <2>1. /\ RowsKept /\ ScoresRise /\ DOMAIN rows' = DOMAIN rows
        /\ \A p \in DOMAIN rows :
             rows'[p].secs = rows[p].secs + (IF NameOf[p] = reqs[s].name THEN 1 ELSE 0)
    BY <1>3, SyncRows
  <2>2. tally' = MissedBut(reqs[s], DOMAIN rows)
    BY <1>3 DEF Sync
  <2>3. ASSUME NEW p \in Persona
        PROVE  NoneLost(p)
    <3>1. tally'[p].score = tally[p].score /\ tally'[p].secs = tally[p].secs
      BY <2>2, MissedTally
    <3>2. ScoreAt(rows', p) >= ScoreAt(rows, p)
      BY <2>1 DEF ScoresRise
    <3>3. SecsAt(rows', p) >= SecsAt(rows, p)
      BY <1>1, <2>1 DEF SecsAt
    <3> QED
      BY <1>1, <3>1, <3>2, <3>3 DEF NoneLost, Besides
  <2> QED
    BY <2>1, <2>3
<1>4. ASSUME NEW x \in Persona, Credit(x)
      PROVE  RowsKept /\ \A p \in Persona : NoneLost(p)
  <2>1. PICK u \in Int, t \in Int : CreditBy(x, u, t)
    BY <1>4, CreditPick
  <2>2. ASSUME NEW p \in Persona
        PROVE  NoneLost(p)
    <3>1. /\ SecsAt(rows', p) = SecsAt(rows, p) + (IF p = x THEN t ELSE 0)
          /\ ScoreAt(rows', p) = ScoreAt(rows, p) + (IF p = x THEN u ELSE 0)
      BY <2>1, CreditRows
    <3>2. /\ tally'[p].secs = tally[p].secs + (IF p = x THEN t ELSE 0)
          /\ tally'[p].score = tally[p].score + (IF p = x THEN u ELSE 0)
      BY <2>1, CreditTally
    <3> QED
      BY <1>1, <3>1, <3>2 DEF NoneLost, Besides
  <2> QED
    BY <2>1, <2>2, CreditRows
<1>5. ASSUME NEW p \in Persona, InsertStats(p)
      PROVE  RowsKept /\ ScoresRise /\ SecsStay /\ tally' = tally
  BY <1>5, InsertStatsRows DEF InsertStats
<1>6. ASSUME NEW s \in Slot, WriteCustom(s) \/ InsertCustom(s)
      PROVE  RowsKept /\ ScoresRise /\ SecsStay /\ tally' = tally
  BY <1>6, WriteCustomRows, InsertCustomRows DEF WriteCustom, InsertCustom
<1>7. ASSUME NEW s \in Slot, SyncFails(s)
      PROVE  /\ RowsKept /\ ScoresRise /\ SecsStay
             /\ \A p \in Persona : tally'[p].score = tally[p].score /\ tally'[p].secs = tally[p].secs
  <2>1. rows' = rows /\ tally' = MissedBut(reqs[s], {})
    BY <1>7 DEF SyncFails
  <2> QED
    BY <2>1, RowsSame, MissedTally
<1>8. ASSUME NEW s \in Slot, Step(s), ~Sync(s), ~SyncFails(s), ~WriteCustom(s), ~InsertCustom(s)
      PROVE  RowsKept /\ ScoresRise /\ SecsStay /\ tally' = tally
  <2>1. rows' = rows /\ tally' = tally
    BY <1>8 DEF Step, Presence, FindSession, WriteSession, Setpd, Setpdr,
       CallTimesOut, Getpd, ReadCareer, LookupFails, Getpdr, Fault
  <2> QED
    BY <2>1, RowsSame
<1>9. CASE Tick \/ UNCHANGED vars
  <2>1. rows' = rows /\ tally' = tally
    BY <1>9 DEF Tick, vars
  <2> QED
    BY <1>2, <2>1, RowsSame
<1> QED
  BY <1>2, <1>3, <1>4, <1>5, <1>6, <1>7, <1>8, <1>9 DEF Next

\* No update is lost: whatever presence recordings, credits and setpds run beside
\* each other, and whichever creates the row, the row of a persona never goes,
\* score and time never fall besides what a credit takes, and a credit is added whole.
THEOREM UpdatesStay == Spec => NoLostUpdate
<1>1. TInv /\ TInv' /\ [Next]_vars =>
        [/\ DOMAIN rows \subseteq DOMAIN rows'
         /\ \A p \in Persona :
              /\ (RowOf(p).score - tally[p].score)' >= RowOf(p).score - tally[p].score
              /\ (RowOf(p).secs - tally[p].secs)' >= RowOf(p).secs - tally[p].secs]_vars
  <2> SUFFICES ASSUME TInv, TInv', [Next]_vars
               PROVE  /\ DOMAIN rows \subseteq DOMAIN rows'
                      /\ \A p \in Persona :
                           /\ (RowOf(p).score - tally[p].score)' >= RowOf(p).score - tally[p].score
                           /\ (RowOf(p).secs - tally[p].secs)' >= RowOf(p).secs - tally[p].secs
    OBVIOUS
  <2>1. ASSUME NEW p \in Persona
        PROVE  /\ RowOf(p).score = ScoreAt(rows, p) /\ RowOf(p).secs = SecsAt(rows, p)
               /\ (RowOf(p).score)' = ScoreAt(rows', p) /\ (RowOf(p).secs)' = SecsAt(rows', p)
    BY DEF RowOf, NewRow, ScoreAt, SecsAt
  <2>2. ASSUME NEW p \in Persona
        PROVE  /\ (RowOf(p).score - tally[p].score)' >= RowOf(p).score - tally[p].score
               /\ (RowOf(p).secs - tally[p].secs)' >= RowOf(p).secs - tally[p].secs
    BY <2>1, NothingLost DEF NoneLost, Besides
  <2> QED
    BY <2>2, NothingLost DEF RowsKept
<1> QED
  BY <1>1, Invariants, PTL DEF Spec, NoLostUpdate

\* What a getpd finds is never older than a setpd for the persona that had been
\* stored and ended before the getpd began, although getpd and the two statements
\* of a setpd run in no transaction: it is read after those setpds had written, and
\* whoever overwrites them cannot have ended before them.  A getpd whose look-up
\* fails finds nothing and answers zeros; of that the theorem says nothing.
THEOREM CareersAreFresh == Spec => []NoStaleRead
<1>1. SInv => NoStaleRead
  BY DEF SInv, AllGood, Good, GetOK, Fresh, NoStaleRead
<1> QED
  BY <1>1, Invariants, PTL

\* The two tables of the time played agree for every persona: the sessions of its
\* name and its match credits make its row, up to the recordings between their
\* two writes and those whose second write reached no row.
THEOREM TimesPlayedAgree == Spec => []TimeAgrees
<1>1. ASSUME TimeInv
      PROVE  TimeAgrees
  <2>1. ASSUME NEW p \in Persona
        PROVE  Played(NameOf[p]) + tally[p].secs
                 = RowOf(p).secs + tally[p].missed + Cardinality(Syncing(NameOf[p]))
    <3>1. TimeOf(p, sessions, reqs, rows, tally)
      BY <1>1 DEF TimeInv
    <3>2. Played(NameOf[p]) = PlayedIn(sessions, NameOf[p])
      BY DEF Played, PlayedIn
    <3>3. Syncing(NameOf[p]) = SyncingIn(reqs, NameOf[p])
      BY DEF Syncing, SyncingIn
    <3> QED
      BY <3>1, <3>2, <3>3 DEF TimeOf, SecsAt, RowOf, NewRow
  <2> QED
    BY <2>1 DEF TimeAgrees
<1> QED
  BY <1>1, Invariants, PTL

-----------------------------------------------------------------------------
(* The type invariant *)

\* What a row is set to is the number of a setpd, or 0.
SetOK(x) == x = 0 \/ \E s \in DOMAIN reqs : IsSetpd(reqs[s]) /\ x = reqs[s].id

\* What the steps that write one row make of its custom statistics.
LEMMA SetsWritten ==
  ASSUME TInv, NEW s \in Slot, WriteCustom(s) \/ InsertCustom(s)
  PROVE  \A p \in DOMAIN rows' :
           SetOK(rows'[p].set) \/ (p \in DOMAIN rows /\ rows'[p].set = rows[p].set)
<1> DEFINE q == reqs[s]
           p == q.persona
<1>1. s \in DOMAIN reqs /\ IsSetpd(q) /\ q \in SetpdReq
  BY WriteCustomRows, InsertCustomRows DEF WriteCustom, InsertCustom, At, IsSetpd
<1>2. p \in Persona /\ q.id \in Nat
  BY <1>1 DEF SetpdReq
<1>3. SetOK(0) /\ SetOK(q.id)
  BY <1>1 DEF SetOK
<1>4. IsMap(rows, Persona, Row)
  BY DEF TInv, Rows
<1>5. \A x \in DOMAIN rows : rows[x] \in Row
  BY <1>4 DEF IsMap
<1>6. CASE DOMAIN rows' \subseteq DOMAIN rows
  BY <1>3, <1>6, WriteCustomRows, InsertCustomRows DEF SetsBut, SetsStay
<1>7. ASSUME NEW row, row \in Row, row.set = 0, rows' = Put(rows, p, row)
      PROVE  \A x \in DOMAIN rows' : (x = p /\ rows'[x].set = 0) \/ (x \in DOMAIN rows /\ rows'[x] = rows[x])
  BY <1>7 DEF Put
<1>8. ASSUME NEW row, row \in Row, row.set = q.id, rows' = Put(rows, p, row)
      PROVE  \A x \in DOMAIN rows' : (x = p /\ rows'[x].set = q.id) \/ (x \in DOMAIN rows /\ rows'[x] = rows[x])
  BY <1>8 DEF Put
<1>9. CASE ~(DOMAIN rows' \subseteq DOMAIN rows)
  <2>1. p \notin DOMAIN rows
    BY <1>9 DEF WriteCustom, InsertCustom, Put
  <2>2. CASE WriteCustom(s)
    <3> DEFINE new == [NewRow EXCEPT !.plus = @ + 1]
    <3>1. rows' = Put(rows, p, new)
      BY <1>9, <2>1, <2>2 DEF WriteCustom, RowOf
    <3>2. new \in Row /\ new.set = 0
      BY DEF NewRow, Row
    <3> HIDE DEF new
    <3>3. \A x \in DOMAIN rows' : (x = p /\ rows'[x].set = 0) \/ (x \in DOMAIN rows /\ rows'[x] = rows[x])
      BY <1>7, <3>1, <3>2
    <3> QED
      BY <1>3, <3>3
  <2>3. CASE InsertCustom(s)
    <3> DEFINE new == [NewRow EXCEPT !.set = q.id]
    <3>1. rows' = Put(rows, p, new)
      BY <2>1, <2>3 DEF InsertCustom
    <3>2. new \in Row /\ new.set = q.id
      BY <1>2 DEF NewRow, Row
    <3> HIDE DEF new
    <3>3. \A x \in DOMAIN rows' : (x = p /\ rows'[x].set = q.id) \/ (x \in DOMAIN rows /\ rows'[x] = rows[x])
      BY <1>8, <3>1, <3>2
    <3> QED
      BY <1>3, <3>3
  <2> QED
    BY <2>2, <2>3
<1> QED
  BY <1>6, <1>9

LEMMA SetsOthers ==
  ASSUME TInv, NEW p \in Persona, Credit(p) \/ InsertStats(p)
  PROVE  \A x \in DOMAIN rows' :
           rows'[x].set = 0 \/ (x \in DOMAIN rows /\ rows'[x].set = rows[x].set)
<1>1. CASE InsertStats(p)
  <2>1. NewRow.set = 0
    BY DEF NewRow
  <2>2. rows' = rows \/ rows' = Put(rows, p, NewRow)
    BY <1>1 DEF InsertStats
  <2> QED
    BY <2>1, <2>2 DEF Put
<1>2. CASE Credit(p)
  <2>1. PICK u \in Int, t \in Int : CreditBy(p, u, t)
    BY <1>2, CreditPick
  <2> DEFINE row == RowOf(p)
             new == Credited(row, u, t)
  <2>2. rows' = Put(rows, p, new)
    BY <2>1 DEF CreditBy
  <2>3. row \in Row /\ (row.set = 0 \/ (p \in DOMAIN rows /\ row = rows[p]))
    BY RowOfType
  <2> HIDE DEF row
  <2>4. new.set = 0 \/ (p \in DOMAIN rows /\ new.set = rows[p].set)
    BY <2>3, RowCredited
  <2> HIDE DEF new
  <2> QED
    BY <2>2, <2>4 DEF Put
<1> QED
  BY <1>1, <1>2

SetsBounded == \A p \in DOMAIN rows : rows[p].set \in 0..Len(writes)

LEMMA SetsBoundedStep ==
  ASSUME TInv, SInv, SetsBounded, [Next]_vars
  PROVE  SetsBounded'
<1>1. ASSUME NEW x, SetOK(x)
      PROVE  x \in 0..Len(writes)
  BY <1>1, SInvFinds, LenProperties DEF SetOK, Numbered, IsSetpd, TInv, Writes
<1>2. 0 \in 0..Len(writes)
  BY LenProperties DEF TInv, Writes
<1>3. \A p \in DOMAIN rows' : rows'[p].set \in 0..Len(writes)
  <2>1. ASSUME NEW s \in Slot, WriteCustom(s) \/ InsertCustom(s)
        PROVE  \A p \in DOMAIN rows' : rows'[p].set \in 0..Len(writes)
    BY <1>1, <2>1, SetsWritten DEF SetsBounded
  <2>2. ASSUME NEW p \in Persona, Credit(p) \/ InsertStats(p)
        PROVE  \A x \in DOMAIN rows' : rows'[x].set \in 0..Len(writes)
    BY <1>2, <2>2, SetsOthers DEF SetsBounded
  <2>3. ASSUME NEW s \in Slot, Sync(s)
        PROVE  \A p \in DOMAIN rows' : rows'[p].set \in 0..Len(writes)
    BY <2>3, SyncRows DEF SetsBounded, SetsStay
  <2>4. ASSUME NEW s \in Slot, Step(s), ~Sync(s), ~WriteCustom(s), ~InsertCustom(s)
        PROVE  rows' = rows
    BY <2>4 DEF Step, Presence, FindSession, WriteSession, SyncFails, Setpd, Setpdr,
       CallTimesOut, Getpd, ReadCareer, LookupFails, Getpdr, Fault
  <2>5. CASE Tick \/ UNCHANGED vars
    BY <2>5 DEF Tick, vars, SetsBounded
  <2> QED
    BY <2>1, <2>2, <2>3, <2>4, <2>5 DEF Next, SetsBounded
<1>4. Len(writes') \in Nat /\ Len(writes) \in Nat /\ Len(writes) <= Len(writes')
  <2>1. TInv'
    BY SInvFinds, TInvStep
  <2>2. writes \in Seq(Written) /\ writes' \in Seq(Written)
    BY <2>1 DEF TInv, Writes
  <2>3. DOMAIN writes \subseteq DOMAIN writes'
    <3>1. ASSUME NEW s \in Slot, Setpd(s)
          PROVE  DOMAIN writes \subseteq DOMAIN writes'
      BY <3>1, SetpdWrites
    <3>2. ASSUME NEW s \in Slot, Step(s), ~Setpd(s)
          PROVE  writes' = writes
      BY <3>2 DEF Step, Presence, FindSession, WriteSession, Sync, SyncFails, WriteCustom,
         InsertCustom, Setpdr, CallTimesOut, Getpd, ReadCareer, LookupFails, Getpdr, Fault
    <3>3. CASE Tick \/ (\E p \in Persona : Credit(p) \/ InsertStats(p)) \/ UNCHANGED vars
      BY <3>3 DEF Tick, Credit, InsertStats, vars
    <3> QED
      BY <3>1, <3>2, <3>3 DEF Next
  <2> QED
    BY <2>2, <2>3, LenProperties
<1> QED
  BY <1>3, <1>4 DEF SetsBounded

\* The clock and the requests are bounded; who has no row is being created.
Bounds ==
  /\ now \in 0..MaxTime /\ begun \in 0..MaxRequests
  /\ creating \subseteq Persona /\ Persona \ DOMAIN rows \subseteq creating

LEMMA BoundsStep ==
  ASSUME TInv, TInv', Bounds, [Next]_vars
  PROVE  Bounds'
<1>1. DOMAIN rows \subseteq DOMAIN rows'
  BY NothingLost DEF RowsKept
<1>2. MaxTime \in Nat /\ MaxRequests \in Nat
  BY CareerAssumption
<1>3. ASSUME NEW s \in Slot, Presence(s) \/ Setpd(s) \/ Getpd(s)
      PROVE  UNCHANGED <<now, creating>> /\ begun' = begun + 1 /\ begun < MaxRequests
  BY <1>3 DEF Presence, Setpd, Getpd, Open, Begin
<1>4. ASSUME NEW s \in Slot, Step(s), ~Presence(s), ~Setpd(s), ~Getpd(s)
      PROVE  UNCHANGED <<now, creating, begun>>
  BY <1>4 DEF Step, FindSession, WriteSession, Sync, SyncFails, WriteCustom,
     InsertCustom, Setpdr, CallTimesOut, ReadCareer, LookupFails, Getpdr, Fault
<1>5. ASSUME NEW p \in Persona, Credit(p)
      PROVE  UNCHANGED <<now, creating>> /\ begun' = begun + 1 /\ begun < MaxRequests
  BY <1>5 DEF Credit
<1>6. ASSUME NEW p \in Persona, InsertStats(p)
      PROVE  /\ UNCHANGED <<now, begun>> /\ creating' = creating \ {p}
             /\ p \in DOMAIN rows'
  BY <1>6 DEF InsertStats, Put
<1>7. CASE Tick \/ UNCHANGED vars
  BY <1>1, <1>2, <1>7 DEF Tick, vars, Bounds
<1> QED
  BY <1>1, <1>2, <1>3, <1>4, <1>5, <1>6, <1>7 DEF Next, Bounds

\* Every table keeps its shape: only personas have rows, what a row's custom
\* statistics were set to is the number of a setpd that exists, and a persona is
\* without a row only while its creation is under way.
THEOREM CareerTypeCorrect == Spec => []TypeOK
<1>1. Init => SetsBounded /\ Bounds
  <2> SUFFICES ASSUME Init PROVE SetsBounded /\ Bounds
    OBVIOUS
  <2>1. NewRow.set = 0
    BY DEF NewRow
  <2>2. writes = <<>> /\ rows = [p \in Persona \ creating |-> NewRow] /\ now = 0 /\ begun = 0
        /\ creating \subseteq Persona
    BY DEF Init
  <2>3. SetsBounded
    BY <2>1, <2>2 DEF SetsBounded
  <2> QED
    BY <2>2, <2>3, CareerAssumption DEF Bounds
<1>2. TInv /\ SInv /\ SetsBounded /\ Bounds /\ [Next]_vars => SetsBounded' /\ Bounds'
  BY SInvFinds, TInvStep, SetsBoundedStep, BoundsStep
<1>3. ASSUME TInv, SetsBounded, Bounds
      PROVE  TypeOK
  <2>1. /\ DOMAIN rows \subseteq Persona
        /\ \A p \in DOMAIN rows : rows[p] \in [score: Int, secs: Int, set: 0..Len(writes), plus: Nat]
    BY <1>3 DEF TInv, Rows, IsMap, Row, SetsBounded
  <2>2. \A i \in DOMAIN sessions : sessions[i].server \in Server /\ sessions[i].name \in PlayerName
    <3>1. \A i \in DOMAIN sessions : sessions[i] \in Sess
      BY <1>3, ElementOfSeq, LenProperties DEF TInv, Sessions
    <3> QED
      BY <3>1 DEF Sess
  <2>3. DOMAIN reqs \subseteq Slot /\ DOMAIN tally = Persona
    BY <1>3 DEF TInv, Reqs, IsMap, Tally
  <2>4. ended \subseteq 1..Len(writes)
    BY <1>3, LenProperties DEF TInv, Writes
  <2> QED
    BY <1>3, <2>1, <2>2, <2>3, <2>4 DEF Bounds, TypeOK
<1> QED
  BY <1>1, <1>2, <1>3, Invariants, PTL DEF Spec

=============================================================================
