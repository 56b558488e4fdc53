---------------------------- MODULE ServerProofs ----------------------------
(***************************************************************************)
(* What is told of game servers is true: the keys of the directory         *)
(* (Directory), the chart of a server's history (ServerHistory), and the   *)
(* answers of the GameSpy services and the types of their lists            *)
(* (GameSpyLists).                                                         *)
(*                                                                         *)
(* A row of the directory keeps its address and its key for ever, no two   *)
(* rows share a key, and every key that /register answered is in a row of  *)
(* the address it was answered for, for any number of servers, of requests *)
(* and of passes under way at the same time.                               *)
(*                                                                         *)
(* The chart is true to the snapshots for every length and number of       *)
(* buckets, gap and throttle, and however recordings interleave.  That     *)
(* takes three things no property says: no snapshot is of the future, one  *)
(* that says offline counts nobody, and what the loop over the buckets     *)
(* remembers was counted before the bucket at hand.                        *)
(*                                                                         *)
(* The answers are those that were asked for because a data listener       *)
(* leaves no whole frame behind: what it has answered is what the frames   *)
(* it took ask for, and while chat is open its key is that of every 705    *)
(* it has sent.                                                            *)
(***************************************************************************)
EXTENDS Directory, ServerHistory, GameSpyLists, MapLemmas, SequenceTheorems,
        FiniteSetTheorems

-----------------------------------------------------------------------------
(* The directory *)

\* A row of R is in S with its address and its key.
Kept(R, S) ==
  /\ DOMAIN R \subseteq DOMAIN S
  /\ \A i \in DOMAIN R : S[i].addr = R[i].addr /\ S[i].key = R[i].key

-----------------------------------------------------------------------------
(* What the statements do to the rows. *)

\* One row as updateHeartbeat, updateServerQuery and register leave it.
LEMMA TouchedRow ==
  ASSUME NEW r \in Row, NEW b \in BOOLEAN
  PROVE  LET q == HeardFrom(r, b) IN
         q \in Row /\ q.addr = r.addr /\ q.key = r.key
<1>1. MaxAge \in Nat
  BY DirectoryAssumption DEF MaxAge
<1>2. r \in [addr: Addr, key: 1..MaxRegs, online: BOOLEAN, age: 0..MaxAge]
  BY DEF Row
<1>3. [r EXCEPT !.online = b] \in [addr: Addr, key: 1..MaxRegs, online: BOOLEAN, age: 0..MaxAge]
  BY <1>2
<1> DEFINE s == [r EXCEPT !.online = b]
<1>4. s.addr = r.addr /\ s.key = r.key
  BY <1>2
<1>5. s \in [addr: Addr, key: 1..MaxRegs, online: BOOLEAN, age: 0..MaxAge]
  BY <1>3
<1> HIDE DEF s
<1>6. /\ [s EXCEPT !.age = 0] \in Row
      /\ [s EXCEPT !.age = 0].addr = s.addr /\ [s EXCEPT !.age = 0].key = s.key
  BY <1>1, <1>5 DEF Row
<1>7. HeardFrom(r, b) = [s EXCEPT !.age = 0]
  BY DEF s, HeardFrom
<1> QED
  BY <1>4, <1>6, <1>7

LEMMA OfflineRow ==
  ASSUME NEW r \in Row
  PROVE  LET q == [r EXCEPT !.online = FALSE] IN
         q \in Row /\ q.addr = r.addr /\ q.key = r.key
BY DEF Row

LEMMA OlderRow ==
  ASSUME NEW r \in Row
  PROVE  LET q == [r EXCEPT !.age = Older(@)] IN
         q \in Row /\ q.addr = r.addr /\ q.key = r.key
<1>1. MaxAge \in Nat
  BY DirectoryAssumption DEF MaxAge
<1>2. Older(r.age) \in 0..MaxAge
  BY <1>1 DEF Older, Row
<1> QED
  BY <1>2 DEF Row

\* A statement that leaves the address and the key of every row alone.
LEMMA RewrittenRows ==
  ASSUME NEW R \in Seq(Row), NEW S \in [DOMAIN R -> Row],
         \A j \in DOMAIN R : S[j].addr = R[j].addr /\ S[j].key = R[j].key
  PROVE  S \in Seq(Row) /\ DOMAIN S = DOMAIN R /\ Len(S) = Len(R) /\ Kept(R, S)
<1>1. DOMAIN R = 1..Len(R) /\ Len(R) \in Nat
  BY LenProperties
<1>2. S \in Seq(Row) /\ Len(S) = Len(R)
  BY <1>1
<1> QED
  BY <1>2 DEF Kept

\* The INSERT of a row.
LEMMA InsertedRow ==
  ASSUME NEW R \in Seq(Row), NEW r \in Row
  PROVE  /\ Append(R, r) \in Seq(Row)
         /\ DOMAIN Append(R, r) = DOMAIN R \cup {Len(R) + 1}
         /\ Len(R) + 1 \notin DOMAIN R
         /\ \A i \in DOMAIN R : Append(R, r)[i] = R[i]
         /\ Append(R, r)[Len(R) + 1] = r
         /\ Kept(R, Append(R, r))
<1>1. DOMAIN R = 1..Len(R) /\ Len(R) \in Nat
  BY LenProperties
<1>2. /\ Append(R, r) \in Seq(Row) /\ Len(Append(R, r)) = Len(R) + 1
      /\ \A i \in 1..Len(R) : Append(R, r)[i] = R[i]
      /\ Append(R, r)[Len(R) + 1] = r
  BY AppendProperties
<1>3. DOMAIN Append(R, r) = 1..(Len(R) + 1)
  BY <1>2, LenProperties
<1> QED
  BY <1>1, <1>2, <1>3 DEF Kept

-----------------------------------------------------------------------------
(* What the steps of requests and passes do to the Maps of them. *)

Status == {"none", "online", "offline"}
Request == Registration \cup RowRequest

\* Overwriting the entry of a key that is there.
LEMMA EntryType ==
  ASSUME NEW K, NEW V, NEW m, IsMap(m, K, V), NEW k, NEW v \in V
  PROVE  IsMap([m EXCEPT ![k] = v], K, V)
BY DEF IsMap

LEMMA SnapType ==
  ASSUME NEW s \in Seq(Status), NEW i, NEW v \in Status
  PROVE  [s EXCEPT ![i] = v] \in Seq(Status) /\ Len([s EXCEPT ![i] = v]) = Len(s)
<1>1. s \in [1..Len(s) -> Status] /\ Len(s) \in Nat
  BY LenProperties
<1>2. [s EXCEPT ![i] = v] \in [1..Len(s) -> Status]
  BY <1>1
<1> QED
  BY <1>1, <1>2

\* A registration goes on to another statement.
LEMMA RegistrationGoesOn ==
  ASSUME NEW q \in Registration, NEW pc \in {"find", "insert", "update"}
  PROVE  LET s == [q EXCEPT !.pc = pc] IN
         /\ s \in Registration
         /\ s.op = q.op /\ s.addr = q.addr /\ s.key = q.key /\ s.pc = pc
BY DEF Registration

LEMMA RegistrationFinds ==
  ASSUME NEW q \in Registration, NEW i \in Nat
  PROVE  LET s == [q EXCEPT !.pc = "update", !.id = i] IN
         /\ s \in Registration
         /\ s.op = q.op /\ s.addr = q.addr /\ s.key = q.key /\ s.id = i
<1> DEFINE s == [q EXCEPT !.pc = "update"]
<1>1. /\ s \in Registration
      /\ s.op = q.op /\ s.addr = q.addr /\ s.key = q.key
  BY DEF Registration
<1> HIDE DEF s
<1>2. LET u == [s EXCEPT !.id = i] IN
      /\ u \in Registration
      /\ u.op = s.op /\ u.addr = s.addr /\ u.key = s.key /\ u.id = i
  BY <1>1 DEF Registration
<1>3. [q EXCEPT !.pc = "update", !.id = i] = [s EXCEPT !.id = i]
  BY DEF s
<1> QED
  BY <1>1, <1>2, <1>3

LEMMA RegistrationQueried ==
  ASSUME NEW q \in Registration, NEW b \in BOOLEAN
  PROVE  LET s == [q EXCEPT !.pc = "find", !.online = b] IN
         /\ s \in Registration
         /\ s.op = q.op /\ s.addr = q.addr /\ s.key = q.key /\ s.pc = "find"
<1> DEFINE s == [q EXCEPT !.pc = "find"]
<1>1. /\ s \in Registration
      /\ s.op = q.op /\ s.addr = q.addr /\ s.key = q.key /\ s.pc = "find"
  BY DEF Registration
<1> HIDE DEF s
<1>2. LET u == [s EXCEPT !.online = b] IN
      /\ u \in Registration
      /\ u.op = s.op /\ u.addr = s.addr /\ u.key = s.key /\ u.pc = s.pc
  BY <1>1 DEF Registration
<1>3. [q EXCEPT !.pc = "find", !.online = b] = [s EXCEPT !.online = b]
  BY DEF s
<1> QED
  BY <1>1, <1>2, <1>3

LEMMA RowRequestVisited ==
  ASSUME NEW q \in RowRequest, NEW b \in BOOLEAN
  PROVE  [q EXCEPT !.pc = "update", !.online = b] \in RowRequest
<1> DEFINE s == [q EXCEPT !.pc = "update"]
<1>1. s \in RowRequest
  BY DEF RowRequest
<1> HIDE DEF s
<1>2. [s EXCEPT !.online = b] \in RowRequest
  BY <1>1 DEF RowRequest
<1>3. [q EXCEPT !.pc = "update", !.online = b] = [s EXCEPT !.online = b]
  BY DEF s
<1> QED
  BY <1>2, <1>3

LEMMA RowRequestGoesOn ==
  ASSUME NEW q \in RowRequest
  PROVE  [q EXCEPT !.pc = "snap"] \in RowRequest
BY DEF RowRequest

\* The op of a request tells which of the two it is.
LEMMA RequestKind ==
  ASSUME NEW q \in Request
  PROVE  /\ q.op \in {"register", "admin"} => q \in Registration
         /\ q.op \notin {"register", "admin"} => q \in RowRequest
BY DEF Request, Registration, RowRequest

-----------------------------------------------------------------------------
(* Type correctness. *)

\* One row rewritten by the UPDATE of a request or of a pass.
LEMMA UpdatedRows ==
  ASSUME NEW R \in Seq(Row), NEW i, NEW v,
         i \in DOMAIN R => /\ v \in Row
                           /\ v.addr = R[i].addr /\ v.key = R[i].key
  PROVE  LET S == [R EXCEPT ![i] = v] IN
         S \in Seq(Row) /\ DOMAIN S = DOMAIN R /\ Len(S) = Len(R) /\ Kept(R, S)
<1> DEFINE S == [R EXCEPT ![i] = v]
<1>1. R \in [DOMAIN R -> Row]
  BY LenProperties
<1>2. S \in [DOMAIN R -> Row]
  BY <1>1
<1>3. \A j \in DOMAIN R : S[j].addr = R[j].addr /\ S[j].key = R[j].key
  OBVIOUS
<1> QED
  BY <1>2, <1>3, RewrittenRows

\* The rows of UPDATE ... SET last_heartbeat = NOW(), is_online = b.
LEMMA HeardRows ==
  ASSUME NEW R \in Seq(Row), NEW i, NEW b \in BOOLEAN
  PROVE  LET S == [R EXCEPT ![i] = HeardFrom(@, b)] IN
         S \in Seq(Row) /\ DOMAIN S = DOMAIN R /\ Len(S) = Len(R) /\ Kept(R, S)
<1>1. i \in DOMAIN R => R[i] \in Row
  BY LenProperties, ElementOfSeq
<1> QED
  BY <1>1, TouchedRow, UpdatedRows

LEMMA OfflineRows ==
  ASSUME NEW R \in Seq(Row), NEW i
  PROVE  LET S == [R EXCEPT ![i] = [@ EXCEPT !.online = FALSE]] IN
         S \in Seq(Row) /\ DOMAIN S = DOMAIN R /\ Len(S) = Len(R) /\ Kept(R, S)
<1>1. i \in DOMAIN R => R[i] \in Row
  BY LenProperties, ElementOfSeq
<1> QED
  BY <1>1, OfflineRow, UpdatedRows

LEMMA OlderRows ==
  ASSUME NEW R \in Seq(Row)
  PROVE  LET S == [i \in DOMAIN R |-> [R[i] EXCEPT !.age = Older(@)]] IN
         S \in Seq(Row) /\ DOMAIN S = DOMAIN R /\ Len(S) = Len(R) /\ Kept(R, S)
<1> DEFINE S == [i \in DOMAIN R |-> [R[i] EXCEPT !.age = Older(@)]]
<1>1. ASSUME NEW i \in DOMAIN R
      PROVE  S[i] \in Row /\ S[i].addr = R[i].addr /\ S[i].key = R[i].key
  <2>1. R[i] \in Row
    BY LenProperties, ElementOfSeq
  <2>2. S[i] = [R[i] EXCEPT !.age = Older(@)]
    OBVIOUS
  <2> QED
    BY <2>1, <2>2, OlderRow
<1>2. S \in [DOMAIN R -> Row]
  BY <1>1
<1> QED
  BY <1>1, <1>2, RewrittenRows

\* The part of TypeOK that the proofs of the steps share.
Typed ==
  /\ rows \in Seq(Row)
  /\ snap \in Seq(Status) /\ Len(snap) = Len(rows)
  /\ IsMap(reqs, Req, Request)
  /\ IsMap(passes, Pass, PollPass)
  /\ server \in [Addr -> {"down", "open", "hidden"}]
  /\ regs \in 0..MaxRegs
  /\ handed \subseteq [addr: Addr, key: 1..MaxRegs, op: {"register", "admin"}]

\* A registration under way knows what it found: a row of its own address.
RowFound(q) == q.pc = "update" => q.id \in Ids /\ rows[q.id].addr = q.addr
FoundOwn == \A r \in Registering : RowFound(reqs[r])

\* Keys are numbered as they are drawn: no two rows share one, and one that a
\* registration under way has drawn is in no row yet and with no other.
KeysFresh ==
  /\ \A i, j \in Ids : rows[i].key = rows[j].key => i = j
  /\ \A i \in Ids : rows[i].key <= regs
  /\ \A r \in Registering :
       /\ reqs[r].key <= regs
       /\ \A i \in Ids : rows[i].key # reqs[r].key
       /\ \A s \in Registering : reqs[r].key = reqs[s].key => r = s

IInv == Typed /\ FoundOwn /\ KeysFresh /\ KeysAuthenticate

\* A step that draws no key, inserts no row and answers no registration.
Quiet ==
  /\ regs' = regs /\ handed' = handed
  /\ DOMAIN rows' = DOMAIN rows /\ Kept(rows, rows')
  /\ \A r \in Registering' :
       /\ r \in Registering
       /\ reqs'[r].addr = reqs[r].addr /\ reqs'[r].key = reqs[r].key
       /\ RowFound(reqs'[r])

LEMMA QuietKeeps ==
  ASSUME IInv, Typed', Quiet
  PROVE  IInv'
<1>1. FoundOwn'
  BY DEF IInv, Quiet, Kept, FoundOwn, RowFound, Ids
<1>2. KeysFresh'
  BY DEF IInv, Quiet, Kept, KeysFresh, Ids
<1>3. KeysAuthenticate'
  BY DEF IInv, Quiet, Kept, KeysAuthenticate, RowsAt, Ids
<1> QED
  BY <1>1, <1>2, <1>3 DEF IInv

\* A step that leaves the requests alone.
LEMMA SameRequests ==
  ASSUME IInv, reqs' = reqs, regs' = regs, handed' = handed,
         DOMAIN rows' = DOMAIN rows, Kept(rows, rows')
  PROVE  Quiet
BY DEF IInv, Quiet, FoundOwn, Registering

\* A request ends, or a request about one row goes on.
LEMMA RowRequestStep ==
  ASSUME IInv, NEW r \in DOMAIN reqs,
         \/ reqs' = Delete(reqs, r)
         \/ /\ r \notin Registering
            /\ \E q \in RowRequest : reqs' = [reqs EXCEPT ![r] = q],
         regs' = regs, handed' = handed,
         DOMAIN rows' = DOMAIN rows, Kept(rows, rows')
  PROVE  Quiet /\ IsMap(reqs', Req, Request)
<1>1. IsMap(reqs, Req, Request)
  BY DEF IInv, Typed
<1>2. CASE reqs' = Delete(reqs, r)
  <2>1. DOMAIN reqs' = DOMAIN reqs \ {r} /\ \A s \in DOMAIN reqs : s # r => reqs'[s] = reqs[s]
    BY <1>2, DeleteLookup
  <2>2. \A s \in Registering' : s \in Registering /\ reqs'[s] = reqs[s]
    BY <2>1 DEF Registering
  <2>3. Quiet
    BY <2>2 DEF IInv, Quiet, FoundOwn
  <2> QED
    BY <1>1, <1>2, <2>3, DeleteType
<1>3. ASSUME r \notin Registering, NEW q \in RowRequest, reqs' = [reqs EXCEPT ![r] = q]
      PROVE  Quiet /\ IsMap(reqs', Req, Request)
  <2>1. DOMAIN reqs' = DOMAIN reqs /\ reqs'[r] = q /\ \A s \in DOMAIN reqs : s # r => reqs'[s] = reqs[s]
    BY <1>3
  <2>2. q.op \notin {"register", "admin"} /\ q \in Request
    BY DEF RowRequest, Request
  <2>3. \A s \in Registering' : s \in Registering /\ reqs'[s] = reqs[s]
    BY <2>1, <2>2 DEF Registering
  <2>4. Quiet
    BY <2>3 DEF IInv, Quiet, FoundOwn
  <2>5. IsMap([reqs EXCEPT ![r] = q], Req, Request)
    BY <1>1, <2>2, EntryType
  <2> QED
    BY <1>3, <2>4, <2>5
<1> QED
  BY <1>2, <1>3

LEMMA SameKept ==
  ASSUME NEW R \in Seq(Row)
  PROVE  Kept(R, R)
BY DEF Kept

-----------------------------------------------------------------------------
(* One lemma for every kind of step. *)

LEMMA RegistrationBegins ==
  ASSUME IInv, NEW r \in Req, NEW op \in {"register", "admin"}, NEW a \in Addr,
         NEW pc \in {"query", "find"}, BeginRegistration(r, op, a, pc)
  PROVE  IInv'
<1> DEFINE q == [op |-> op, pc |-> pc, addr |-> a, key |-> regs + 1, online |-> TRUE, id |-> 0]
<1>1. /\ r \notin DOMAIN reqs /\ regs < MaxRegs
      /\ regs' = regs + 1 /\ reqs' = Put(reqs, r, q)
      /\ rows' = rows /\ snap' = snap /\ passes' = passes /\ server' = server
      /\ handed' = handed
  BY DEF BeginRegistration
<1>2. MaxRegs \in Nat /\ regs \in Nat /\ regs' \in 1..MaxRegs
  BY <1>1, DirectoryAssumption DEF IInv, Typed
<1>3. q \in Registration /\ q.key = regs' /\ q.pc # "update"
  BY <1>1, <1>2 DEF Registration
<1> HIDE DEF q
<1>4. DOMAIN reqs' = DOMAIN reqs \cup {r} /\ reqs'[r] = q
      /\ \A s \in DOMAIN reqs : reqs'[s] = reqs[s]
  BY <1>1 DEF Put
<1>5. IsMap(reqs', Req, Request)
  BY <1>1, <1>3, PutType DEF IInv, Typed, Request
<1>6. Typed'
  BY <1>1, <1>2, <1>5 DEF IInv, Typed
<1>7. \A s \in Registering' : s = r \/ (s \in Registering /\ reqs'[s] = reqs[s])
  BY <1>4 DEF Registering
<1>8. FoundOwn'
  BY <1>1, <1>3, <1>4, <1>7 DEF IInv, FoundOwn, RowFound, Ids
<1>9. \A i \in Ids : rows[i].key \in Nat /\ rows[i].key <= regs
  <2>1. ASSUME NEW i \in Ids PROVE rows[i] \in Row
    BY <2>1, LenProperties, ElementOfSeq DEF IInv, Typed, Ids
  <2> QED
    BY <2>1 DEF IInv, KeysFresh, Row
<1>10. \A s \in Registering : reqs[s].key \in Nat /\ reqs[s].key <= regs
  <2>1. ASSUME NEW s \in Registering PROVE reqs[s] \in Registration
    BY <2>1, RequestKind, IsMapLookup DEF IInv, Typed, Registering
  <2> QED
    BY <2>1 DEF IInv, KeysFresh, Registration
<1>11. KeysFresh'
  <2>1. \A i, j \in Ids' : rows'[i].key = rows'[j].key => i = j
    BY <1>1 DEF IInv, KeysFresh, Ids
  <2>2. \A i \in Ids' : rows'[i].key <= regs'
    BY <1>1, <1>2, <1>9 DEF Ids
  <2>3. ASSUME NEW s \in Registering'
        PROVE  /\ reqs'[s].key <= regs'
               /\ \A i \in Ids' : rows'[i].key # reqs'[s].key
               /\ \A u \in Registering' : reqs'[s].key = reqs'[u].key => s = u
    BY <1>1, <1>2, <1>3, <1>4, <1>7, <1>9, <1>10 DEF IInv, KeysFresh, Ids
  <2> QED
    BY <2>1, <2>2, <2>3 DEF KeysFresh
<1>12. KeysAuthenticate'
  BY <1>1 DEF IInv, KeysAuthenticate, RowsAt, Ids
<1> QED
  BY <1>6, <1>8, <1>11, <1>12 DEF IInv

\* A registration under way is well typed.
LEMMA RegisteringType ==
  ASSUME IInv, NEW r \in Registering
  PROVE  r \in DOMAIN reqs /\ r \in Req /\ reqs[r] \in Registration
BY RequestKind, IsMapLookup DEF IInv, Typed, Registering

\* A registration that goes on without a write.
LEMMA RegistrationStep ==
  ASSUME IInv, NEW r \in Registering, NEW q \in Registration,
         q.addr = reqs[r].addr, q.key = reqs[r].key, RowFound(q),
         reqs' = [reqs EXCEPT ![r] = q],
         UNCHANGED <<rows, snap, passes, server, regs, handed>>
  PROVE  IInv'
<1>1. r \in DOMAIN reqs
  BY DEF Registering
<1>2. DOMAIN reqs' = DOMAIN reqs /\ reqs'[r] = q /\ \A s \in DOMAIN reqs : s # r => reqs'[s] = reqs[s]
  BY <1>1
<1>3. \A s \in Registering' : s = r \/ (s \in Registering /\ reqs'[s] = reqs[s])
  BY <1>2 DEF Registering
<1>4. Quiet
  BY <1>2, <1>3, SameKept DEF IInv, Typed, Quiet, FoundOwn
<1>5. IsMap([reqs EXCEPT ![r] = q], Req, Request)
  BY EntryType DEF IInv, Typed, Request
<1>6. Typed'
  BY <1>5 DEF IInv, Typed
<1> QED
  BY <1>4, <1>6, QuietKeeps

LEMMA QueriedStep ==
  ASSUME IInv, NEW r \in Req, RegisterQueried(r)
  PROVE  IInv'
<1>1. r \in Registering
  BY DEF RegisterQueried
<1> DEFINE up == Answers(reqs[r].addr)
           q  == [reqs[r] EXCEPT !.pc = "find", !.online = up]
<1>2. up \in BOOLEAN
  BY DEF Answers
<1>3. reqs' = [reqs EXCEPT ![r] = q]
  BY DEF RegisterQueried
<1>4. UNCHANGED <<rows, snap, passes, server, regs, handed>>
  BY DEF RegisterQueried
<1> HIDE DEF up
<1>5. /\ q \in Registration /\ q.addr = reqs[r].addr /\ q.key = reqs[r].key
      /\ q.pc = "find"
  <2>1. reqs[r] \in Registration
    BY <1>1, RegisteringType
  <2> QED
    BY <1>2, <2>1, RegistrationQueried
<1> HIDE DEF q
<1>6. RowFound(q)
  BY <1>5 DEF RowFound
<1> QED
  BY <1>1, <1>3, <1>4, <1>5, <1>6, RegistrationStep

LEMMA FindStep ==
  ASSUME IInv, NEW r \in Req, FindByIpAndPort(r)
  PROVE  IInv'
<1>1. r \in Registering /\ reqs[r] \in Registration
  BY RegisteringType DEF FindByIpAndPort
<1>2. UNCHANGED <<rows, snap, passes, server, regs, handed>>
  BY DEF FindByIpAndPort
<1>3. CASE reqs' = [reqs EXCEPT ![r] = [@ EXCEPT !.pc = "insert"]]
  <2> DEFINE q == [reqs[r] EXCEPT !.pc = "insert"]
  <2>1. /\ q \in Registration /\ q.addr = reqs[r].addr /\ q.key = reqs[r].key
        /\ q.pc = "insert"
    BY <1>1, RegistrationGoesOn
  <2>2. reqs' = [reqs EXCEPT ![r] = q]
    BY <1>3
  <2> HIDE DEF q
  <2>3. RowFound(q)
    BY <2>1 DEF RowFound
  <2> QED
    BY <1>1, <1>2, <2>1, <2>2, <2>3, RegistrationStep
<1>4. ASSUME NEW i \in RowsAt(reqs[r].addr),
             reqs' = [reqs EXCEPT ![r] = [@ EXCEPT !.pc = "update", !.id = i]]
      PROVE  IInv'
  <2> DEFINE q == [reqs[r] EXCEPT !.pc = "update", !.id = i]
  <2>1. i \in Ids /\ i \in Nat /\ rows[i].addr = reqs[r].addr
    BY <1>4, LenProperties DEF IInv, Typed, RowsAt, Ids
  <2>2. /\ q \in Registration /\ q.addr = reqs[r].addr /\ q.key = reqs[r].key
        /\ q.id = i
    BY <1>1, <2>1, RegistrationFinds
  <2>3. reqs' = [reqs EXCEPT ![r] = q]
    BY <1>4
  <2> HIDE DEF q
  <2>4. RowFound(q)
    BY <2>1, <2>2 DEF RowFound
  <2> QED
    BY <1>1, <1>2, <2>2, <2>3, <2>4, RegistrationStep
<1> QED
  BY <1>3, <1>4 DEF FindByIpAndPort

\* What Answer may add to the keys handed out.
LEMMA AnsweredKeys ==
  ASSUME IInv, NEW q \in Registration, NEW key \in 1..MaxRegs, Answer(q, key)
  PROVE  /\ handed' \subseteq [addr: Addr, key: 1..MaxRegs, op: {"register", "admin"}]
         /\ \A k \in handed' : k \in handed \/ (k.addr = q.addr /\ k.key = key /\ k.op = q.op)
<1> DEFINE k == [addr |-> q.addr, key |-> key, op |-> q.op]
<1>1. k \in [addr: Addr, key: 1..MaxRegs, op: {"register", "admin"}]
      /\ k.addr = q.addr /\ k.key = key /\ k.op = q.op
  BY DEF Registration
<1>2. handed' = handed \/ handed' = handed \cup {k}
  BY DEF Answer
<1> HIDE DEF k
<1> QED
  BY <1>1, <1>2 DEF IInv, Typed

LEMMA InsertStep ==
  ASSUME IInv, NEW r \in Req, RegisterInsert(r)
  PROVE  IInv'
<1> DEFINE q   == reqs[r]
           row == [addr |-> q.addr, key |-> q.key, online |-> q.online, age |-> 0]
           new == Len(rows) + 1
<1>1. r \in Registering /\ r \in DOMAIN reqs /\ q \in Registration
  BY RegisteringType DEF RegisterInsert
<1>2. /\ rows' = Append(rows, row) /\ snap' = Append(snap, "none")
      /\ reqs' = Delete(reqs, r) /\ Answer(q, q.key)
      /\ passes' = passes /\ server' = server /\ regs' = regs
  BY DEF RegisterInsert
<1>3. /\ row \in Row /\ row.addr = q.addr /\ row.key = q.key
      /\ q.key \in 1..MaxRegs
  BY <1>1, DirectoryAssumption DEF Registration, Row, MaxAge
<1>4. rows \in Seq(Row) /\ snap \in Seq(Status) /\ Len(snap) = Len(rows)
  BY DEF IInv, Typed
<1> HIDE DEF row
<1>5. /\ rows' \in Seq(Row) /\ Ids' = Ids \cup {new} /\ new \notin Ids
      /\ \A i \in Ids : rows'[i] = rows[i]
      /\ rows'[new] = row
  BY <1>2, <1>3, <1>4, InsertedRow DEF Ids
<1>6. snap' \in Seq(Status) /\ Len(snap') = Len(rows')
  <2>1. Append(snap, "none") \in Seq(Status) /\ Len(Append(snap, "none")) = Len(snap) + 1
    BY <1>4, AppendProperties DEF Status
  <2>2. Len(Append(rows, row)) = Len(rows) + 1
    BY <1>3, <1>4, AppendProperties
  <2> QED
    BY <1>2, <1>4, <2>1, <2>2
<1>7. /\ handed' \subseteq [addr: Addr, key: 1..MaxRegs, op: {"register", "admin"}]
      /\ \A k \in handed' : k \in handed \/ (k.addr = q.addr /\ k.key = q.key /\ k.op = q.op)
  BY <1>1, <1>2, <1>3, AnsweredKeys
<1>8. DOMAIN reqs' = DOMAIN reqs \ {r} /\ \A s \in DOMAIN reqs : s # r => reqs'[s] = reqs[s]
  BY <1>2, DeleteLookup
<1>9. IsMap(reqs', Req, Request)
  BY <1>2, DeleteType DEF IInv, Typed
<1>10. Typed'
  BY <1>2, <1>5, <1>6, <1>7, <1>9 DEF IInv, Typed
<1>11. \A s \in Registering' : s \in Registering /\ s # r /\ reqs'[s] = reqs[s]
  BY <1>8 DEF Registering
<1>12. FoundOwn'
  BY <1>5, <1>11 DEF IInv, FoundOwn, RowFound
<1>13. KeysFresh'
  <2>1. \A i \in Ids : rows[i].key # q.key
    BY <1>1 DEF IInv, KeysFresh
  <2>2. \A i, j \in Ids' : rows'[i].key = rows'[j].key => i = j
    BY <1>3, <1>5, <2>1 DEF IInv, KeysFresh
  <2>3. /\ \A i \in Ids : rows'[i].key = rows[i].key /\ rows[i].key <= regs
        /\ rows'[new].key = q.key /\ q.key <= regs
    BY <1>1, <1>3, <1>5 DEF IInv, KeysFresh
  <2>4. \A i \in Ids' : rows'[i].key <= regs'
    BY <1>2, <1>5, <2>3
  <2>5. ASSUME NEW s \in Registering'
        PROVE  /\ reqs'[s].key <= regs'
               /\ \A i \in Ids' : rows'[i].key # reqs'[s].key
               /\ \A u \in Registering' : reqs'[s].key = reqs'[u].key => s = u
    <3>1. /\ s \in Registering /\ s # r /\ reqs'[s].key = reqs[s].key
          /\ \A u \in Registering' : u \in Registering /\ reqs'[u].key = reqs[u].key
      BY <1>11
    <3>2. /\ reqs[s].key <= regs /\ reqs[s].key # q.key
          /\ \A i \in Ids : rows[i].key # reqs[s].key
          /\ \A u \in Registering : reqs[s].key = reqs[u].key => s = u
      BY <1>1, <3>1 DEF IInv, KeysFresh
    <3> QED
      BY <1>2, <1>5, <2>3, <3>1, <3>2
  <2> QED
    BY <2>2, <2>4, <2>5 DEF KeysFresh
<1>14. KeysAuthenticate'
  <2>1. ASSUME NEW k \in handed', k.op = "register"
        PROVE  \E i \in Ids' : rows'[i].addr = k.addr /\ rows'[i].key = k.key
    <3>1. CASE k \in handed
      BY <1>5, <2>1, <3>1 DEF IInv, KeysAuthenticate, RowsAt
    <3>2. CASE k.addr = q.addr /\ k.key = q.key
      BY <1>3, <1>5, <3>2
    <3> QED
      BY <1>7, <3>1, <3>2
  <2> QED
    BY <2>1 DEF KeysAuthenticate, RowsAt
<1> QED
  BY <1>10, <1>12, <1>13, <1>14 DEF IInv

LEMMA UpdateStep ==
  ASSUME IInv, NEW r \in Req, RegisterUpdate(r)
  PROVE  IInv'
<1> DEFINE q == reqs[r]
<1>1. r \in Registering /\ r \in DOMAIN reqs /\ q \in Registration /\ q.pc = "update"
  BY RegisteringType DEF RegisterUpdate
<1>2. /\ rows' = [rows EXCEPT ![q.id] = HeardFrom(@, q.online)]
      /\ reqs' = Delete(reqs, r) /\ Answer(q, KeyAnswered(q))
      /\ snap' = snap /\ passes' = passes /\ server' = server /\ regs' = regs
  BY DEF RegisterUpdate
<1>3. q.id \in Ids /\ rows[q.id].addr = q.addr
  BY <1>1 DEF IInv, FoundOwn, RowFound
<1>4. rows[q.id].key \in 1..MaxRegs /\ q.key \in 1..MaxRegs /\ q.online \in BOOLEAN
  <2>1. rows[q.id] \in Row
    BY <1>3, LenProperties, ElementOfSeq DEF IInv, Typed, Ids
  <2> QED
    BY <1>1, <2>1 DEF Row, Registration
<1>5. rows' \in Seq(Row) /\ Ids' = Ids /\ Len(rows') = Len(rows) /\ Kept(rows, rows')
  BY <1>2, <1>4, HeardRows DEF IInv, Typed, Ids
<1>6. KeyAnswered(q) \in 1..MaxRegs
  BY <1>4 DEF KeyAnswered
<1>7. /\ handed' \subseteq [addr: Addr, key: 1..MaxRegs, op: {"register", "admin"}]
      /\ \A k \in handed' :
           k \in handed \/ (k.addr = q.addr /\ k.key = KeyAnswered(q) /\ k.op = q.op)
  BY <1>1, <1>2, <1>6, AnsweredKeys
<1>8. DOMAIN reqs' = DOMAIN reqs \ {r} /\ \A s \in DOMAIN reqs : s # r => reqs'[s] = reqs[s]
  BY <1>2, DeleteLookup
<1>9. IsMap(reqs', Req, Request)
  BY <1>2, DeleteType DEF IInv, Typed
<1>10. Typed'
  BY <1>2, <1>5, <1>7, <1>9 DEF IInv, Typed
<1>11. \A s \in Registering' : s \in Registering /\ s # r /\ reqs'[s] = reqs[s]
  BY <1>8 DEF Registering
<1>12. FoundOwn'
  BY <1>5, <1>11 DEF IInv, FoundOwn, RowFound, Kept, Ids
<1>13. KeysFresh'
  BY <1>2, <1>5, <1>11 DEF IInv, KeysFresh, Kept, Ids
<1>14. KeysAuthenticate'
  <2>1. ASSUME NEW k \in handed', k.op = "register"
        PROVE  \E i \in Ids' : rows'[i].addr = k.addr /\ rows'[i].key = k.key
    <3>1. CASE k \in handed
      BY <1>5, <2>1, <3>1 DEF IInv, KeysAuthenticate, RowsAt, Kept, Ids
    <3>2. CASE k.addr = q.addr /\ k.key = KeyAnswered(q) /\ k.op = q.op
      <4>1. k.key = rows[q.id].key
        BY <2>1, <3>2 DEF KeyAnswered
      <4> QED
        BY <1>3, <1>5, <3>2, <4>1 DEF Kept, Ids
    <3> QED
      BY <1>7, <3>1, <3>2
  <2> QED
    BY <2>1 DEF KeysAuthenticate, RowsAt
<1> QED
  BY <1>10, <1>12, <1>13, <1>14 DEF IInv

\* A request about one row begins: op and row are of the right kind.
LEMMA BeginOnStep ==
  ASSUME IInv, NEW r \in Req, NEW op \in {"heartbeat", "refresh", "probe"},
         NEW pc \in {"query", "update"}, NEW i \in Ids, BeginOn(r, op, pc, i)
  PROVE  IInv'
<1> DEFINE q == [op |-> op, pc |-> pc, id |-> i, online |-> TRUE]
<1>1. /\ r \notin DOMAIN reqs /\ reqs' = Put(reqs, r, q)
      /\ UNCHANGED <<rows, snap, passes, server, regs, handed>>
  BY DEF BeginOn
<1>2. i \in Nat
  BY LenProperties DEF IInv, Typed, Ids
<1>3. q \in RowRequest /\ q.op \notin {"register", "admin"}
  BY <1>2 DEF RowRequest
<1> HIDE DEF q
<1>4. DOMAIN reqs' = DOMAIN reqs \cup {r} /\ reqs'[r] = q
      /\ \A s \in DOMAIN reqs : reqs'[s] = reqs[s]
  BY <1>1 DEF Put
<1>5. \A s \in Registering' : s \in Registering /\ reqs'[s] = reqs[s]
  BY <1>3, <1>4 DEF Registering
<1>6. Quiet
  BY <1>1, <1>5, SameKept DEF IInv, Typed, FoundOwn, Quiet
<1>7. IsMap(reqs', Req, Request)
  BY <1>1, <1>3, PutType DEF IInv, Typed, Request
<1>8. Typed'
  BY <1>1, <1>7 DEF IInv, Typed
<1> QED
  BY <1>6, <1>8, QuietKeeps

LEMMA HeartbeatStep ==
  ASSUME IInv, NEW r \in Req, Heartbeat(r)
  PROVE  IInv'
BY BeginOnStep DEF Heartbeat

LEMMA VisitStep ==
  ASSUME IInv, NEW r \in Req, Visit(r)
  PROVE  IInv'
BY BeginOnStep DEF Visit

\* The statements of a request about one row, and a request that fails.
LEMMA RowStep ==
  ASSUME IInv, NEW r \in Req,
         Visited(r) \/ RowUpdate(r) \/ RowSnapshot(r) \/ RequestFault(r)
  PROVE  IInv'
<1> DEFINE q == reqs[r]
<1>1. r \in DOMAIN reqs
  BY DEF Visited, RowUpdate, RowSnapshot, RequestFault, RowRequests
<1>2. rows \in Seq(Row) /\ snap \in Seq(Status) /\ Len(snap) = Len(rows)
  BY DEF IInv, Typed
<1>3. ASSUME r \notin Registering PROVE q \in RowRequest
  BY <1>1, <1>3, RequestKind, IsMapLookup DEF IInv, Typed, Registering
<1>4. CASE Visited(r)
  <2>1. r \notin Registering /\ UNCHANGED <<rows, snap, passes, server, regs, handed>>
    BY <1>4 DEF Visited, RowRequests
  <2> DEFINE up == Answers(rows[q.id].addr)
             v  == [q EXCEPT !.pc = "update", !.online = up]
  <2>2. reqs' = Delete(reqs, r) \/ reqs' = [reqs EXCEPT ![r] = v]
    BY <1>4 DEF Visited
  <2>3. v \in RowRequest
    <3>1. up \in BOOLEAN
      BY DEF Answers
    <3> HIDE DEF up
    <3> QED
      BY <1>3, <2>1, <3>1, RowRequestVisited
  <2> HIDE DEF v
  <2>4. Quiet /\ IsMap(reqs', Req, Request)
    BY <1>1, <1>2, <2>1, <2>2, <2>3, SameKept, RowRequestStep
  <2>5. Typed'
    BY <2>1, <2>4 DEF IInv, Typed
  <2> QED
    BY <2>4, <2>5, QuietKeeps
<1>5. CASE RowUpdate(r)
  <2>1. /\ r \notin Registering /\ UNCHANGED <<snap, passes, server, regs, handed>>
        /\ rows' = [rows EXCEPT ![q.id] = HeardFrom(@, q.online)]
    BY <1>5 DEF RowUpdate, RowRequests
  <2>2. q \in RowRequest /\ q.online \in BOOLEAN
    BY <1>3, <2>1 DEF RowRequest
  <2> DEFINE v == [q EXCEPT !.pc = "snap"]
  <2>3. v \in RowRequest
    BY <2>2, RowRequestGoesOn
  <2>4. reqs' = Delete(reqs, r) \/ reqs' = [reqs EXCEPT ![r] = v]
    BY <1>5 DEF RowUpdate
  <2> HIDE DEF v
  <2>5. rows' \in Seq(Row) /\ DOMAIN rows' = DOMAIN rows /\ Len(rows') = Len(rows) /\ Kept(rows, rows')
    BY <1>2, <2>1, <2>2, HeardRows
  <2>6. Quiet /\ IsMap(reqs', Req, Request)
    BY <1>1, <2>1, <2>3, <2>4, <2>5, RowRequestStep
  <2>7. Typed'
    BY <2>1, <2>5, <2>6 DEF IInv, Typed
  <2> QED
    BY <2>6, <2>7, QuietKeeps
<1>6. CASE RowSnapshot(r)
  <2>1. /\ UNCHANGED <<rows, passes, server, regs, handed>>
        /\ reqs' = Delete(reqs, r) /\ snap' = [snap EXCEPT ![q.id] = "online"]
    BY <1>6 DEF RowSnapshot
  <2>2. snap' \in Seq(Status) /\ Len(snap') = Len(rows)
    BY <1>2, <2>1, SnapType DEF Status
  <2>3. Quiet /\ IsMap(reqs', Req, Request)
    BY <1>1, <1>2, <2>1, SameKept, RowRequestStep
  <2>4. Typed'
    BY <2>1, <2>2, <2>3 DEF IInv, Typed
  <2> QED
    BY <2>3, <2>4, QuietKeeps
<1>7. CASE RequestFault(r)
  <2>1. UNCHANGED <<rows, snap, passes, server, regs, handed>> /\ reqs' = Delete(reqs, r)
    BY <1>7 DEF RequestFault
  <2>2. Quiet /\ IsMap(reqs', Req, Request)
    BY <1>1, <1>2, <2>1, SameKept, RowRequestStep
  <2>3. Typed'
    BY <2>1, <2>2 DEF IInv, Typed
  <2> QED
    BY <2>2, <2>3, QuietKeeps
<1> QED
  BY <1>4, <1>5, <1>6, <1>7

-----------------------------------------------------------------------------
(* The poller, time and the game servers: the requests stay as they are. *)

\* A step that leaves the requests alone and keeps the rows' keys keeps IInv.
LEMMA RequestsAlone ==
  ASSUME IInv, UNCHANGED <<reqs, regs, handed>>, server' \in [Addr -> {"down", "open", "hidden"}],
         rows' \in Seq(Row), DOMAIN rows' = DOMAIN rows, Len(rows') = Len(rows), Kept(rows, rows'),
         snap' \in Seq(Status), Len(snap') = Len(snap),
         IsMap(passes', Pass, PollPass)
  PROVE  IInv'
<1>1. Quiet
  BY SameRequests
<1>2. Typed'
  BY DEF IInv, Typed
<1> QED
  BY <1>1, <1>2, QuietKeeps

\* The statements of a pass, each with the place it moves the pass to.
LEMMA PassGoesOn ==
  ASSUME NEW p \in PollPass,
         NEW pc \in {"next", "update", "offline", "snap online", "snap offline"}
  PROVE  [p EXCEPT !.pc = pc] \in PollPass
BY DEF PollPass

LEMMA PassNext ==
  ASSUME NEW p \in PollPass
  PROVE  [p EXCEPT !.pc = "next", !.cur = 0] \in PollPass
<1> DEFINE s == [p EXCEPT !.pc = "next"]
<1>1. s \in PollPass
  BY DEF PollPass
<1> HIDE DEF s
<1>2. [s EXCEPT !.cur = 0] \in PollPass
  BY <1>1 DEF PollPass
<1>3. [p EXCEPT !.pc = "next", !.cur = 0] = [s EXCEPT !.cur = 0]
  BY DEF s
<1> QED
  BY <1>2, <1>3

\* A copy is one of a row that was there.
LEMMA CopyType ==
  ASSUME rows \in Seq(Row), NEW i \in Ids
  PROVE  CopyOf(i) \in Copy
<1>1. rows[i] \in Row /\ i \in Nat
  BY LenProperties, ElementOfSeq DEF Ids
<1> QED
  BY <1>1 DEF CopyOf, Copy, Row

LEMMA OlderPassType ==
  ASSUME NEW p \in PollPass
  PROVE  OlderPass(p) \in PollPass
<1> DEFINE old(c) == [c EXCEPT !.age = Older(@)]
           todo   == {old(c) : c \in p.todo}
<1>1. MaxAge \in Nat
  BY DirectoryAssumption DEF MaxAge
<1>2. ASSUME NEW c \in p.todo PROVE old(c) \in Copy
  <2>1. c \in Copy
    BY DEF PollPass
  <2>2. Older(c.age) \in 0..MaxAge
    BY <1>1, <2>1 DEF Older, Copy
  <2> QED
    BY <2>1, <2>2 DEF Copy
<1>3. todo \in SUBSET Copy
  BY <1>2
<1>4. OlderPass(p) = [p EXCEPT !.todo = todo]
  BY DEF OlderPass, PollPass
<1> HIDE DEF todo
<1> QED
  BY <1>3, <1>4 DEF PollPass

LEMMA PollerStep ==
  ASSUME IInv, NEW p \in Pass, PollStart(p) \/ PollStep(p) \/ PollFault(p)
  PROVE  IInv'
<1> DEFINE q == passes[p]
<1>1. /\ rows \in Seq(Row) /\ snap \in Seq(Status) /\ Len(snap) = Len(rows)
      /\ IsMap(passes, Pass, PollPass) /\ server \in [Addr -> {"down", "open", "hidden"}]
  BY DEF IInv, Typed
<1>2. Kept(rows, rows)
  BY <1>1, SameKept
<1>3. p \in DOMAIN passes => q \in PollPass
  BY <1>1, IsMapLookup
<1>4. CASE PollStart(p)
  <2>1. PICK S \in Listed :
          passes' = Put(passes, p, [todo |-> {CopyOf(i) : i \in S}, cur |-> 0, pc |-> "next"])
    BY <1>4 DEF PollStart
  <2> DEFINE todo == {CopyOf(i) : i \in S}
             v    == [todo |-> todo, cur |-> 0, pc |-> "next"]
  <2>2. todo \in SUBSET Copy
    BY <1>1, CopyType DEF Listed
  <2> HIDE DEF todo
  <2>3. v \in PollPass
    BY <2>2 DEF PollPass
  <2>4. passes' = Put(passes, p, v)
    BY <2>1 DEF todo
  <2> HIDE DEF v
  <2>5. IsMap(passes', Pass, PollPass)
    BY <1>1, <2>3, <2>4, PutType
  <2> QED
    BY <1>1, <1>2, <1>4, <2>5, RequestsAlone DEF PollStart
<1>5. CASE PollQuery(p)
  <2>1. p \in DOMAIN passes /\ q \in PollPass
    BY <1>3, <1>5 DEF PollQuery
  <2>2. PICK c \in q.todo :
          LET up   == Answers(rows[c.id].addr)
              next == IF up THEN "update" ELSE IF GivenUp(c) THEN "offline" ELSE "next"
          IN passes' = [passes EXCEPT ![p] = [todo |-> @.todo \ {c}, pc |-> next,
                                              cur |-> IF next = "next" THEN 0 ELSE c.id]]
    BY <1>5 DEF PollQuery
  <2> DEFINE up   == Answers(rows[c.id].addr)
             next == IF up THEN "update" ELSE IF GivenUp(c) THEN "offline" ELSE "next"
             rest == q.todo \ {c}
             cur  == IF next = "next" THEN 0 ELSE c.id
             v    == [todo |-> rest, pc |-> next, cur |-> cur]
  <2>3. passes' = [passes EXCEPT ![p] = v]
    BY <2>1, <2>2
  <2>4. next \in {"next", "update", "offline", "snap online", "snap offline"}
    OBVIOUS
  <2>5. rest \in SUBSET Copy /\ cur \in Nat
    BY <2>1 DEF PollPass, Copy
  <2> HIDE DEF up, next, rest, cur
  <2>6. v \in PollPass
    BY <2>4, <2>5 DEF PollPass
  <2> HIDE DEF v
  <2>7. IsMap(passes', Pass, PollPass)
    BY <1>1, <2>3, <2>6, EntryType
  <2> QED
    BY <1>1, <1>2, <1>5, <2>7, RequestsAlone DEF PollQuery
<1>6. CASE PollUpdate(p)
  <2> DEFINE v == [q EXCEPT !.pc = "snap online"]
  <2>1. v \in PollPass /\ passes' = [passes EXCEPT ![p] = v]
    BY <1>3, <1>6, PassGoesOn DEF PollUpdate
  <2> HIDE DEF v
  <2>2. IsMap(passes', Pass, PollPass)
    BY <1>1, <2>1, EntryType
  <2>3. rows' \in Seq(Row) /\ DOMAIN rows' = DOMAIN rows /\ Len(rows') = Len(rows) /\ Kept(rows, rows')
    BY <1>1, <1>6, HeardRows DEF PollUpdate
  <2> QED
    BY <1>1, <1>6, <2>2, <2>3, RequestsAlone DEF PollUpdate
<1>7. CASE PollOffline(p)
  <2> DEFINE v == [q EXCEPT !.pc = "snap offline"]
  <2>1. v \in PollPass /\ passes' = [passes EXCEPT ![p] = v]
    BY <1>3, <1>7, PassGoesOn DEF PollOffline
  <2> HIDE DEF v
  <2>2. IsMap(passes', Pass, PollPass)
    BY <1>1, <2>1, EntryType
  <2>3. rows' \in Seq(Row) /\ DOMAIN rows' = DOMAIN rows /\ Len(rows') = Len(rows) /\ Kept(rows, rows')
    BY <1>1, <1>7, OfflineRows DEF PollOffline
  <2> QED
    BY <1>1, <1>7, <2>2, <2>3, RequestsAlone DEF PollOffline
<1>8. CASE PollSnapshot(p) \/ PollFault(p)
  <2> DEFINE v == [q EXCEPT !.pc = "next", !.cur = 0]
             s == IF q.pc = "snap online" THEN "online" ELSE "offline"
  <2>1. v \in PollPass /\ passes' = [passes EXCEPT ![p] = v]
    BY <1>3, <1>8, PassNext DEF PollSnapshot, PollFault
  <2> HIDE DEF v
  <2>2. IsMap(passes', Pass, PollPass)
    BY <1>1, <2>1, EntryType
  <2>3. snap' = snap \/ snap' = [snap EXCEPT ![q.cur] = s]
    BY <1>8 DEF PollSnapshot, PollFault
  <2>4. s \in Status
    BY DEF Status
  <2> HIDE DEF s
  <2>5. snap' \in Seq(Status) /\ Len(snap') = Len(snap)
    BY <1>1, <2>3, <2>4, SnapType
  <2> QED
    BY <1>1, <1>2, <1>8, <2>2, <2>5, RequestsAlone DEF PollSnapshot, PollFault
<1>9. CASE PollEnd(p)
  <2>1. IsMap(passes', Pass, PollPass)
    BY <1>1, <1>9, DeleteType DEF PollEnd
  <2> QED
    BY <1>1, <1>2, <1>9, <2>1, RequestsAlone DEF PollEnd
<1> QED
  BY <1>4, <1>5, <1>6, <1>7, <1>8, <1>9 DEF PollStep

LEMMA TickStep ==
  ASSUME IInv, Tick
  PROVE  IInv'
<1>1. /\ rows \in Seq(Row) /\ snap \in Seq(Status) /\ IsMap(passes, Pass, PollPass)
      /\ server \in [Addr -> {"down", "open", "hidden"}]
  BY DEF IInv, Typed
<1>2. rows' \in Seq(Row) /\ DOMAIN rows' = DOMAIN rows /\ Len(rows') = Len(rows) /\ Kept(rows, rows')
  BY <1>1, OlderRows DEF Tick, Ids
<1>3. passes' = [p \in DOMAIN passes |-> OlderPass(passes[p])]
  BY DEF Tick
<1>4. \A p \in DOMAIN passes : OlderPass(passes[p]) \in PollPass
  BY <1>1, IsMapLookup, OlderPassType
<1>5. IsMap(passes', Pass, PollPass)
  BY <1>1, <1>3, <1>4 DEF IsMap
<1> QED
  BY <1>1, <1>2, <1>5, RequestsAlone DEF Tick

LEMMA TurnStep ==
  ASSUME IInv, NEW a \in Addr, Turn(a)
  PROVE  IInv'
<1>1. /\ rows \in Seq(Row) /\ snap \in Seq(Status) /\ IsMap(passes, Pass, PollPass)
      /\ server \in [Addr -> {"down", "open", "hidden"}]
  BY DEF IInv, Typed
<1>2. server' \in [Addr -> {"down", "open", "hidden"}]
  BY <1>1 DEF Turn
<1> QED
  BY <1>1, <1>2, SameKept, RequestsAlone DEF Turn

-----------------------------------------------------------------------------
(* The theorems. *)

LEMMA IInvInit == Init => IInv
<1> SUFFICES ASSUME Init PROVE IInv
  OBVIOUS
<1>1. rows = <<>> /\ snap = <<>> /\ reqs = EmptyMap /\ passes = EmptyMap /\ regs = 0 /\ handed = {}
      /\ server \in [Addr -> {"down", "open"}]
  BY DEF Init
<1>2. Ids = {} /\ Registering = {}
  BY <1>1, EmptyMapType DEF Ids, Registering
<1>3. Typed
  <2>1. rows \in Seq(Row) /\ snap \in Seq(Status) /\ Len(snap) = Len(rows)
    BY <1>1
  <2>2. IsMap(reqs, Req, Request) /\ IsMap(passes, Pass, PollPass)
    BY <1>1, EmptyMapType
  <2>3. regs \in 0..MaxRegs /\ server \in [Addr -> {"down", "open", "hidden"}]
    BY <1>1, DirectoryAssumption
  <2> QED
    BY <1>1, <2>1, <2>2, <2>3 DEF Typed
<1> QED
  BY <1>1, <1>2, <1>3 DEF IInv, FoundOwn, KeysFresh, KeysAuthenticate

LEMMA IInvNext == IInv /\ [Next]_vars => IInv'
<1> SUFFICES ASSUME IInv, [Next]_vars PROVE IInv'
  OBVIOUS
<1>1. ASSUME NEW r \in Req, NEW a \in Addr, Register(r, a) \/ AdminKey(r, a)
      PROVE  IInv'
  BY <1>1, RegistrationBegins DEF Register, AdminKey
<1>2. ASSUME NEW r \in Req, RequestStep(r) \/ Heartbeat(r) \/ Visit(r) \/ RequestFault(r)
      PROVE  IInv'
  BY <1>2, QueriedStep, FindStep, InsertStep, UpdateStep, RowStep, HeartbeatStep, VisitStep
     DEF RequestStep
<1>3. ASSUME NEW p \in Pass, PollStart(p) \/ PollStep(p) \/ PollFault(p)
      PROVE  IInv'
  BY <1>3, PollerStep
<1>4. CASE Tick
  BY <1>4, TickStep
<1>5. ASSUME NEW a \in Addr, Turn(a)
      PROVE  IInv'
  BY <1>5, TurnStep
<1>6. CASE UNCHANGED vars
  BY <1>6 DEF vars, IInv, Typed, FoundOwn, RowFound, KeysFresh, KeysAuthenticate, Registering,
              RowsAt, Ids
<1> QED
  BY <1>1, <1>2, <1>3, <1>4, <1>5, <1>6 DEF Next

THEOREM IInvAlways == Spec => []IInv
BY IInvInit, IInvNext, PTL DEF Spec

\* Every key that /register answered is, in every state, the key of a row of the
\* address it was answered for: a server's heartbeats are never orphaned by its
\* own second registration, by another request or by the poller.
THEOREM KeysCorrect == Spec => []KeysAuthenticate
<1>1. IInv => KeysAuthenticate
  BY DEF IInv
<1> QED
  BY <1>1, IInvAlways, PTL

\* The directory's types hold in every state, and no two rows share a key.
THEOREM DirectoryTypeCorrect == Spec => []TypeOK
<1>1. IInv => TypeOK
  BY DEF IInv, Typed, KeysFresh, TypeOK, Status, Request
<1> QED
  BY <1>1, IInvAlways, PTL

\* No step deletes a row, renames its address or changes its key.
THEOREM KeysStay == Spec => [][Kept(rows, rows')]_vars
<1>1. ASSUME IInv, Next PROVE Kept(rows, rows')
  <2>1. rows \in Seq(Row)
    BY <1>1 DEF IInv, Typed
  <2>2. CASE UNCHANGED rows
    BY <2>1, <2>2, SameKept
  <2>3. ASSUME NEW r \in Req, RegisterInsert(r) PROVE Kept(rows, rows')
    <3> DEFINE q == reqs[r]
               row == [addr |-> q.addr, key |-> q.key, online |-> q.online, age |-> 0]
    <3>1. q \in Registration
      BY <1>1, <2>3, RegisteringType DEF RegisterInsert
    <3>2. row \in Row
      BY <3>1, DirectoryAssumption DEF Registration, Row, MaxAge
    <3>3. rows' = Append(rows, row)
      BY <2>3 DEF RegisterInsert
    <3> HIDE DEF row
    <3> QED
      BY <2>1, <3>2, <3>3, InsertedRow
  <2>4. ASSUME NEW r \in Req, RegisterUpdate(r) \/ RowUpdate(r) PROVE Kept(rows, rows')
    <3>1. r \in DOMAIN reqs /\ reqs[r] \in Request
      BY <1>1, <2>4, IsMapLookup DEF IInv, Typed, RegisterUpdate, RowUpdate, Registering, RowRequests
    <3>2. reqs[r].online \in BOOLEAN
      BY <3>1 DEF Request, Registration, RowRequest
    <3>3. rows' = [rows EXCEPT ![reqs[r].id] = HeardFrom(@, reqs[r].online)]
      BY <2>4 DEF RegisterUpdate, RowUpdate
    <3> QED
      BY <2>1, <3>2, <3>3, HeardRows
  <2>5. ASSUME NEW p \in Pass, PollUpdate(p) \/ PollOffline(p) PROVE Kept(rows, rows')
    <3>1. CASE PollUpdate(p)
      BY <2>1, <3>1, HeardRows DEF PollUpdate
    <3>2. CASE PollOffline(p)
      BY <2>1, <3>2, OfflineRows DEF PollOffline
    <3> QED
      BY <2>5, <3>1, <3>2
  <2>6. CASE Tick
    BY <2>1, <2>6, OlderRows DEF Tick, Ids
  <2> QED
    BY <1>1, <2>2, <2>3, <2>4, <2>5, <2>6
       DEF Next, Register, AdminKey, BeginRegistration, RequestStep, RegisterQueried,
           FindByIpAndPort, Visited, RowSnapshot, Heartbeat, Visit, BeginOn, RequestFault,
           PollStart, PollStep, PollQuery, PollSnapshot, PollEnd, PollFault, Turn
<1>2. IInv /\ [Next]_vars => [Kept(rows, rows')]_vars
  BY <1>1
<1> QED
  BY <1>2, IInvAlways, PTL DEF Spec

-----------------------------------------------------------------------------
(* The history: arithmetic *)

\* A bounded set of naturals has a greatest element.
LEMMA MaxOf ==
  ASSUME NEW S, S \subseteq Nat, S # {}, NEW b, b \in Nat, \A x \in S : x <= b
  PROVE  Max(S) \in S /\ \A x \in S : Max(S) >= x
<1> DEFINE T == {b - x : x \in S}
<1>1. T \subseteq Nat /\ T # {}
  <2>1. \A x \in S : x \in Nat /\ x <= b
    OBVIOUS
  <2>2. \A x \in S : b - x \in Nat
    BY <2>1
  <2>3. PICK x : x \in S
    OBVIOUS
  <2> QED
    BY <2>2, <2>3
<1> HIDE DEF T
<1>2. PICK n \in T : \A m \in T : n <= m
  BY <1>1, LeastNat
<1> USE DEF T
<1>3. PICK x \in S : n = b - x
  BY <1>2
<1>4. \A y \in S : x >= y
  <2> SUFFICES ASSUME NEW y \in S
               PROVE  x >= y
    OBVIOUS
  <2>1. b - x <= b - y
    BY <1>2, <1>3
  <2>2. x \in Nat /\ y \in Nat
    OBVIOUS
  <2> QED
    BY <2>1, <2>2
<1> HIDE DEF T
<1>5. \E y \in S : \A z \in S : y >= z
  BY <1>4
<1> QED
  BY <1>5 DEF Max

\* A time of the range is in one of the buckets.
LEMMA InABucket ==
  ASSUME NEW d, d \in Nat, NEW B, B \in Nat \ {0}, NEW N, N \in Nat, d <= N * B
  PROVE  \E i \in 0..N : i * B <= d /\ d < i * B + B
<1> DEFINE S == {n \in Nat : d < n * B}
<1>1. N + 1 \in S
  <2>1. (N + 1) * B = N * B + B /\ N * B \in Nat
    OBVIOUS
  <2> QED
    BY <2>1
<1>2. S \subseteq Nat /\ S # {}
  BY <1>1
<1> HIDE DEF S
<1>3. PICK n \in S : \A m \in S : n <= m
  BY <1>2, LeastNat
<1> USE DEF S
<1>4. n \in Nat /\ n # 0 /\ n <= N + 1 /\ d < n * B
  <2>1. 0 * B = 0
    OBVIOUS
  <2> QED
    BY <1>1, <1>3, <2>1
<1>5. n - 1 \in 0..N /\ ~(d < (n - 1) * B)
  <2>1. n - 1 \in Nat /\ n - 1 \notin S
    BY <1>3, <1>4
  <2> QED
    BY <1>4, <2>1
<1>6. (n - 1) * B + B = n * B /\ (n - 1) * B \in Int
  BY <1>4
<1> DEFINE k == n - 1
           p == k * B
<1>7. k \in 0..N /\ p \in Int /\ p <= d /\ d < p + B
  BY <1>4, <1>5, <1>6
<1> HIDE DEF k
<1> QED
  BY <1>7

\* A bucket before the last ends when the last begins.
LEMMA BeforeTheLast ==
  ASSUME NEW B, B \in Nat, NEW N, N \in Nat, NEW i, i \in Nat, i < N
  PROVE  i * B + B <= N * B
<1> DEFINE k == N - (i + 1)
<1>1. k \in Nat /\ N = i + 1 + k
  OBVIOUS
<1> HIDE DEF k
<1>2. k * B \in Nat
  BY <1>1
<1>3. N * B = i * B + B + k * B
  BY <1>1
<1>4. i * B \in Nat
  OBVIOUS
<1> QED
  BY <1>2, <1>3, <1>4

LEMMA Numbers ==
  /\ MaxPlayers \in Nat /\ Bucket \in Nat \ {0} /\ Buckets \in Nat \ {0} /\ Gap \in Nat
  /\ Lead \in Nat /\ Throttle \in Nat /\ MaxTime \in Nat /\ MaxSnaps \in Nat
BY HistoryAssumption
-----------------------------------------------------------------------------
(* The table *)

\* A snapshot as the table has it.
Good(s) == s \in Snapshot /\ s.at <= now /\ (s.online \/ s.count = 0)

\* The inductive invariant.
Recorded ==
  /\ HistoryTypeOK
  /\ \A s \in Rows : Good(s)
  /\ \A w \in DOMAIN writers : writers[w].at <= now
  /\ IsFiniteSet(DOMAIN writers)
  /\ Len(snaps) + Cardinality(DOMAIN writers) <= MaxSnaps

LEMMA RecordedInit == ASSUME HistoryInit PROVE Recorded
<1>1. now = 0 /\ snaps = <<>> /\ DOMAIN writers = {}
  BY DEF HistoryInit, EmptyMap
<1>2. Rows = {} /\ Len(snaps) = 0 /\ Cardinality(DOMAIN writers) = 0 /\ IsFiniteSet(DOMAIN writers)
  BY <1>1, FS_EmptySet DEF Rows
<1>3. IsMap(writers, Writer, Recording)
  BY EmptyMapType DEF HistoryInit
<1>4. HistoryTypeOK
  BY <1>1, <1>2, <1>3, Numbers DEF HistoryTypeOK, HistoryInit, Times
<1> QED
  BY <1>1, <1>2, <1>4, Numbers DEF Recorded

\* One writer more or less.
LEMMA OneMore ==
  ASSUME NEW W, IsFiniteSet(W), NEW w
  PROVE  /\ w \notin W => /\ IsFiniteSet(W \cup {w})
                          /\ Cardinality(W \cup {w}) = Cardinality(W) + 1
         /\ w \in W => /\ IsFiniteSet(W \ {w})
                       /\ Cardinality(W \ {w}) = Cardinality(W) - 1
BY FS_AddElement, FS_RemoveElement

LEMMA RecordStep ==
  ASSUME Recorded, NEW w, w \in Writer, NEW s, s \in State, Record(w, s)
  PROVE  Recorded'
<1> DEFINE q == [pc |-> "check", at |-> now, state |-> s]
<1>1. /\ w \notin DOMAIN writers /\ Len(snaps) + Cardinality(DOMAIN writers) < MaxSnaps
      /\ live' = RowAfter(s) /\ writers' = Put(writers, w, q)
      /\ UNCHANGED <<now, snaps>>
  BY DEF Record
<1>2. now \in Times /\ live \in [online: BOOLEAN, count: 0..MaxPlayers]
      /\ IsMap(writers, Writer, Recording) /\ snaps \in Seq(Snapshot) /\ Len(snaps) <= MaxSnaps
  BY DEF Recorded, HistoryTypeOK
<1>3. q \in Recording
  BY <1>2 DEF Recording
<1>4. q.at = now
  OBVIOUS
<1> HIDE DEF q
<1>5. IsMap(writers', Writer, Recording)
  BY <1>1, <1>2, <1>3, PutType
<1>6. DOMAIN writers' = DOMAIN writers \cup {w} /\ writers'[w] = q
      /\ \A x \in DOMAIN writers : x # w => writers'[x] = writers[x]
  BY <1>1 DEF Put
<1>7. live' \in [online: BOOLEAN, count: 0..MaxPlayers]
  <2>1. s \in [online: BOOLEAN, count: 0..MaxPlayers]
    BY DEF State
  <2>2. [live EXCEPT !.online = FALSE] \in [online: BOOLEAN, count: 0..MaxPlayers]
    BY <1>2
  <2> QED
    BY <1>1, <2>1, <2>2 DEF RowAfter
<1>8. Rows' = Rows
  BY <1>1 DEF Rows
<1>9. HistoryTypeOK'
  BY <1>1, <1>2, <1>5, <1>7, <1>8 DEF HistoryTypeOK, Recorded
<1>10. IsFiniteSet(DOMAIN writers') /\ Cardinality(DOMAIN writers') = Cardinality(DOMAIN writers) + 1
  BY <1>1, <1>6, OneMore DEF Recorded
<1>11. Len(snaps') + Cardinality(DOMAIN writers') <= MaxSnaps
  <2>1. Cardinality(DOMAIN writers) \in Nat /\ Len(snaps) \in Nat
    BY <1>2, FS_CardinalityType DEF Recorded
  <2> QED
    BY <1>1, <1>10, <2>1, Numbers
<1>12. \A x \in DOMAIN writers' : writers'[x].at <= now'
  <2>1. now <= now
    BY <1>2 DEF Times
  <2> QED
    BY <1>1, <1>4, <1>6, <2>1 DEF Recorded
<1>13. \A t \in Rows' : Good(t)'
  BY <1>1, <1>8 DEF Recorded, Good
<1> QED
  BY <1>9, <1>10, <1>11, <1>12, <1>13 DEF Recorded

LEMMA CheckStep ==
  ASSUME Recorded, NEW w, w \in Writer, Check(w) \/ Fault(w)
  PROVE  Recorded'
<1>1. w \in DOMAIN writers /\ UNCHANGED <<now, live, snaps>>
  BY DEF Check, Fault
<1>2. IsMap(writers, Writer, Recording) /\ IsFiniteSet(DOMAIN writers)
      /\ Cardinality(DOMAIN writers) \in Nat /\ Len(snaps) \in Nat
  BY FS_CardinalityType DEF Recorded, HistoryTypeOK
<1>3. Rows' = Rows
  BY <1>1 DEF Rows
<1>4. writers[w] \in Recording
  BY <1>1, <1>2, IsMapLookup
<1>5. /\ IsMap(writers', Writer, Recording)
      /\ \A x \in DOMAIN writers' : x \in DOMAIN writers /\ writers'[x].at = writers[x].at
      /\ IsFiniteSet(DOMAIN writers')
      /\ Cardinality(DOMAIN writers') <= Cardinality(DOMAIN writers)
  <2>1. CASE writers' = Delete(writers, w)
    <3>1. IsMap(writers', Writer, Recording)
      BY <1>2, <2>1, DeleteType
    <3>2. DOMAIN writers' = DOMAIN writers \ {w}
          /\ \A x \in DOMAIN writers : x # w => writers'[x] = writers[x]
      BY <2>1, DeleteLookup
    <3>3. IsFiniteSet(DOMAIN writers \ {w})
          /\ Cardinality(DOMAIN writers \ {w}) = Cardinality(DOMAIN writers) - 1
      BY <1>1, <1>2, OneMore
    <3> QED
      BY <1>2, <3>1, <3>2, <3>3
  <2>2. CASE writers' = [writers EXCEPT ![w].pc = "insert"]
    <3> DEFINE q == [writers[w] EXCEPT !.pc = "insert"]
    <3>1. q \in Recording /\ q.at = writers[w].at
      BY <1>4 DEF Recording
    <3>2. writers' = [writers EXCEPT ![w] = q]
      BY <2>2
    <3> HIDE DEF q
    <3>3. IsMap(writers', Writer, Recording) /\ DOMAIN writers' = DOMAIN writers
          /\ writers'[w] = q
      BY <1>1, <1>2, <3>1, <3>2, ChangeOne
    <3>4. \A x \in DOMAIN writers : x # w => writers'[x] = writers[x]
      BY <3>2
    <3> QED
      BY <1>2, <3>1, <3>3, <3>4
  <2> QED
    BY <2>1, <2>2 DEF Check, Fault
<1>6. HistoryTypeOK'
  BY <1>1, <1>3, <1>5 DEF Recorded, HistoryTypeOK
<1>7. Len(snaps') + Cardinality(DOMAIN writers') <= MaxSnaps
  <2>1. Cardinality(DOMAIN writers') \in Nat
    BY <1>5, FS_CardinalityType
  <2> QED
    BY <1>1, <1>2, <1>5, <2>1, Numbers DEF Recorded
<1>8. \A t \in Rows' : Good(t)'
  BY <1>1, <1>3 DEF Recorded, Good
<1> QED
  BY <1>1, <1>5, <1>6, <1>7, <1>8 DEF Recorded

LEMMA HistoryInsertStep ==
  ASSUME Recorded, NEW w, w \in Writer, Insert(w)
  PROVE  Recorded'
<1> DEFINE q == writers[w]
           s == [at |-> q.at, online |-> q.state.online, count |-> q.state.count]
<1>1. /\ w \in DOMAIN writers /\ snaps' = Append(snaps, s) /\ writers' = Delete(writers, w)
      /\ UNCHANGED <<now, live>>
  BY DEF Insert
<1>2. IsMap(writers, Writer, Recording) /\ IsFiniteSet(DOMAIN writers)
      /\ Cardinality(DOMAIN writers) \in Nat /\ Len(snaps) \in Nat /\ snaps \in Seq(Snapshot)
  BY FS_CardinalityType DEF Recorded, HistoryTypeOK
<1>3. q \in Recording /\ q.at <= now
  BY <1>1, <1>2, IsMapLookup DEF Recorded
<1>4. Good(s)
  BY <1>3 DEF Good, Recording, State, Snapshot
<1> HIDE DEF q, s
<1>5. s \in Snapshot
  BY <1>4 DEF Good
<1>6. /\ snaps' \in Seq(Snapshot) /\ Len(snaps') = Len(snaps) + 1
      /\ \A i \in DOMAIN snaps' : snaps'[i] = s \/ (i \in DOMAIN snaps /\ snaps'[i] = snaps[i])
  BY <1>1, <1>2, <1>5
<1>7. \A t \in Rows' : t = s \/ t \in Rows
  BY <1>6 DEF Rows
<1>8. \A t \in Rows' : Good(t)'
  BY <1>1, <1>4, <1>7 DEF Recorded, Good
<1>9. DOMAIN writers' = DOMAIN writers \ {w}
      /\ \A x \in DOMAIN writers : x # w => writers'[x] = writers[x]
  BY <1>1, DeleteLookup
<1>10. IsFiniteSet(DOMAIN writers') /\ Cardinality(DOMAIN writers') = Cardinality(DOMAIN writers) - 1
  BY <1>1, <1>2, <1>9, OneMore
<1>11. Len(snaps') + Cardinality(DOMAIN writers') <= MaxSnaps
  BY <1>2, <1>6, <1>10, Numbers DEF Recorded
<1>12. IsMap(writers', Writer, Recording)
  BY <1>1, <1>2, DeleteType
<1>13. HistoryTypeOK'
  <2>1. Len(snaps') <= MaxSnaps
    <3>1. Cardinality(DOMAIN writers') \in Nat /\ Len(snaps') \in Nat
      BY <1>6, <1>10, FS_CardinalityType
    <3> QED
      BY <1>11, <3>1, Numbers
  <2>2. \A t \in Rows' : t.at <= now'
    BY <1>8 DEF Good
  <2> QED
    BY <1>1, <1>6, <1>12, <2>1, <2>2 DEF Recorded, HistoryTypeOK
<1>14. \A x \in DOMAIN writers' : writers'[x].at <= now'
  BY <1>1, <1>9 DEF Recorded
<1> QED
  BY <1>8, <1>10, <1>11, <1>13, <1>14 DEF Recorded

LEMMA HistoryTickStep ==
  ASSUME Recorded, HistoryTick
  PROVE  Recorded'
<1>1. now < MaxTime /\ now' = now + 1 /\ UNCHANGED <<live, snaps, writers>>
  BY DEF HistoryTick
<1>2. now \in Nat /\ now' \in Times
  BY <1>1, Numbers DEF Recorded, HistoryTypeOK, Times
<1>3. Rows' = Rows
  BY <1>1 DEF Rows
<1>4. \A n \in Nat : n <= now => n <= now'
  BY <1>1, <1>2
<1>5. \A s \in Rows : s.at \in Nat /\ s.at <= now
  BY DEF Recorded, Good, Snapshot, Times
<1>6. \A w \in DOMAIN writers : writers[w].at \in Nat /\ writers[w].at <= now
  <2> SUFFICES ASSUME NEW w \in DOMAIN writers
               PROVE  writers[w].at \in Nat /\ writers[w].at <= now
    OBVIOUS
  <2>1. writers[w] \in Recording
    BY IsMapLookup DEF Recorded, HistoryTypeOK
  <2> QED
    BY <2>1 DEF Recorded, Recording, Times
<1>7. \A s \in Rows' : Good(s)'
  BY <1>3, <1>4, <1>5 DEF Recorded, Good
<1>8. HistoryTypeOK'
  BY <1>1, <1>2, <1>3, <1>7 DEF Recorded, HistoryTypeOK, Good
<1>9. \A w \in DOMAIN writers' : writers'[w].at <= now'
  BY <1>1, <1>4, <1>6
<1> QED
  BY <1>1, <1>7, <1>8, <1>9 DEF Recorded

LEMMA RecordedStep ==
  ASSUME Recorded, [HistoryNext]_historyVars
  PROVE  Recorded'
<1>1. CASE UNCHANGED historyVars
  BY <1>1 DEF historyVars, Recorded, HistoryTypeOK, Rows, Good
<1> QED
  BY <1>1, RecordStep, CheckStep, HistoryInsertStep, HistoryTickStep DEF HistoryNext

-----------------------------------------------------------------------------
(* The points of a bucket *)

\* What a point of the chart is made of: a snapshot of the range, or the live
\* row for a server without any.
Shown(s) ==
  /\ s.at \in Nat /\ s.at <= now /\ s.count \in 0..MaxPlayers
  /\ \/ s \in InRange /\ (s.online \/ s.count = 0)
     \/ s.at = now /\ s.count = live.count /\ (s.online <=> live.online)

LEMMA Types ==
  ASSUME Recorded
  PROVE  /\ now \in Nat /\ live.count \in 0..MaxPlayers /\ live.online \in BOOLEAN
         /\ Start \in Int /\ BucketTime(Buckets) = now
         /\ \A i \in Int : BucketTime(i) \in Int /\ BucketTime(i) = BucketTime(i - 1) + Bucket
<1>1. now \in Nat /\ live.count \in 0..MaxPlayers /\ live.online \in BOOLEAN
  BY Numbers DEF Recorded, HistoryTypeOK, Times
<1>2. Bucket \in Nat /\ Buckets \in Nat
  BY Numbers
<1>3. Bucket * Buckets \in Nat /\ Bucket * Buckets = Buckets * Bucket
  BY <1>2
<1>4. Start \in Int /\ BucketTime(Buckets) = now
  BY <1>1, <1>3 DEF Start, BucketTime
<1>5. ASSUME NEW i \in Int
      PROVE  BucketTime(i) \in Int /\ BucketTime(i) = BucketTime(i - 1) + Bucket
  <2>1. i * Bucket \in Int /\ (i - 1) * Bucket = i * Bucket - Bucket
    BY <1>2
  <2> QED
    BY <1>2, <1>4, <2>1 DEF BucketTime
<1> QED
  BY <1>1, <1>4, <1>5

LEMMA RawShown ==
  ASSUME Recorded
  PROVE  Raw # {} /\ \A s \in Raw : Shown(s)
<1>1. CASE InRange # {}
  <2>1. \A s \in InRange : Good(s)
    BY DEF Recorded, InRange
  <2>2. \A s \in InRange : s.at \in Nat /\ s.at <= now /\ s.count \in 0..MaxPlayers
                           /\ (s.online \/ s.count = 0)
    BY <2>1, Numbers DEF Good, Snapshot, Times
  <2> QED
    BY <1>1, <2>2 DEF Raw, Shown
<1>2. CASE InRange = {}
  <2> DEFINE s == [at |-> now, online |-> live.online, count |-> live.count]
  <2>1. Raw = {s}
    BY <1>2 DEF Raw
  <2>2. s.at = now /\ s.count = live.count /\ s.online = live.online
    OBVIOUS
  <2> HIDE DEF s
  <2>3. now \in Nat /\ live.count \in 0..MaxPlayers
    BY Types
  <2>4. Shown(s)
    BY <2>2, <2>3 DEF Shown
  <2> QED
    BY <2>1, <2>4
<1> QED
  BY <1>1, <1>2

\* The latest of a bucket is one of its points.
LEMMA LastIn ==
  ASSUME Recorded, NEW P, P \subseteq Raw, P # {}
  PROVE  Last(P) \in P
<1> DEFINE T == {s.at : s \in P}
<1>1. \A s \in P : s.at \in Nat /\ s.at <= now
  BY RawShown DEF Shown
<1>2. T \subseteq Nat /\ T # {} /\ \A t \in T : t <= now
  BY <1>1
<1>3. now \in Nat
  BY Types
<1> HIDE DEF T
<1>4. Max(T) \in T /\ \A t \in T : Max(T) >= t
  BY <1>2, <1>3, MaxOf
<1> USE DEF T
<1>5. PICK s \in P : s.at = Max(T)
  BY <1>4
<1>6. \A t \in P : t.at <= s.at
  <2> SUFFICES ASSUME NEW t \in P
               PROVE  t.at <= s.at
    OBVIOUS
  <2>1. t.at \in T
    OBVIOUS
  <2>2. s.at >= t.at
    BY <1>4, <1>5, <2>1
  <2> QED
    BY <1>1, <2>2
<1>7. s \in LatestOf(P)
  BY <1>6 DEF LatestOf
<1>8. Last(P) \in LatestOf(P)
  BY <1>7 DEF Last
<1> QED
  BY <1>8 DEF LatestOf

LEMMA PeakIs ==
  ASSUME Recorded, NEW P, P \subseteq Raw, P # {}
  PROVE  /\ Peak(P) \in 0..MaxPlayers
         /\ \E s \in P : s.count = Peak(P)
         /\ \A s \in P : Peak(P) >= s.count
<1> DEFINE T == {s.count : s \in P}
<1>1. \A s \in P : s.count \in 0..MaxPlayers
  BY RawShown DEF Shown
<1>2. T \subseteq Nat /\ T # {} /\ (\A t \in T : t <= MaxPlayers) /\ MaxPlayers \in Nat
  BY <1>1, Numbers
<1>3. Peak(P) = Max(T)
  BY DEF Peak
<1> HIDE DEF T
<1>4. Max(T) \in T /\ \A t \in T : Max(T) >= t
  BY <1>2, MaxOf
<1> USE DEF T
<1>5. \A s \in P : s.count \in T
  OBVIOUS
<1> QED
  BY <1>1, <1>3, <1>4, <1>5

-----------------------------------------------------------------------------
(* What the loop over the buckets remembers *)

First == [count |-> 0, at |-> -1, online |-> live.online]

Remembers(g, N) ==
  g = [i \in -1..N |-> IF i = -1 THEN First ELSE Seen(PointsIn(i), g[i - 1])]

LEMMA RemembersExists ==
  ASSUME NEW N, N \in Nat
  PROVE  \E g : Remembers(g, N)
<1> DEFINE Bad == {n \in Nat : ~ \E g : Remembers(g, n - 1)}
<1>1. ASSUME Bad # {}
      PROVE  FALSE
  <2> Bad \subseteq Nat
    OBVIOUS
  <2> HIDE DEF Bad
  <2>1. PICK n \in Bad : \A m \in Bad : n <= m
    BY <1>1, LeastNat
  <2> USE DEF Bad
  <2> DEFINE k == n - 1
  <2>2. CASE n = 0
    <3> DEFINE h == [i \in -1..-1 |-> First]
    <3>1. Remembers(h, -1)
      BY DEF Remembers
    <3> HIDE DEF h
    <3> QED
      BY <2>1, <2>2, <3>1
  <2>3. CASE n # 0
    <3>1. k \in Nat /\ k \notin Bad /\ n \in Nat
      BY <2>1, <2>3
    <3>2. PICK f : Remembers(f, k - 1)
      BY <3>1
    <3> HIDE DEF k
    <3> DEFINE last == Seen(PointsIn(k), f[k - 1])
               h == [i \in -1..k |-> IF i = k THEN last ELSE f[i]]
               e == [i \in -1..k |-> IF i = -1 THEN First ELSE Seen(PointsIn(i), h[i - 1])]
    <3>3. ASSUME NEW i \in -1..k
          PROVE  h[i] = e[i]
      <4>1. CASE i = k
        <5>1. k - 1 \in -1..k /\ k - 1 # k /\ k # -1
          BY <3>1
        <5>2. h[k - 1] = f[k - 1] /\ h[k] = last
          BY <3>1, <5>1
        <5> HIDE DEF h
        <5>3. e[k] = Seen(PointsIn(k), h[k - 1])
          BY <4>1, <5>1
        <5> QED
          BY <4>1, <5>2, <5>3
      <4>2. CASE i # k
        <5>1. i \in -1..(k - 1) /\ (i # -1 => i - 1 \in -1..k /\ i - 1 # k)
          BY <3>1, <4>2
        <5>2. h[i] = f[i] /\ (i # -1 => h[i - 1] = f[i - 1])
          BY <4>2, <5>1
        <5>3. f[i] = IF i = -1 THEN First ELSE Seen(PointsIn(i), f[i - 1])
          BY <3>2, <5>1 DEF Remembers
        <5> HIDE DEF h
        <5>4. e[i] = IF i = -1 THEN First ELSE Seen(PointsIn(i), h[i - 1])
          OBVIOUS
        <5> QED
          BY <5>2, <5>3, <5>4
      <4> QED
        BY <4>1, <4>2
    <3>4. h = [i \in -1..k |-> h[i]] /\ e = [i \in -1..k |-> e[i]]
      OBVIOUS
    <3> HIDE DEF h
    <3>5. Remembers(h, k)
      <4> HIDE DEF e
      <4>1. h = e
        BY <3>3, <3>4
      <4> QED
        BY <4>1 DEF Remembers, e
    <3> QED
      BY <2>1, <3>5 DEF k
  <2> QED
    BY <2>2, <2>3
<1>2. N + 1 \in Nat /\ N + 1 \notin Bad
  BY <1>1
<1>3. (N + 1) - 1 = N
  OBVIOUS
<1> QED
  BY <1>2, <1>3

LEMMA KnownIs ==
  /\ Known[-1] = First
  /\ \A i \in 0..Buckets : Known[i] = Seen(PointsIn(i), Known[i - 1])
<1>1. \E g : Remembers(g, Buckets)
  BY Numbers, RemembersExists
<1>2. Known = CHOOSE g : Remembers(g, Buckets)
  BY DEF Known, Remembers, First
<1>3. Remembers(Known, Buckets)
  BY <1>1, <1>2
<1>4. Known = [i \in -1..Buckets |-> IF i = -1 THEN First ELSE Seen(PointsIn(i), Known[i - 1])]
  BY <1>3 DEF Remembers
<1> DEFINE k == Known
<1>5. k = [i \in -1..Buckets |-> IF i = -1 THEN First ELSE Seen(PointsIn(i), k[i - 1])]
  BY <1>4
<1> HIDE DEF k
<1>6. k[-1] = First /\ \A i \in 0..Buckets : k[i] = Seen(PointsIn(i), k[i - 1])
  <2>1. -1 \in -1..Buckets /\ \A i \in 0..Buckets : i \in -1..Buckets /\ i # -1
    BY Numbers
  <2> QED
    BY <1>5, <2>1
<1> QED
  BY <1>6 DEF k

\* What is remembered after bucket i was counted before its end, or is nothing.
Counted(i) ==
  \/ Known[i].count = 0 /\ Known[i].at = -1
  \/ \E s \in Raw : /\ s.count = Known[i].count /\ s.at = Known[i].at
                    /\ s.at < BucketTime(i) + Bucket

LEMMA AllCounted ==
  ASSUME Recorded
  PROVE  \A i \in -1..Buckets : Counted(i)
<1> DEFINE Bad == {n \in Nat : n - 1 <= Buckets /\ ~Counted(n - 1)}
<1>1. ASSUME Bad # {}
      PROVE  FALSE
  <2> Bad \subseteq Nat
    OBVIOUS
  <2> HIDE DEF Bad
  <2>1. PICK n \in Bad : \A m \in Bad : n <= m
    BY <1>1, LeastNat
  <2> USE DEF Bad
  <2>2. CASE n = 0
    <3>1. Counted(-1)
      BY KnownIs DEF Counted, First
    <3> QED
      BY <2>1, <2>2, <3>1
  <2>3. CASE n # 0
    <3> DEFINE i == n - 1
    <3>1. i \in 0..Buckets /\ i - 1 \in Int /\ Counted(i - 1) /\ ~Counted(i) /\ i \in Int
      BY <2>1, <2>3, Numbers
    <3> HIDE DEF i
    <3>2. Known[i] = Seen(PointsIn(i), Known[i - 1])
      BY <3>1, KnownIs
    <3>3. BucketTime(i) \in Int /\ BucketTime(i) = BucketTime(i - 1) + Bucket
          /\ BucketTime(i - 1) \in Int /\ Bucket \in Nat
      BY <3>1, Types, Numbers
    <3>4. CASE PointsIn(i) = {}
      <4>1. Known[i] = Known[i - 1]
        BY <3>2, <3>4 DEF Seen
      <4>2. \A s \in Raw : s.at < BucketTime(i - 1) + Bucket => s.at < BucketTime(i) + Bucket
        <5>1. \A s \in Raw : s.at \in Nat
          BY RawShown DEF Shown
        <5> QED
          BY <3>3, <5>1
      <4> QED
        BY <3>1, <4>1, <4>2 DEF Counted
    <3>5. CASE PointsIn(i) # {}
      <4> DEFINE s == Last(PointsIn(i))
      <4>1. s \in PointsIn(i)
        BY <3>5, LastIn DEF PointsIn
      <4>2. Known[i].count = s.count /\ Known[i].at = s.at
        BY <3>2, <3>5 DEF Seen
      <4> QED
        BY <3>1, <4>1, <4>2 DEF Counted, PointsIn
    <3> QED
      BY <3>4, <3>5
  <2> QED
    BY <2>2, <2>3
<1>2. ASSUME NEW i \in -1..Buckets
      PROVE  Counted(i)
  <2>1. i + 1 \in Nat /\ (i + 1) - 1 = i /\ i <= Buckets
    BY Numbers
  <2> QED
    BY <1>1, <2>1
<1> QED
  BY <1>2

-----------------------------------------------------------------------------
(* The points of the chart *)

\* A bucket that has no points, or is before the first snapshot, or too late
\* after the last one, shows what was remembered, or nobody.
LEMMA EmptyShows ==
  ASSUME Recorded, NEW i, i \in 0..Buckets
  PROVE  /\ EmptyPoint(i).peak = EmptyPoint(i).count
         /\ EmptyPoint(i).count \in 0..MaxPlayers
         /\ EmptyPoint(i).count # 0 =>
              /\ EmptyPoint(i).online
              /\ \E s \in Raw : /\ s.count = EmptyPoint(i).count
                                /\ s.at < BucketTime(i)
                                /\ BucketTime(i) - s.at <= Gap
<1> DEFINE known == Known[i - 1]
           p == EmptyPoint(i)
           beforeFirst == \A s \in Raw : BucketTime(i) < s.at - Lead
           staleGap == known.at = -1 \/ BucketTime(i) - known.at > Gap
           count == IF beforeFirst \/ staleGap \/ ~known.online THEN 0 ELSE known.count
           online == ~beforeFirst /\ known.online
<1>1. p = [count |-> count, peak |-> count, online |-> online]
  BY DEF EmptyPoint
<1>2. /\ p.count = IF beforeFirst \/ staleGap \/ ~known.online THEN 0 ELSE known.count
      /\ p.peak = p.count /\ p.online = (~beforeFirst /\ known.online)
  <2> HIDE DEF count, online, p
  <2>1. p.count = count /\ p.peak = count /\ p.online = online
    BY <1>1
  <2> QED
    BY <2>1 DEF count, online
<1>3. Counted(i - 1) /\ i \in Int
  <2>1. i - 1 \in -1..Buckets /\ i \in Int
    BY Numbers
  <2> QED
    BY <2>1, AllCounted
<1>4. BucketTime(i) = BucketTime(i - 1) + Bucket /\ BucketTime(i) \in Int /\ Gap \in Nat
  BY <1>3, Types, Numbers
<1> HIDE DEF known, p, beforeFirst
<1>5. known.count = 0 \/ \E s \in Raw : /\ s.count = known.count /\ s.at = known.at
                                        /\ s.at < BucketTime(i)
  BY <1>3, <1>4 DEF Counted, known
<1>6. \A s \in Raw : s.at \in Nat /\ s.count \in 0..MaxPlayers
  BY RawShown DEF Shown
<1>7. 0 \in 0..MaxPlayers
  BY Numbers
<1>8. CASE p.count = 0
  BY <1>2, <1>7, <1>8 DEF p
<1>9. CASE p.count # 0
  <2>1. ~beforeFirst /\ ~staleGap /\ known.online /\ p.count = known.count /\ p.online
    BY <1>2, <1>9
  <2>2. PICK s \in Raw : s.count = known.count /\ s.at = known.at /\ s.at < BucketTime(i)
    BY <1>5, <1>9, <2>1
  <2>3. BucketTime(i) - s.at <= Gap
    <3>1. ~(BucketTime(i) - known.at > Gap)
      BY <2>1
    <3> QED
      BY <1>4, <1>6, <2>2, <3>1
  <2>4. p.count \in 0..MaxPlayers /\ s.count = p.count
    BY <1>6, <2>1, <2>2
  <2> QED
    BY <1>2, <2>1, <2>2, <2>3, <2>4 DEF p
<1> QED
  BY <1>8, <1>9

\* A bucket with points shows them, in particular the latest and the most.
LEMMA FullShows ==
  ASSUME Recorded, NEW i, i \in 0..Buckets, PointsIn(i) # {}
  PROVE  /\ BucketPoint(i).peak \in 0..MaxPlayers
         /\ \E s \in PointsIn(i) : s.count = BucketPoint(i).peak
         /\ \A s \in PointsIn(i) : BucketPoint(i).peak >= s.count
         /\ \E s \in PointsIn(i) : s.count = BucketPoint(i).count
                                   /\ (s.online => BucketPoint(i).online)
<1> DEFINE P == PointsIn(i)
           p == BucketPoint(i)
<1>1. p = [count |-> Last(P).count, peak |-> Peak(P), online |-> Known[i].online]
  BY DEF BucketPoint
<1>2. p.count = Last(P).count /\ p.peak = Peak(P) /\ p.online = Known[i].online
  BY <1>1
<1>3. P \subseteq Raw /\ P # {}
  BY DEF PointsIn
<1>4. Known[i].online <=> \E s \in P : s.online
  <2>1. Known[i] = Seen(P, Known[i - 1])
    BY KnownIs
  <2>2. Seen(P, Known[i - 1]) = [count |-> Last(P).count, at |-> Last(P).at,
                                 online |-> \E s \in P : s.online]
    BY <1>3 DEF Seen
  <2> QED
    BY <2>1, <2>2
<1> HIDE DEF P, p
<1>5. Last(P) \in P
  BY <1>3, LastIn
<1>6. /\ Peak(P) \in 0..MaxPlayers
      /\ \E s \in P : s.count = Peak(P)
      /\ \A s \in P : Peak(P) >= s.count
  BY <1>3, PeakIs
<1>7. \E s \in P : s.count = p.count /\ (s.online => p.online)
  BY <1>2, <1>4, <1>5
<1>8. /\ p.peak \in 0..MaxPlayers
      /\ \E s \in P : s.count = p.peak
      /\ \A s \in P : p.peak >= s.count
  BY <1>2, <1>6
<1> QED
  BY <1>7, <1>8 DEF P, p

\* Where a number in a point of the chart comes from.
LEMMA PointShows ==
  ASSUME Recorded, NEW i, i \in 0..Buckets
  PROVE  /\ BucketPoint(i).peak \in 0..MaxPlayers
         /\ BucketPoint(i).peak # 0 => \E s \in Raw : s.count = BucketPoint(i).peak
<1>1. CASE PointsIn(i) = {}
  <2>1. BucketPoint(i) = EmptyPoint(i)
    BY <1>1 DEF BucketPoint
  <2> QED
    BY <2>1, EmptyShows
<1>2. CASE PointsIn(i) # {}
  <2>1. PointsIn(i) \subseteq Raw
    BY DEF PointsIn
  <2> QED
    BY <1>2, <2>1, FullShows
<1> QED
  BY <1>1, <1>2

\* The chart without its last point, and the last point.
LEMMA ChartIs ==
  ASSUME Recorded
  PROVE  /\ \A i \in 0..Buckets : i # Buckets => Chart[i] = BucketPoint(i)
         /\ Chart[Buckets].count = IF live.online THEN live.count ELSE 0
         /\ Chart[Buckets].online = live.online
         /\ Chart[Buckets].peak \in {BucketPoint(Buckets).peak, Chart[Buckets].count}
         /\ Chart[Buckets].peak >= BucketPoint(Buckets).peak
         /\ Chart[Buckets].peak \in 0..MaxPlayers
<1> DEFINE p == BucketPoint(Buckets)
           count == IF live.online THEN live.count ELSE 0
           T == {p.peak, count}
<1>1. Buckets \in 0..Buckets
  BY Numbers
<1>2. Chart[Buckets] = LastPoint /\ \A i \in 0..Buckets : i # Buckets => Chart[i] = BucketPoint(i)
  BY <1>1 DEF Chart
<1>3. LastPoint = [count |-> count, peak |-> Max(T), online |-> live.online]
  BY DEF LastPoint
<1>4. LastPoint.count = count /\ LastPoint.peak = Max(T) /\ LastPoint.online = live.online
  BY <1>3
<1>5. p.peak \in 0..MaxPlayers /\ count \in 0..MaxPlayers /\ MaxPlayers \in Nat
  BY <1>1, PointShows, Types, Numbers
<1> HIDE DEF p, count
<1>6. T \subseteq Nat /\ T # {} /\ \A t \in T : t <= MaxPlayers
  BY <1>5
<1>7. Max(T) \in T /\ \A t \in T : Max(T) >= t
  BY <1>5, <1>6, MaxOf
<1>8. Max(T) \in {p.peak, count} /\ Max(T) >= p.peak /\ Max(T) \in 0..MaxPlayers
  BY <1>5, <1>7
<1> QED
  BY <1>2, <1>4, <1>8 DEF p, count

\* The bucket of a snapshot of the range.
LEMMA BucketOf ==
  ASSUME Recorded, NEW s, s \in InRange
  PROVE  \E i \in 0..Buckets : s \in PointsIn(i)
<1>1. Good(s) /\ s.at >= Start /\ s \in Raw
  BY DEF Recorded, InRange, Raw
<1>2. s.at \in Nat /\ s.at <= now /\ now \in Nat /\ Start \in Int
  BY <1>1, Types DEF Good, Snapshot, Times
<1>3. Bucket \in Nat \ {0} /\ Buckets \in Nat
  BY Numbers
<1> DEFINE d == s.at - Start
<1>4. d \in Nat /\ d <= Buckets * Bucket
  <2>1. Buckets * Bucket \in Nat /\ Start = now - Buckets * Bucket
    BY <1>2, <1>3 DEF Start
  <2> QED
    BY <1>1, <1>2, <2>1
<1> HIDE DEF d
<1>5. PICK i \in 0..Buckets : i * Bucket <= d /\ d < i * Bucket + Bucket
  BY <1>3, <1>4, InABucket
<1>6. s.at >= BucketTime(i) /\ s.at < BucketTime(i) + Bucket
  <2>1. i * Bucket \in Int /\ BucketTime(i) = Start + i * Bucket
    BY <1>3 DEF BucketTime
  <2> QED
    BY <1>2, <1>3, <1>5, <2>1 DEF d
<1> QED
  BY <1>1, <1>6 DEF PointsIn

\* A point that is shown before the last bucket is a snapshot of the range.
LEMMA PastIsInRange ==
  ASSUME Recorded, NEW i, i \in 0..(Buckets - 1), NEW s, s \in Raw, s.at < BucketTime(i) + Bucket
  PROVE  s \in InRange
<1>1. i \in Nat /\ i < Buckets /\ Buckets \in Nat /\ Bucket \in Nat
  BY Numbers
<1>2. i * Bucket + Bucket <= Buckets * Bucket
  BY <1>1, BeforeTheLast
<1>3. BucketTime(i) = Start + i * Bucket /\ now = Start + Buckets * Bucket
  BY Types DEF BucketTime
<1>4. BucketTime(i) + Bucket <= now
  <2>1. i * Bucket \in Int /\ Buckets * Bucket \in Int /\ Start \in Int
    BY <1>1, Types
  <2> QED
    BY <1>1, <1>2, <1>3, <2>1
<1>5. s.at \in Nat /\ now \in Nat /\ BucketTime(i) \in Int
  BY <1>1, RawShown, Types DEF Shown
<1>6. s.at # now
  BY <1>1, <1>4, <1>5
<1> QED
  BY <1>6, RawShown DEF Shown

LEMMA ChartShows ==
  ASSUME Recorded, NEW i, i \in 0..Buckets
  PROVE  /\ Chart[i].peak \in 0..MaxPlayers
         /\ Chart[i].peak >= BucketPoint(i).peak
         /\ Chart[i].peak # 0 => \/ Chart[i].peak = live.count
                                 \/ \E s \in InRange : s.count = Chart[i].peak
<1>1. BucketPoint(i).peak \in 0..MaxPlayers
      /\ (BucketPoint(i).peak # 0 => \E s \in Raw : s.count = BucketPoint(i).peak)
  BY PointShows
<1>2. \A s \in Raw : s.count = live.count \/ s \in InRange
  BY RawShown DEF Shown
<1>3. CASE i # Buckets
  <2>1. Chart[i] = BucketPoint(i)
    BY <1>3, ChartIs
  <2> QED
    BY <1>1, <1>2, <2>1
<1>4. CASE i = Buckets
  <2>1. /\ Chart[i].count = IF live.online THEN live.count ELSE 0
        /\ Chart[i].peak \in {BucketPoint(i).peak, Chart[i].count}
        /\ Chart[i].peak >= BucketPoint(i).peak
        /\ Chart[i].peak \in 0..MaxPlayers
    BY <1>4, ChartIs
  <2> QED
    BY <1>1, <1>2, <2>1
<1> QED
  BY <1>3, <1>4

LEMMA PeaksAreKept ==
  ASSUME Recorded
  PROVE  PeaksKept
<1>1. ASSUME NEW s, s \in InRange
      PROVE  \E i \in 0..Buckets : /\ BucketTime(i) <= s.at /\ s.at < BucketTime(i) + Bucket
                                   /\ Chart[i].peak >= s.count
  <2>1. PICK i \in 0..Buckets : s \in PointsIn(i)
    BY <1>1, BucketOf
  <2>2. BucketPoint(i).peak \in 0..MaxPlayers /\ BucketPoint(i).peak >= s.count
    BY <2>1, FullShows
  <2>3. Chart[i].peak \in 0..MaxPlayers /\ Chart[i].peak >= BucketPoint(i).peak
    BY ChartShows
  <2>4. s.at \in Nat /\ s.count \in 0..MaxPlayers /\ BucketTime(i) \in Int
        /\ s.at >= BucketTime(i) /\ s.at < BucketTime(i) + Bucket
    BY <2>1, RawShown, Types, Numbers DEF Shown, PointsIn
  <2>5. BucketTime(i) <= s.at
    BY <2>4
  <2>6. Chart[i].peak >= s.count
    BY <2>2, <2>3, <2>4, Numbers
  <2> QED
    BY <2>4, <2>5, <2>6
<1>2. ASSUME NEW i, i \in 0..Buckets, Chart[i].peak > 0
      PROVE  /\ PeakPlayers >= Chart[i].peak
             /\ Chart[i].peak = live.count \/ \E s \in InRange : s.count = Chart[i].peak
  <2> DEFINE T == {live.count} \cup {Chart[j].peak : j \in 0..Buckets}
  <2>1. \A j \in 0..Buckets : Chart[j].peak \in 0..MaxPlayers
    BY ChartShows
  <2>2. live.count \in 0..MaxPlayers /\ MaxPlayers \in Nat
    BY Types, Numbers
  <2>3. \A t \in T : t \in 0..MaxPlayers
    BY <2>1, <2>2
  <2>4. PeakPlayers = Max(T) /\ Chart[i].peak \in T
    BY <1>2 DEF PeakPlayers
  <2> HIDE DEF T
  <2>5. T \subseteq Nat /\ T # {} /\ \A t \in T : t <= MaxPlayers
    BY <2>2, <2>3, <2>4
  <2>6. \A t \in T : Max(T) >= t
    BY <2>2, <2>5, MaxOf
  <2>7. Chart[i].peak # 0
    BY <1>2, <2>1
  <2> QED
    BY <1>2, <2>4, <2>6, <2>7, ChartShows
<1> QED
  BY <1>1, <1>2 DEF PeaksKept

LEMMA PlayersAreHonest ==
  ASSUME Recorded
  PROVE  PlayersHonest
<1>1. ASSUME NEW i, i \in 0..(Buckets - 1), Chart[i].count > 0
      PROVE  \E s \in InRange : /\ s.count = Chart[i].count
                                /\ s.at < BucketTime(i) + Bucket /\ BucketTime(i) - s.at <= Gap
  <2>1. i \in 0..Buckets /\ i # Buckets /\ i \in Int /\ Bucket \in Nat \ {0} /\ Gap \in Nat
    BY <1>1, Numbers
  <2>2. Chart[i] = BucketPoint(i)
    BY <2>1, ChartIs
  <2>3. BucketTime(i) \in Int
    BY <2>1, Types
  <2>4. \A s \in Raw : s.at \in Nat /\ s.count \in 0..MaxPlayers
    BY RawShown DEF Shown
  <2>5. \E s \in Raw : /\ s.count = Chart[i].count
                       /\ s.at < BucketTime(i) + Bucket /\ BucketTime(i) - s.at <= Gap
    <3>1. CASE PointsIn(i) = {}
      <4>1. Chart[i] = EmptyPoint(i)
        BY <2>2, <3>1 DEF BucketPoint
      <4>2. Chart[i].count # 0
        <5>1. Chart[i].count \in 0..MaxPlayers
          BY <2>1, <4>1, EmptyShows
        <5> QED
          BY <1>1, <5>1
      <4>3. PICK s \in Raw : /\ s.count = Chart[i].count /\ s.at < BucketTime(i)
                             /\ BucketTime(i) - s.at <= Gap
        BY <2>1, <4>1, <4>2, EmptyShows
      <4>4. s.at < BucketTime(i) + Bucket
        BY <2>1, <2>3, <2>4, <4>3
      <4> QED
        BY <4>3, <4>4
    <3>2. CASE PointsIn(i) # {}
      <4>1. PICK s \in PointsIn(i) : s.count = BucketPoint(i).count
        BY <2>1, <3>2, FullShows
      <4>2. s \in Raw /\ s.at >= BucketTime(i) /\ s.at < BucketTime(i) + Bucket
        BY <4>1 DEF PointsIn
      <4>3. BucketTime(i) - s.at <= Gap
        BY <2>1, <2>3, <2>4, <4>2
      <4> QED
        BY <2>2, <4>1, <4>2, <4>3
    <3> QED
      BY <3>1, <3>2
  <2> QED
    BY <1>1, <2>5, PastIsInRange
<1>2. ASSUME NEW i, i \in 0..Buckets, ~Chart[i].online
      PROVE  Chart[i].count = 0
  <2>1. CASE i = Buckets
    BY <1>2, <2>1, ChartIs
  <2>2. CASE i # Buckets /\ PointsIn(i) = {}
    <3>1. Chart[i] = EmptyPoint(i)
      BY <1>2, <2>2, ChartIs DEF BucketPoint
    <3> QED
      BY <1>2, <3>1, EmptyShows
  <2>3. CASE i # Buckets /\ PointsIn(i) # {}
    <3>1. Chart[i] = BucketPoint(i) /\ i \in 0..(Buckets - 1)
      BY <1>2, <2>3, ChartIs, Numbers
    <3>2. PICK s \in PointsIn(i) : s.count = Chart[i].count /\ (s.online => Chart[i].online)
      BY <1>2, <2>3, <3>1, FullShows
    <3>3. ~s.online
      BY <1>2, <3>2
    <3>4. s \in Raw /\ s.at < BucketTime(i) + Bucket
      BY <3>2 DEF PointsIn
    <3>5. s \in InRange
      BY <3>1, <3>4, PastIsInRange
    <3>6. Good(s)
      BY <3>5 DEF Recorded, InRange
    <3> QED
      BY <3>2, <3>3, <3>6 DEF Good
  <2> QED
    BY <2>1, <2>2, <2>3
<1> QED
  BY <1>1, <1>2 DEF PlayersHonest

-----------------------------------------------------------------------------
LEMMA RecordedHolds == HistorySpec => []Recorded
<1>1. HistoryInit => Recorded
  BY RecordedInit
<1>2. Recorded /\ [HistoryNext]_historyVars => Recorded'
  BY RecordedStep
<1> QED
  BY <1>1, <1>2, PTL DEF HistorySpec

\* Every snapshot of the range falls into one bucket of the chart, which shows
\* at least its players, and every peak of the chart was counted or is there
\* now: for any length and number of buckets (getServerHistory).
THEOREM PeaksAlwaysKept == HistorySpec => []PeaksKept
<1>1. Recorded => PeaksKept
  BY PeaksAreKept
<1> QED
  BY <1>1, RecordedHolds, PTL

\* The chart shows players only where a snapshot not older than the gap counted
\* them, and none where it shows the server offline; also for a server without
\* snapshots, whose one point is the live row.
THEOREM PlayersAlwaysHonest == HistorySpec => []PlayersHonest
<1>1. Recorded => PlayersHonest
  BY PlayersAreHonest
<1> QED
  BY <1>1, RecordedHolds, PTL

-----------------------------------------------------------------------------
(* The GameSpy services: answers and writes *)

Frame == UNION {FrameKind[s] : s \in Service}
Reply == Asking \cup {"welcome"}

ConnType == [service : Service, sent : Seq(Frame), got : Nat, done : Nat, open : BOOLEAN,
             ended : BOOLEAN, answers : Seq(Reply), key : Nat, clear : BOOLEAN,
             nick : BOOLEAN, user : BOOLEAN, welcomed : BOOLEAN]

\* The services, and what their clients write.
LEMMA Kinds ==
  /\ Service = {"browser", "master", "gpsp", "gpcm", "chat"}
  /\ FrameKind["browser"] = {"list", "bare", "other", "bad"}
  /\ FrameKind["master"] = {"list"}
  /\ FrameKind["gpsp"] = {"search"}
  /\ FrameKind["gpcm"] = {"login", "stale", "ka", "status", "logout"}
  /\ FrameKind["chat"] = {"CRYPT", "NICK", "USER", "ask", "QUIT"}
BY DEF Service, FrameKind

\* Nothing but the answers, and what they say of the keys, is changed by a write.
Wrote(c, a, d) ==
  /\ d.answers = IF c.ended THEN c.answers ELSE Append(c.answers, a)
  /\ d.clear = (c.clear /\ (c.ended \/ c.key = Held(c)))

SameFrames(c, d) ==
  /\ d.service = c.service /\ d.sent = c.sent /\ d.got = c.got
  /\ d.done = c.done /\ d.open = c.open

SameKey(c, d) == d.key = c.key
SameEnd(c, d) == d.ended = c.ended
SameNames(c, d) == d.nick = c.nick /\ d.user = c.user /\ d.welcomed = c.welcomed
SameAnswers(c, d) == d.answers = c.answers /\ d.clear = c.clear

\* socket.write answers, and changes nothing else.
LEMMA Writing ==
  ASSUME NEW c \in ConnType, NEW a \in Reply
  PROVE  /\ Write(c, a) \in ConnType
         /\ Wrote(c, a, Write(c, a))
         /\ SameFrames(c, Write(c, a)) /\ SameKey(c, Write(c, a)) /\ SameEnd(c, Write(c, a))
         /\ SameNames(c, Write(c, a))
<1> DEFINE e == [c EXCEPT !.answers = Append(@, a)]
           d == [e EXCEPT !.clear = c.clear /\ c.key = Held(c)]
<1>1. Append(c.answers, a) \in Seq(Reply)
  BY DEF ConnType
<1>2. e \in ConnType /\ e.answers = Append(c.answers, a) /\ e.clear = c.clear
      /\ SameFrames(c, e) /\ SameKey(c, e) /\ SameEnd(c, e) /\ SameNames(c, e)
  BY <1>1 DEF ConnType, SameFrames, SameKey, SameEnd, SameNames
<1>3. Write(c, a) = IF c.ended THEN c ELSE d
  BY DEF Write, ConnType
<1> HIDE DEF e
<1>4. (c.clear /\ c.key = Held(c)) \in BOOLEAN
  OBVIOUS
<1>5. d \in ConnType /\ d.answers = e.answers /\ d.clear = (c.clear /\ c.key = Held(c))
      /\ SameFrames(e, d) /\ SameKey(e, d) /\ SameEnd(e, d) /\ SameNames(e, d)
  BY <1>2, <1>4 DEF ConnType, SameFrames, SameKey, SameEnd, SameNames
<1> HIDE DEF d
<1>6. CASE c.ended
  BY <1>3, <1>6 DEF Wrote, SameFrames, SameKey, SameEnd, SameNames, ConnType
<1>7. CASE ~c.ended
  BY <1>2, <1>3, <1>5, <1>7 DEF Wrote, SameFrames, SameKey, SameEnd, SameNames
<1> QED
  BY <1>6, <1>7

\* socket.end() answers nothing.
LEMMA EndingSocket ==
  ASSUME NEW c \in ConnType
  PROVE  /\ EndSocket(c) \in ConnType /\ EndSocket(c).ended
         /\ SameFrames(c, EndSocket(c)) /\ SameKey(c, EndSocket(c))
         /\ SameNames(c, EndSocket(c)) /\ SameAnswers(c, EndSocket(c))
BY DEF EndSocket, ConnType, SameFrames, SameKey, SameNames, SameAnswers

\* What the handler of frame f makes of connection c.
Answered(c, f, d) ==
  LET welcome == f \in {"NICK", "USER"} /\ d.nick /\ d.user /\ ~(c.nick /\ c.user)
      a == IF f \in Asking THEN f ELSE "welcome"
  IN IF c.ended \/ ~(f \in Asking \/ welcome) THEN d.answers = c.answers
     ELSE d.answers = Append(c.answers, a)
Handled(c, f, d) ==
  /\ SameFrames(c, d)
  /\ Answered(c, f, d)
  /\ d.ended = (c.ended \/ f \in {"stale", "logout", "QUIT"})
  /\ d.key = IF f = "CRYPT" THEN c.key + 1 ELSE c.key
  /\ d.nick = (c.nick \/ f = "NICK") /\ d.user = (c.user \/ f = "USER")
  /\ d.welcomed = (d.nick /\ d.user)
  /\ d.clear

\* What a handler makes of a frame, by its kind.
LEMMA HandleIs ==
  ASSUME NEW c \in ConnType, c.service # "master",
         NEW f \in FrameKind[c.service], f # "bad"
  PROVE  /\ f \in Asking \ {"stale", "CRYPT"} => Handle(c, f) = Write(c, f)
         /\ f \in {"other", "status"} => Handle(c, f) = c
         /\ f \in {"logout", "QUIT"} => Handle(c, f) = EndSocket(c)
         /\ f = "stale" => Handle(c, f) = EndSocket(Write(c, f))
         /\ f = "CRYPT" => Handle(c, f) = Rekey(c)
         /\ f = "NICK" => Handle(c, f) = Welcome([c EXCEPT !.nick = TRUE])
         /\ f = "USER" => Handle(c, f) = Welcome([c EXCEPT !.user = TRUE])
         /\ f \in Asking \cup {"other", "status", "logout", "QUIT", "NICK", "USER"}
<1>1. c.service \in {"browser", "gpsp", "gpcm", "chat"}
  BY Kinds DEF ConnType
<1>2. CASE c.service = "browser"
  BY <1>2, Kinds DEF Handle, Browser, Asking
<1>3. CASE c.service = "gpsp"
  BY <1>3, Kinds DEF Handle, Gpsp, Asking
<1>4. CASE c.service = "gpcm"
  BY <1>4, Kinds DEF Handle, Gpcm, Asking
<1>5. CASE c.service = "chat"
  BY <1>5, Kinds DEF Handle, Chat, Asking
<1> QED
  BY <1>1, <1>2, <1>3, <1>4, <1>5

\* chat greets a client when it first has both of its names.
LEMMA Welcoming ==
  ASSUME NEW c \in ConnType, c.clear, ~c.ended => c.key = Held(c),
         c.welcomed = (c.nick /\ c.user),
         NEW e \in ConnType, SameFrames(c, e), SameKey(c, e), SameEnd(c, e), SameAnswers(c, e),
         e.welcomed = c.welcomed, c.nick => e.nick, c.user => e.user
  PROVE  LET d == Welcome(e) IN
         /\ d \in ConnType /\ SameFrames(c, d) /\ SameKey(c, d) /\ SameEnd(c, d)
         /\ d.nick = e.nick /\ d.user = e.user /\ d.welcomed = (e.nick /\ e.user) /\ d.clear
         /\ d.answers = IF c.ended \/ ~(e.nick /\ e.user /\ ~(c.nick /\ c.user)) THEN c.answers
                        ELSE Append(c.answers, "welcome")
<1> DEFINE w == Write(e, "welcome")
           d == [w EXCEPT !.welcomed = TRUE]
<1>1. "welcome" \in Reply
  BY DEF Reply
<1>2. /\ w \in ConnType /\ Wrote(e, "welcome", w)
      /\ SameFrames(e, w) /\ SameKey(e, w) /\ SameEnd(e, w) /\ SameNames(e, w)
  BY <1>1, Writing
<1>3. Welcome(e) = IF e.nick /\ e.user /\ ~e.welcomed THEN d ELSE e
  BY DEF Welcome
<1> HIDE DEF w
<1>4. /\ d \in ConnType /\ d.welcomed = TRUE /\ d.nick = w.nick /\ d.user = w.user
      /\ SameFrames(w, d) /\ SameKey(w, d) /\ SameEnd(w, d) /\ SameAnswers(w, d)
  BY <1>2 DEF ConnType, SameFrames, SameKey, SameEnd, SameAnswers
<1> HIDE DEF d
<1>5. Held(e) = Held(c)
  BY DEF Held, SameAnswers
<1>6. e.nick \in BOOLEAN /\ e.user \in BOOLEAN /\ e.welcomed \in BOOLEAN /\ c.nick \in BOOLEAN
      /\ c.user \in BOOLEAN
  BY DEF ConnType
<1>7. CASE e.nick /\ e.user /\ ~e.welcomed
  <2>1. Welcome(e) = d /\ ~(c.nick /\ c.user)
    BY <1>3, <1>7
  <2>2. SameFrames(c, d) /\ SameKey(c, d) /\ SameEnd(c, d)
    BY <1>2, <1>4 DEF SameFrames, SameKey, SameEnd
  <2>3. d.nick = e.nick /\ d.user = e.user /\ d.welcomed = (e.nick /\ e.user)
    BY <1>2, <1>4, <1>7 DEF SameNames
  <2>4. d.clear /\ d.answers = IF c.ended THEN c.answers ELSE Append(c.answers, "welcome")
    BY <1>2, <1>4, <1>5 DEF Wrote, SameAnswers, SameEnd, SameKey
  <2> QED
    BY <1>4, <1>7, <2>1, <2>2, <2>3, <2>4
<1>8. CASE ~(e.nick /\ e.user /\ ~e.welcomed)
  <2>1. Welcome(e) = e
    BY <1>3, <1>8
  <2>2. e.welcomed = (e.nick /\ e.user) /\ ~(e.nick /\ e.user /\ ~(c.nick /\ c.user))
    BY <1>6, <1>8
  <2> QED
    BY <2>1, <2>2 DEF SameAnswers
<1> QED
  BY <1>7, <1>8

\* Every handler of every service does what its frame asks for.
LEMMA HandleEffect ==
  ASSUME NEW c \in ConnType, c.service # "master",
         NEW f \in FrameKind[c.service], f # "bad",
         c.clear, ~c.ended => c.key = Held(c), c.welcomed = (c.nick /\ c.user)
  PROVE  Handle(c, f) \in ConnType /\ Handled(c, f, Handle(c, f))
<1>1. Asking \subseteq Reply /\ "NICK" \notin Asking /\ "USER" \notin Asking
      /\ "logout" \notin Asking /\ "QUIT" \notin Asking /\ "other" \notin Asking
      /\ "status" \notin Asking /\ "stale" \in Asking /\ "CRYPT" \in Asking
  BY DEF Reply, Asking
<1>2. /\ c.ended \in BOOLEAN /\ c.nick \in BOOLEAN /\ c.user \in BOOLEAN
      /\ c.clear \in BOOLEAN /\ c.welcomed \in BOOLEAN
  BY DEF ConnType
<1>3. CASE f \in Asking \ {"stale", "CRYPT"}
  <2> DEFINE d == Write(c, f)
  <2>1. Handle(c, f) = d
    BY <1>3, HandleIs
  <2>2. /\ d \in ConnType /\ Wrote(c, f, d)
        /\ SameFrames(c, d) /\ SameKey(c, d) /\ SameEnd(c, d) /\ SameNames(c, d)
    BY <1>1, <1>3, Writing
  <2> HIDE DEF d
  <2>3. f \notin {"stale", "logout", "QUIT", "CRYPT", "NICK", "USER"}
    BY <1>1, <1>3
  <2>4. Handled(c, f, d)
    BY <1>2, <1>3, <2>2, <2>3 DEF Handled, Answered, Wrote, SameKey, SameEnd, SameNames
  <2> QED
    BY <2>1, <2>2, <2>4
<1>4. CASE f \in {"other", "status"}
  <2>1. Handle(c, f) = c
    BY <1>4, HandleIs
  <2>2. Handled(c, f, c)
    BY <1>1, <1>2, <1>4 DEF Handled, Answered, SameFrames
  <2> QED
    BY <2>1, <2>2
<1>5. CASE f \in {"logout", "QUIT"}
  <2> DEFINE d == EndSocket(c)
  <2>1. Handle(c, f) = d
    BY <1>5, HandleIs
  <2>2. /\ d \in ConnType /\ d.ended /\ SameFrames(c, d) /\ SameKey(c, d)
        /\ SameNames(c, d) /\ SameAnswers(c, d)
    BY EndingSocket
  <2> HIDE DEF d
  <2>3. Handled(c, f, d)
    <3>1. d.ended \in BOOLEAN
      BY <2>2 DEF ConnType
    <3> QED
      BY <1>1, <1>2, <1>5, <2>2, <3>1 DEF Handled, Answered, SameKey, SameNames, SameAnswers
  <2> QED
    BY <2>1, <2>2, <2>3
<1>6. CASE f = "stale"
  <2> DEFINE w == Write(c, f)
             d == EndSocket(w)
  <2>1. Handle(c, f) = d
    BY <1>6, HandleIs
  <2>2. /\ w \in ConnType /\ Wrote(c, f, w)
        /\ SameFrames(c, w) /\ SameKey(c, w) /\ SameEnd(c, w) /\ SameNames(c, w)
    BY <1>1, <1>6, Writing
  <2> HIDE DEF w
  <2>3. /\ d \in ConnType /\ d.ended /\ SameFrames(w, d) /\ SameKey(w, d)
        /\ SameNames(w, d) /\ SameAnswers(w, d)
    BY <2>2, EndingSocket
  <2> HIDE DEF d
  <2>4. SameFrames(c, d) /\ SameKey(c, d) /\ SameNames(c, d) /\ d.ended = TRUE
    BY <2>2, <2>3 DEF SameFrames, SameKey, SameNames, ConnType
  <2>5. d.clear /\ d.answers = IF c.ended THEN c.answers ELSE Append(c.answers, f)
    BY <2>2, <2>3 DEF Wrote, SameAnswers
  <2>6. Handled(c, f, d)
    BY <1>1, <1>2, <1>6, <2>4, <2>5 DEF Handled, Answered, SameKey, SameNames
  <2> QED
    BY <2>1, <2>3, <2>6
<1>7. CASE f = "CRYPT"
  <2> DEFINE w == Write(c, f)
             d == [w EXCEPT !.key = @ + 1]
  <2>1. Handle(c, f) = d
    BY <1>7, HandleIs DEF Rekey
  <2>2. /\ w \in ConnType /\ Wrote(c, f, w)
        /\ SameFrames(c, w) /\ SameKey(c, w) /\ SameEnd(c, w) /\ SameNames(c, w)
    BY <1>1, <1>7, Writing
  <2> HIDE DEF w
  <2> DEFINE k == w.key + 1
  <2>3a. k \in Nat /\ d = [w EXCEPT !.key = k]
    BY <2>2 DEF ConnType
  <2> HIDE DEF k, d
  <2>3. /\ d \in ConnType /\ d.key = k /\ SameFrames(w, d) /\ SameEnd(w, d)
        /\ SameNames(w, d) /\ SameAnswers(w, d)
    BY ONLY <2>2, <2>3a DEF ConnType, SameFrames, SameEnd, SameNames, SameAnswers
  <2>4. SameFrames(c, d) /\ SameEnd(c, d) /\ SameNames(c, d) /\ d.key = c.key + 1
    BY <2>2, <2>3 DEF k, SameFrames, SameKey, SameEnd, SameNames
  <2>5. d.clear /\ d.answers = IF c.ended THEN c.answers ELSE Append(c.answers, f)
    BY <2>2, <2>3 DEF Wrote, SameAnswers
  <2>6. Handled(c, f, d)
    BY <1>1, <1>2, <1>7, <2>4, <2>5 DEF Handled, Answered, SameEnd, SameNames
  <2> QED
    BY <2>1, <2>3, <2>6
<1>8. CASE f = "NICK"
  <2> DEFINE e == [c EXCEPT !.nick = TRUE]
             d == Welcome(e)
  <2>1. Handle(c, f) = d
    BY <1>8, HandleIs
  <2>2. /\ e \in ConnType /\ SameFrames(c, e) /\ SameKey(c, e) /\ SameEnd(c, e)
        /\ SameAnswers(c, e) /\ e.welcomed = c.welcomed /\ e.nick = TRUE /\ e.user = c.user
    BY DEF ConnType, SameFrames, SameKey, SameEnd, SameAnswers
  <2> HIDE DEF e
  <2>3. /\ d \in ConnType /\ SameFrames(c, d) /\ SameKey(c, d) /\ SameEnd(c, d)
        /\ d.nick = e.nick /\ d.user = e.user /\ d.welcomed = (e.nick /\ e.user) /\ d.clear
        /\ d.answers = IF c.ended \/ ~(e.nick /\ e.user /\ ~(c.nick /\ c.user)) THEN c.answers
                       ELSE Append(c.answers, "welcome")
    BY <2>2, Welcoming
  <2> HIDE DEF d
  <2>4. Handled(c, f, d)
    BY <1>1, <1>2, <1>8, <2>2, <2>3 DEF Handled, Answered, SameKey, SameEnd
  <2> QED
    BY <2>1, <2>3, <2>4
<1>9. CASE f = "USER"
  <2> DEFINE e == [c EXCEPT !.user = TRUE]
             d == Welcome(e)
  <2>1. Handle(c, f) = d
    BY <1>9, HandleIs
  <2>2. /\ e \in ConnType /\ SameFrames(c, e) /\ SameKey(c, e) /\ SameEnd(c, e)
        /\ SameAnswers(c, e) /\ e.welcomed = c.welcomed /\ e.user = TRUE /\ e.nick = c.nick
    BY DEF ConnType, SameFrames, SameKey, SameEnd, SameAnswers
  <2> HIDE DEF e
  <2>3. /\ d \in ConnType /\ SameFrames(c, d) /\ SameKey(c, d) /\ SameEnd(c, d)
        /\ d.nick = e.nick /\ d.user = e.user /\ d.welcomed = (e.nick /\ e.user) /\ d.clear
        /\ d.answers = IF c.ended \/ ~(e.nick /\ e.user /\ ~(c.nick /\ c.user)) THEN c.answers
                       ELSE Append(c.answers, "welcome")
    BY <2>2, Welcoming
  <2> HIDE DEF d
  <2>4. Handled(c, f, d)
    BY <1>1, <1>2, <1>9, <2>2, <2>3 DEF Handled, Answered, SameKey, SameEnd
  <2> QED
    BY <2>1, <2>3, <2>4
<1> QED
  BY <1>3, <1>4, <1>5, <1>6, <1>7, <1>8, <1>9, HandleIs

-----------------------------------------------------------------------------
(* Answers expected *)

Expects(g, fs, n) ==
  g = [i \in 0..n |-> IF i = 0 THEN <<>>
                      ELSE IF AnswerTo(fs, i) = "none" THEN g[i - 1]
                      ELSE Append(g[i - 1], AnswerTo(fs, i))]

\* The recursion that defines Expected, ...
LEMMA ExpectsIs ==
  ASSUME NEW fs, NEW n \in Nat, NEW g, Expects(g, fs, n)
  PROVE  /\ g[0] = <<>>
         /\ \A i \in 1..n : g[i] = IF AnswerTo(fs, i) = "none" THEN g[i - 1]
                                   ELSE Append(g[i - 1], AnswerTo(fs, i))
<1>1. 0 \in 0..n /\ \A i \in 1..n : i \in 0..n /\ i # 0
  OBVIOUS
<1> QED
  BY <1>1 DEF Expects

\* ... which has a solution.
LEMMA ExpectsExists ==
  ASSUME NEW fs, NEW n \in Nat
  PROVE  \E g : Expects(g, fs, n)
<1> DEFINE A == {AnswerTo(fs, i) : i \in 1..n}
           S == Seq(A)
           G == [k \in 1..n |-> [v \in S |-> IF AnswerTo(fs, k) = "none" THEN v
                                             ELSE Append(v, AnswerTo(fs, k))]]
<1>1. <<>> \in S
  OBVIOUS
<1>2. ASSUME NEW k \in 1..n, NEW v \in S
      PROVE  (IF AnswerTo(fs, k) = "none" THEN v ELSE Append(v, AnswerTo(fs, k))) \in S
  <2>1. AnswerTo(fs, k) \in A
    OBVIOUS
  <2> HIDE DEF A
  <2> QED
    BY <2>1
<1> HIDE DEF S
<1>3. G \in [1..n -> [S -> S]]
  BY <1>2
<1>4. PICK g \in [0..n -> S] : Iterates(g, n, <<>>, G)
  <2> HIDE DEF G
  <2> QED
    BY <1>1, <1>3, Recursion
<1>5. ASSUME NEW k \in 0..n
      PROVE  g[k] = IF k = 0 THEN <<>>
                    ELSE IF AnswerTo(fs, k) = "none" THEN g[k - 1]
                    ELSE Append(g[k - 1], AnswerTo(fs, k))
  <2>1. CASE k = 0
    BY <1>4, <2>1 DEF Iterates
  <2>2. CASE k # 0
    <3>1. k \in 1..n /\ k - 1 \in 0..n
      BY <2>2
    <3>2. g[k - 1] \in S
      BY <1>4, <3>1
    <3> QED
      BY <1>4, <2>2, <3>1, <3>2 DEF Iterates
  <2> QED
    BY <2>1, <2>2
<1> HIDE DEF G
<1> DEFINE e == [k \in 0..n |-> IF k = 0 THEN <<>>
                                ELSE IF AnswerTo(fs, k) = "none" THEN g[k - 1]
                                ELSE Append(g[k - 1], AnswerTo(fs, k))]
<1>6. g = [k \in 0..n |-> g[k]] /\ e = [k \in 0..n |-> e[k]] /\ \A k \in 0..n : g[k] = e[k]
  BY <1>4, <1>5
<1>7. g = e
  <2> HIDE DEF e
  <2> QED
    BY <1>6
<1> QED
  BY <1>7 DEF Expects

\* The answers to n frames are those to n - 1 frames, and one more or none.
LEMMA ExpectedStep ==
  ASSUME NEW fs, NEW n \in Nat
  PROVE  /\ Expected(fs, 0) = <<>>
         /\ n # 0 => Expected(fs, n) = IF AnswerTo(fs, n) = "none" THEN Expected(fs, n - 1)
                                       ELSE Append(Expected(fs, n - 1), AnswerTo(fs, n))
<1> DEFINE E(k) == CHOOSE g : Expects(g, fs, k)
<1>1. ASSUME NEW k \in Nat
      PROVE  Expected(fs, k) = E(k)[k] /\ Expects(E(k), fs, k)
  <2>1. \E g : Expects(g, fs, k)
    BY ExpectsExists
  <2>2. Expects(E(k), fs, k)
    BY <2>1
  <2>3. Expected(fs, k) = E(k)[k]
    BY Zenon DEF Expected, Expects
  <2> QED
    BY <2>2, <2>3
<1> HIDE DEF E
<1>2. ASSUME NEW k \in Nat
      PROVE  /\ E(k)[0] = <<>>
             /\ \A i \in 1..k : E(k)[i] = IF AnswerTo(fs, i) = "none" THEN E(k)[i - 1]
                                          ELSE Append(E(k)[i - 1], AnswerTo(fs, i))
  <2>1. Expects(E(k), fs, k)
    BY <1>1
  <2> QED
    BY <2>1, ExpectsIs
<1>3. CASE n # 0
  <2> DEFINE m == n - 1
             f == E(n)
             g == E(m)
             P == {i \in 0..m : f[i] = g[i]}
  <2>1. m \in Nat /\ m + 1 = n
    BY <1>3
  <2> HIDE DEF m
  <2>2. /\ f[0] = <<>> /\ g[0] = <<>>
        /\ \A i \in 1..m : f[i] = IF AnswerTo(fs, i) = "none" THEN f[i - 1]
                                  ELSE Append(f[i - 1], AnswerTo(fs, i))
        /\ \A i \in 1..m : g[i] = IF AnswerTo(fs, i) = "none" THEN g[i - 1]
                                  ELSE Append(g[i - 1], AnswerTo(fs, i))
        /\ f[n] = IF AnswerTo(fs, n) = "none" THEN f[m] ELSE Append(f[m], AnswerTo(fs, n))
    <3>1. (\A i \in 1..m : i \in 1..n) /\ n \in 1..n /\ n - 1 = m
      BY <2>1
    <3> QED
      BY <1>2, <2>1, <3>1
  <2> HIDE DEF f, g
  <2>3. 0 \in P
    BY <2>1, <2>2
  <2>4. \A i \in 1..m : i - 1 \in P => i \in P
    BY <2>2
  <2>5. m \in P
    <3> HIDE DEF P
    <3>1. \A i \in 0..m : i \in P
      BY <2>1, <2>3, <2>4, UpTo
    <3> QED
      BY <2>1, <3>1
  <2>6. Expected(fs, n) = f[n] /\ Expected(fs, m) = g[m]
    BY <1>1, <2>1 DEF f, g
  <2>7. f[m] = g[m]
    BY <2>5
  <2> QED
    BY <1>1, <1>2, <2>2, <2>6, <2>7 DEF m
<1> QED
  BY <1>1, <1>2, <1>3

\* They depend on the first n frames only.
LEMMA ExpectedSame ==
  ASSUME NEW fs, NEW gs, NEW n \in Nat, \A i \in 1..n : fs[i] = gs[i]
  PROVE  Expected(fs, n) = Expected(gs, n)
<1> DEFINE P == {i \in 0..n : Expected(fs, i) = Expected(gs, i)}
<1>1. 0 \in P
  BY ExpectedStep
<1>2. ASSUME NEW i \in 1..n, i - 1 \in P
      PROVE  i \in P
  <2>1. AnswerTo(fs, i) = AnswerTo(gs, i)
    <3>1. fs[i] = gs[i] /\ \A j \in 1..(i - 1) : fs[j] = gs[j]
      OBVIOUS
    <3> QED
      BY <3>1 DEF AnswerTo, WelcomeAt
  <2>2. i \in Nat /\ i # 0 /\ i \in 0..n
    OBVIOUS
  <2>3. Expected(fs, i - 1) = Expected(gs, i - 1)
    BY <1>2
  <2>4. Expected(fs, i) = Expected(gs, i)
    BY <2>1, <2>2, <2>3, ExpectedStep
  <2> QED
    BY <2>2, <2>4
<1>3. n \in P
  <2> HIDE DEF P
  <2>1. \A i \in 0..n : i \in P
    BY <1>1, <1>2, UpTo
  <2> QED
    BY <2>1
<1> QED
  BY <1>3

\* Frames that ask for nothing change nothing.
LEMMA ExpectedNoMore ==
  ASSUME NEW fs, NEW m \in Nat, NEW n \in Nat, m <= n,
         \A i \in (m + 1)..n : AnswerTo(fs, i) = "none"
  PROVE  Expected(fs, n) = Expected(fs, m)
<1> DEFINE P == {i \in 0..n : m <= i => Expected(fs, i) = Expected(fs, m)}
<1>1. 0 \in P
  OBVIOUS
<1>2. ASSUME NEW i \in 1..n, i - 1 \in P
      PROVE  i \in P
  <2>1. i \in Nat /\ i # 0 /\ i \in 0..n
    OBVIOUS
  <2>2. CASE m <= i - 1
    <3>1. AnswerTo(fs, i) = "none" /\ Expected(fs, i - 1) = Expected(fs, m)
      BY <1>2, <2>2
    <3>2. Expected(fs, i) = Expected(fs, m)
      BY <2>1, <3>1, ExpectedStep
    <3> QED
      BY <2>1, <3>2
  <2>3. CASE ~(m <= i - 1)
    <3>1. m <= i => i = m
      BY <2>3
    <3> QED
      BY <2>1, <3>1
  <2> QED
    BY <2>2, <2>3
<1>3. n \in P
  <2> HIDE DEF P
  <2>1. \A i \in 0..n : i \in P
    BY <1>1, <1>2, UpTo
  <2> QED
    BY <2>1
<1> QED
  BY <1>3

-----------------------------------------------------------------------------
(* Keys *)

\* How the number of CRYPTs grows, ...
LEMMA CryptsStep ==
  ASSUME NEW s, NEW n \in Nat
  PROVE  /\ Crypts(s, n) \in Nat /\ Crypts(s, 0) = 0
         /\ n # 0 => Crypts(s, n) = IF s[n] = "CRYPT" THEN Crypts(s, n - 1) + 1
                                    ELSE Crypts(s, n - 1)
<1> DEFINE C(k) == {i \in 1..k : s[i] = "CRYPT"}
<1>1. ASSUME NEW k \in Nat
      PROVE  IsFiniteSet(C(k)) /\ Cardinality(C(k)) \in Nat
  <2>1. IsFiniteSet(1..k) /\ C(k) \in SUBSET (1..k)
    BY FS_Interval
  <2> HIDE DEF C
  <2> QED
    BY <2>1, FS_Subset, FS_CardinalityType
<1>2. C(0) = {}
  OBVIOUS
<1>3. ASSUME n # 0
      PROVE  C(n) = IF s[n] = "CRYPT" THEN C(n - 1) \cup {n} ELSE C(n - 1)
  <2>1. 1..n = (1..(n - 1)) \cup {n}
    BY <1>3
  <2> QED
    BY <2>1
<1>4. n \notin C(n - 1)
  OBVIOUS
<1>5. \A k : Crypts(s, k) = Cardinality(C(k))
  BY DEF Crypts
<1> HIDE DEF C
<1>6. ASSUME n # 0
      PROVE  Cardinality(C(n)) = IF s[n] = "CRYPT" THEN Cardinality(C(n - 1)) + 1
                                 ELSE Cardinality(C(n - 1))
  <2>1. n - 1 \in Nat
    BY <1>6
  <2> QED
    BY <1>1, <1>3, <1>4, <1>6, <2>1, FS_AddElement
<1> QED
  BY <1>1, <1>2, <1>5, <1>6, FS_EmptySet

\* ... what it depends on, ...
LEMMA CryptsSame ==
  ASSUME NEW s, NEW t, NEW n \in Nat, \A i \in 1..n : s[i] = t[i]
  PROVE  Crypts(s, n) = Crypts(t, n)
<1>1. {i \in 1..n : s[i] = "CRYPT"} = {i \in 1..n : t[i] = "CRYPT"}
  OBVIOUS
<1> QED
  BY <1>1 DEF Crypts

\* As many among the first n as among the first m: none between.
LEMMA CryptsBetween ==
  ASSUME NEW s, NEW m \in Nat, NEW n \in Nat, m <= n
  PROVE  Crypts(s, m) = Crypts(s, n) <=> \A i \in (m + 1)..n : s[i] # "CRYPT"
<1> DEFINE S == {i \in 1..m : s[i] = "CRYPT"}
           T == {i \in 1..n : s[i] = "CRYPT"}
<1>1. IsFiniteSet(1..n) /\ T \in SUBSET (1..n)
  BY FS_Interval
<1>2. S \in SUBSET T
  OBVIOUS
<1>3. S = T <=> \A i \in (m + 1)..n : s[i] # "CRYPT"
  <2>1. ASSUME S = T, NEW i \in (m + 1)..n, s[i] = "CRYPT"
        PROVE  FALSE
    <3>1. i \in T /\ i \notin S
      BY <2>1
    <3> QED
      BY <2>1, <3>1
  <2>2. ASSUME \A i \in (m + 1)..n : s[i] # "CRYPT"
        PROVE  S = T
    <3>1. ASSUME NEW i \in T
          PROVE  i \in S
      <4>1. i \in 1..n /\ s[i] = "CRYPT"
        OBVIOUS
      <4>2. ~(i \in (m + 1)..n)
        BY <2>2, <4>1
      <4>3. i \in 1..m
        BY <4>1, <4>2
      <4> QED
        BY <4>1, <4>3
    <3> QED
      BY <1>2, <3>1
  <2> QED
    BY <2>1, <2>2
<1>4. Crypts(s, m) = Cardinality(S) /\ Crypts(s, n) = Cardinality(T)
  BY DEF Crypts
<1> HIDE DEF S, T
<1>5. IsFiniteSet(T)
  BY <1>1, FS_Subset
<1>6. Cardinality(T) = Cardinality(S) => T = S
  BY <1>2, <1>5, FS_Subset
<1> QED
  BY <1>3, <1>4, <1>6

-----------------------------------------------------------------------------
(* What holds of a connection while its frames are taken *)

Had(c, F) == \E j \in 1..c.done : c.sent[j] \in F

FramesOK(c) ==
  /\ \A j \in 1..Len(c.sent) : c.sent[j] \in FrameKind[c.service]
  /\ c.done <= Len(c.sent) /\ 2 * c.done <= c.got /\ c.got <= 2 * Len(c.sent)
  /\ ~Had(c, {"bad"})
  /\ ~c.open => BadLength(c)

AnswersOK(c) ==
  /\ c.answers = Expected(c.sent, c.done)
  /\ c.ended <=> Had(c, {"stale", "logout", "QUIT"})
  /\ c.nick <=> Had(c, {"NICK"})
  /\ c.user <=> Had(c, {"USER"})
  /\ c.welcomed <=> c.nick /\ c.user

\* The server's key is that of the frames it has taken, and of the answers
\* unless it has ended the connection; CRYPT is the last that a client writes
\* under a key.
KeysOK(c) ==
  /\ c.key = Crypts(c.sent, c.done)
  /\ ~c.ended => c.key = Held(c)
  /\ c.clear
  /\ \A j \in (c.done + 1)..(Len(c.sent) - 1) : c.sent[j] # "CRYPT"

\* A whole frame of a service is handled as its handler does.
LEMMA TakeFrameTyped ==
  ASSUME NEW c \in ConnType, c.service # "master", FramesOK(c), AnswersOK(c), KeysOK(c),
         WholeFrame(c)
  PROVE  /\ c.sent[c.done + 1] \in FrameKind[c.service] /\ c.sent[c.done + 1] # "bad"
         /\ c.done + 1 \in 1..Len(c.sent)
         /\ TakeFrame(c) \in ConnType
         /\ \E b \in ConnType :
              /\ Handled(b, c.sent[c.done + 1], TakeFrame(c))
              /\ b.service = c.service /\ b.sent = c.sent /\ b.got = c.got
              /\ b.done = c.done + 1 /\ b.open = c.open
              /\ SameKey(c, b) /\ SameEnd(c, b) /\ SameNames(c, b) /\ SameAnswers(c, b)
<1> DEFINE f == c.sent[c.done + 1]
           b == [c EXCEPT !.done = @ + 1]
<1>1. c.done \in Nat /\ c.got \in Nat /\ Len(c.sent) \in Nat
  BY DEF ConnType
<1>2. c.done + 1 \in 1..Len(c.sent) /\ c.got > 2 * c.done
  BY <1>1 DEF WholeFrame, FramesOK
<1>3. f \in FrameKind[c.service] /\ f # "bad"
  BY <1>1, <1>2 DEF FramesOK, WholeFrame, BadLength
<1>4. /\ b \in ConnType /\ b.done = c.done + 1
      /\ b.service = c.service /\ b.sent = c.sent /\ b.got = c.got /\ b.open = c.open
      /\ SameKey(c, b) /\ SameEnd(c, b) /\ SameNames(c, b) /\ SameAnswers(c, b)
  BY <1>1 DEF ConnType, SameKey, SameEnd, SameNames, SameAnswers
<1>5. TakeFrame(c) = Handle(b, f)
  BY DEF TakeFrame
<1> HIDE DEF b
<1>6. b.clear /\ (~b.ended => b.key = Held(b)) /\ b.welcomed = (b.nick /\ b.user)
  <2>1. Held(b) = Held(c)
    BY <1>4 DEF Held, SameAnswers
  <2>2. c.welcomed \in BOOLEAN /\ c.nick \in BOOLEAN /\ c.user \in BOOLEAN
    BY DEF ConnType
  <2> QED
    BY <1>4, <2>1, <2>2 DEF KeysOK, AnswersOK, SameKey, SameEnd, SameNames, SameAnswers
<1>7. Handle(b, f) \in ConnType /\ Handled(b, f, Handle(b, f))
  BY <1>3, <1>4, <1>6, HandleEffect
<1> HIDE DEF f
<1>8. \E e \in ConnType :
        /\ Handled(e, f, TakeFrame(c))
        /\ e.service = c.service /\ e.sent = c.sent /\ e.got = c.got
        /\ e.done = c.done + 1 /\ e.open = c.open
        /\ SameKey(c, e) /\ SameEnd(c, e) /\ SameNames(c, e) /\ SameAnswers(c, e)
  BY <1>4, <1>5, <1>7, Zenon
<1> QED
  BY <1>2, <1>3, <1>5, <1>7, <1>8 DEF f

\* What c had and the frame that comes next.
LEMMA HadMore ==
  ASSUME NEW c \in ConnType, NEW d, d.sent = c.sent, d.done = c.done + 1, NEW F
  PROVE  Had(d, F) <=> Had(c, F) \/ c.sent[c.done + 1] \in F
<1>1. c.done \in Nat
  BY DEF ConnType
<1>2. 1..(c.done + 1) = (1..c.done) \cup {c.done + 1}
  BY <1>1
<1> QED
  BY <1>2 DEF Had

\* The answer that a handler gives is the one its frame asks for.
LEMMA AnswerIs ==
  ASSUME NEW c \in ConnType, FramesOK(c), AnswersOK(c), NEW f, f = c.sent[c.done + 1],
         f \in FrameKind[c.service], f # "bad",
         NEW b, SameEnd(c, b), SameNames(c, b), SameAnswers(c, b),
         NEW d, Handled(b, f, d)
  PROVE  d.answers = IF AnswerTo(c.sent, c.done + 1) = "none" THEN c.answers
                     ELSE Append(c.answers, AnswerTo(c.sent, c.done + 1))
<1> DEFINE i == c.done + 1
           fs == c.sent
<1>1. c.done \in Nat /\ i - 1 = c.done
  BY DEF ConnType
<1>2. (\E j \in 1..(i - 1) : fs[j] \in Ending) <=> c.ended
  <2>1. c.ended <=> \E j \in 1..c.done : fs[j] \in {"stale", "logout", "QUIT"}
    BY DEF AnswersOK, Had
  <2>2. \A j \in 1..c.done : fs[j] # "bad"
    BY DEF FramesOK, Had
  <2> QED
    BY <1>1, <2>1, <2>2 DEF Ending
<1>3. (c.nick <=> \E j \in 1..(i - 1) : fs[j] = "NICK")
      /\ (c.user <=> \E j \in 1..(i - 1) : fs[j] = "USER")
  BY <1>1 DEF AnswersOK, Had
<1>4. WelcomeAt(fs, i) <=> f \in {"NICK", "USER"} /\ d.nick /\ d.user /\ ~(c.nick /\ c.user)
  <2>1. d.nick = (c.nick \/ f = "NICK") /\ d.user = (c.user \/ f = "USER")
    BY DEF Handled, SameNames
  <2>2. CASE f = "NICK"
    <3>1. WelcomeAt(fs, i) <=> ~c.nick /\ \E j \in 1..(i - 1) : {f, fs[j]} = {"NICK", "USER"}
      BY <1>3, <2>2 DEF WelcomeAt
    <3>2. \A x : {f, x} = {"NICK", "USER"} <=> x = "USER"
      BY <2>2
    <3> HIDE DEF i, fs
    <3> QED
      BY <1>3, <2>1, <2>2, <3>1, <3>2
  <2>3. CASE f = "USER"
    <3>1. WelcomeAt(fs, i) <=> ~c.user /\ \E j \in 1..(i - 1) : {f, fs[j]} = {"NICK", "USER"}
      BY <1>3, <2>3 DEF WelcomeAt
    <3>2. \A x : {f, x} = {"NICK", "USER"} <=> x = "NICK"
      BY <2>3
    <3> HIDE DEF i, fs
    <3> QED
      BY <1>3, <2>1, <2>3, <3>1, <3>2
  <2>4. CASE f \notin {"NICK", "USER"}
    BY <2>4 DEF WelcomeAt
  <2> QED
    BY <2>2, <2>3, <2>4
<1>5. AnswerTo(fs, i) = IF c.ended THEN "none"
                        ELSE IF f \in Asking THEN f
                        ELSE IF WelcomeAt(fs, i) THEN "welcome" ELSE "none"
  <2>1. ~(f \in Asking /\ WelcomeAt(fs, i)) /\ fs[i] = f
    BY DEF Asking, WelcomeAt
  <2> HIDE DEF i, fs
  <2> QED
    BY <1>2, <2>1 DEF AnswerTo
<1>6. "none" \notin Asking
  BY DEF Asking
<1> HIDE DEF i, fs
<1>7. d.answers = IF c.ended \/ ~(f \in Asking \/ WelcomeAt(fs, i)) THEN c.answers
                  ELSE Append(c.answers, IF f \in Asking THEN f ELSE "welcome")
  BY <1>4 DEF Handled, Answered, SameEnd, SameNames, SameAnswers
<1> QED
  BY <1>5, <1>6, <1>7 DEF i, fs

\* One more frame.
LEMMA CryptsAppend ==
  ASSUME NEW S, NEW s \in Seq(S), NEW a
  PROVE  /\ Crypts(Append(s, a), Len(Append(s, a))) =
              IF a = "CRYPT" THEN Crypts(s, Len(s)) + 1 ELSE Crypts(s, Len(s))
         /\ \A n \in 0..Len(s) : Crypts(Append(s, a), n) = Crypts(s, n)
<1> DEFINE t == Append(s, a)
<1>1. Len(s) \in Nat /\ Len(t) = Len(s) + 1 /\ t[Len(s) + 1] = a
      /\ \A i \in 1..Len(s) : t[i] = s[i]
  OBVIOUS
<1> HIDE DEF t
<1>2. ASSUME NEW n \in 0..Len(s)
      PROVE  Crypts(t, n) = Crypts(s, n)
  <2>1. n \in Nat /\ \A i \in 1..n : t[i] = s[i]
    BY <1>1
  <2> QED
    BY <2>1, CryptsSame
<1>3. Crypts(t, Len(s)) = Crypts(s, Len(s))
  BY <1>1, <1>2
<1>4. Crypts(t, Len(s) + 1) = IF t[Len(s) + 1] = "CRYPT" THEN Crypts(t, Len(s)) + 1
                              ELSE Crypts(t, Len(s))
  <2>1. Len(s) + 1 \in Nat /\ Len(s) + 1 # 0 /\ Len(s) + 1 - 1 = Len(s)
    BY <1>1
  <2> QED
    BY <2>1, CryptsStep
<1> QED
  BY <1>1, <1>2, <1>3, <1>4 DEF t

\* A frame that is taken leaves all in order.
LEMMA TakeFrameKeeps ==
  ASSUME NEW c \in ConnType, c.service # "master", FramesOK(c), AnswersOK(c), KeysOK(c),
         WholeFrame(c), NEW d, d = TakeFrame(c)
  PROVE  /\ d \in ConnType /\ FramesOK(d) /\ AnswersOK(d) /\ KeysOK(d)
         /\ d.service = c.service /\ d.sent = c.sent /\ d.got = c.got
         /\ d.done = c.done + 1 /\ d.open = c.open
<1> DEFINE f == c.sent[c.done + 1]
<1>1. /\ f \in FrameKind[c.service] /\ f # "bad" /\ c.done + 1 \in 1..Len(c.sent)
      /\ d \in ConnType
  BY TakeFrameTyped
<1>2. PICK b \in ConnType :
        /\ Handled(b, f, d)
        /\ b.service = c.service /\ b.sent = c.sent /\ b.got = c.got
        /\ b.done = c.done + 1 /\ b.open = c.open
        /\ SameKey(c, b) /\ SameEnd(c, b) /\ SameNames(c, b) /\ SameAnswers(c, b)
  BY TakeFrameTyped
<1>3. /\ d.service = c.service /\ d.sent = c.sent /\ d.got = c.got
      /\ d.done = c.done + 1 /\ d.open = c.open
  BY <1>2 DEF Handled, SameFrames
<1>4. c.done \in Nat /\ c.got \in Nat /\ Len(c.sent) \in Nat /\ c.answers \in Seq(Reply)
      /\ c.ended \in BOOLEAN /\ c.nick \in BOOLEAN /\ c.user \in BOOLEAN
      /\ d.ended \in BOOLEAN /\ d.nick \in BOOLEAN /\ d.user \in BOOLEAN /\ c.key \in Nat
      /\ d.welcomed \in BOOLEAN
  BY <1>1 DEF ConnType
<1>5. c.open
  BY <1>4 DEF WholeFrame, FramesOK
<1> HIDE DEF f
<1>6. \A F : Had(d, F) <=> Had(c, F) \/ f \in F
  BY <1>3, HadMore DEF f
<1>7. FramesOK(d)
  <2>1. 2 * (c.done + 1) <= c.got
    BY <1>4 DEF WholeFrame
  <2>2. ~Had(d, {"bad"})
    BY <1>1, <1>6 DEF FramesOK
  <2> QED
    BY <1>1, <1>3, <1>4, <1>5, <2>1, <2>2 DEF FramesOK
<1>8. AnswersOK(d)
  <2>1. d.answers = IF AnswerTo(c.sent, c.done + 1) = "none" THEN c.answers
                    ELSE Append(c.answers, AnswerTo(c.sent, c.done + 1))
    BY <1>1, <1>2, AnswerIs DEF f
  <2>2. d.answers = Expected(d.sent, d.done)
    <3> DEFINE n == c.done + 1
    <3>1. n \in Nat /\ n # 0 /\ n - 1 = c.done
      BY <1>4
    <3> HIDE DEF n
    <3>2. Expected(c.sent, n) = IF AnswerTo(c.sent, n) = "none" THEN Expected(c.sent, n - 1)
                                ELSE Append(Expected(c.sent, n - 1), AnswerTo(c.sent, n))
      BY <3>1, ExpectedStep
    <3> QED
      BY <1>3, <2>1, <3>1, <3>2 DEF AnswersOK, n
  <2>3. d.ended <=> Had(d, {"stale", "logout", "QUIT"})
    BY <1>2, <1>4, <1>6 DEF Handled, SameEnd, AnswersOK
  <2>4. (d.nick <=> Had(d, {"NICK"})) /\ (d.user <=> Had(d, {"USER"}))
    BY <1>2, <1>4, <1>6 DEF Handled, SameNames, AnswersOK
  <2>5. d.welcomed <=> d.nick /\ d.user
    BY <1>2, <1>4 DEF Handled
  <2> QED
    BY <2>2, <2>3, <2>4, <2>5 DEF AnswersOK
<1>9. KeysOK(d)
  <2>1. d.key = Crypts(d.sent, d.done)
    <3> DEFINE n == c.done + 1
    <3>1. n \in Nat /\ n # 0 /\ n - 1 = c.done /\ c.sent[n] = f
      BY <1>4 DEF f
    <3> HIDE DEF n
    <3>1a. Crypts(c.sent, n) = IF c.sent[n] = "CRYPT" THEN Crypts(c.sent, n - 1) + 1
                               ELSE Crypts(c.sent, n - 1)
      BY <3>1, CryptsStep
    <3>2. Crypts(c.sent, c.done + 1) = IF f = "CRYPT" THEN Crypts(c.sent, c.done) + 1
                                       ELSE Crypts(c.sent, c.done)
      BY <3>1, <3>1a DEF n
    <3> QED
      BY <1>2, <1>3, <3>2 DEF Handled, SameKey, KeysOK
  <2>2. ASSUME ~d.ended
        PROVE  d.key = Held(d)
    <3>1. ~c.ended /\ ~b.ended
      BY <1>2, <1>4, <2>2 DEF Handled, SameEnd
    <3>2. c.key = Crypts(c.answers, Len(c.answers))
      BY <3>1 DEF KeysOK, Held
    <3>3. "CRYPT" \in Asking
      BY DEF Asking
    <3>4. CASE d.answers = c.answers /\ f \notin Asking
      BY <1>2, <3>2, <3>3, <3>4 DEF Handled, SameKey, Held
    <3>5. CASE d.answers = Append(c.answers, IF f \in Asking THEN f ELSE "welcome")
      <4> DEFINE a == IF f \in Asking THEN f ELSE "welcome"
      <4>1. a = "CRYPT" <=> f = "CRYPT"
        BY <3>3
      <4> HIDE DEF a
      <4>2. Held(d) = IF a = "CRYPT" THEN c.key + 1 ELSE c.key
        BY <1>4, <3>2, <3>5, CryptsAppend DEF Held, a
      <4> QED
        BY <1>2, <4>1, <4>2 DEF Handled, SameKey
    <3> QED
      BY <1>2, <3>1, <3>4, <3>5 DEF Handled, Answered, SameAnswers
  <2>3. \A j \in (d.done + 1)..(Len(d.sent) - 1) : d.sent[j] # "CRYPT"
    <3>1. \A j \in (c.done + 2)..(Len(c.sent) - 1) : j \in (c.done + 1)..(Len(c.sent) - 1)
      BY <1>4
    <3> QED
      BY <1>3, <1>4, <3>1 DEF KeysOK
  <2> QED
    BY <1>2, <2>1, <2>2, <2>3 DEF KeysOK, Handled
<1> QED
  BY <1>1, <1>3, <1>7, <1>8, <1>9

Loop(c) == FramesOK(c) /\ AnswersOK(c) /\ KeysOK(c)
SameStream(c, d) == d.service = c.service /\ d.sent = c.sent /\ d.got = c.got

\* No frame is left to be taken, and the socket is destroyed if there is a bad length.
Settled(c) == IF c.open THEN ~BadLength(c) /\ ~WholeFrame(c) ELSE BadLength(c)

\* A turn of the loop takes a frame, or there is nothing more to do.
LEMMA TurnKeeps ==
  ASSUME NEW c \in ConnType, c.service # "master", Loop(c), NEW d, d = LoopTurn(c)
  PROVE  /\ d \in ConnType /\ Loop(d) /\ SameStream(c, d)
         /\ Settled(d) \/ d.done = c.done + 1
         /\ Settled(c) => Settled(d)
<1>1. CASE BadLength(c)
  <2>1. d = [c EXCEPT !.open = FALSE]
    BY <1>1 DEF LoopTurn, WholeFrame
  <2>2. /\ d \in ConnType /\ SameStream(c, d) /\ ~d.open /\ d.done = c.done
        /\ SameKey(c, d) /\ SameEnd(c, d) /\ SameNames(c, d) /\ SameAnswers(c, d)
    BY <2>1 DEF ConnType, SameStream, SameKey, SameEnd, SameNames, SameAnswers
  <2>3. BadLength(d)
    BY <1>1, <2>2 DEF BadLength, SameStream
  <2>4. FramesOK(d)
    BY <2>2, <2>3 DEF Loop, FramesOK, Had, SameStream
  <2>5. AnswersOK(d)
    BY <2>2 DEF Loop, AnswersOK, Had, SameStream, SameEnd, SameNames, SameAnswers
  <2>6. KeysOK(d)
    BY <2>2 DEF Loop, KeysOK, Held, SameStream, SameKey, SameEnd, SameAnswers
  <2> QED
    BY <2>2, <2>3, <2>4, <2>5, <2>6 DEF Loop, Settled
<1>2. CASE WholeFrame(c)
  <2>1. d = TakeFrame(c)
    BY <1>2 DEF LoopTurn, WholeFrame
  <2>2. ~Settled(c)
    BY <1>2 DEF Settled, WholeFrame
  <2> QED
    BY <1>2, <2>1, <2>2, TakeFrameKeeps DEF Loop, SameStream
<1>3. CASE ~BadLength(c) /\ ~WholeFrame(c)
  <2>1. d = c
    BY <1>3 DEF LoopTurn
  <2>2. c.open
    BY <1>3 DEF Loop, FramesOK
  <2> QED
    BY <1>3, <2>1, <2>2 DEF Settled, SameStream
<1> QED
  BY <1>1, <1>2, <1>3

\* The loop takes every whole frame and leaves all in order.
LEMMA TakenKeeps ==
  ASSUME NEW c \in ConnType, c.service # "master", Loop(c)
  PROVE  LET d == Taken(c) IN d \in ConnType /\ Loop(d) /\ SameStream(c, d) /\ Settled(d)
<1> DEFINE n == Len(c.sent) + 1
           S == {e \in ConnType : e.service # "master" /\ Loop(e)}
           G == [k \in 1..n |-> [e \in S |-> LoopTurn(e)]]
           Turns(g) == g = [k \in 0..n |-> IF k = 0 THEN c ELSE LoopTurn(g[k - 1])]
<1>1. n \in Nat /\ c \in S
  BY DEF ConnType
<1>2. ASSUME NEW e \in S
      PROVE  LoopTurn(e) \in S
  <2>1. e.service # "master" /\ LoopTurn(e) \in ConnType /\ Loop(LoopTurn(e)) /\ SameStream(e, LoopTurn(e))
    BY TurnKeeps
  <2> QED
    BY <2>1 DEF SameStream
<1> HIDE DEF S, n
<1>3. G \in [1..n -> [S -> S]]
  BY <1>2
<1>4. PICK g \in [0..n -> S] : Iterates(g, n, c, G)
  <2> HIDE DEF G
  <2> QED
    BY <1>1, <1>3, Recursion
<1>5. ASSUME NEW k \in 0..n
      PROVE  g[k] = IF k = 0 THEN c ELSE LoopTurn(g[k - 1])
  <2>1. CASE k = 0
    BY <1>4, <2>1 DEF Iterates
  <2>2. CASE k # 0
    <3>1. k \in 1..n /\ k - 1 \in 0..n
      BY <1>1, <2>2
    <3>2. g[k - 1] \in S
      BY <1>4, <3>1
    <3> QED
      BY <1>4, <2>2, <3>1, <3>2 DEF Iterates
  <2> QED
    BY <2>1, <2>2
<1> HIDE DEF G
<1>6. \E h : Turns(h)
  <2> DEFINE e == [k \in 0..n |-> IF k = 0 THEN c ELSE LoopTurn(g[k - 1])]
  <2>1. g = [k \in 0..n |-> g[k]] /\ e = [k \in 0..n |-> e[k]] /\ \A k \in 0..n : g[k] = e[k]
    BY <1>4, <1>5
  <2>2. g = e
    <3> HIDE DEF e
    <3> QED
      BY <2>1
  <2> QED
    BY <2>2
<1> DEFINE f == CHOOSE h : Turns(h)
<1>7. Taken(c) = f[n]
  BY Zenon DEF Taken, n
<1>8. Turns(f)
  BY <1>6
<1> HIDE DEF f
<1>9. f[0] = c /\ \A k \in 1..n : f[k] = LoopTurn(f[k - 1])
  <2>1. 0 \in 0..n /\ \A k \in 1..n : k \in 0..n /\ k # 0
    BY <1>1
  <2> QED
    BY <1>8, <2>1
<1> HIDE DEF Turns
<1> DEFINE P == {k \in 0..n : /\ f[k] \in S /\ SameStream(c, f[k])
                              /\ Settled(f[k]) \/ f[k].done >= k}
<1>10. 0 \in P
  <2>1. c.done \in Nat
    BY DEF ConnType
  <2> QED
    BY <1>1, <1>9, <2>1 DEF SameStream
<1>11. ASSUME NEW k \in 1..n, k - 1 \in P
       PROVE  k \in P
  <2> DEFINE e == f[k - 1]
             d == f[k]
  <2>1. d = LoopTurn(e) /\ k \in 0..n
    BY <1>1, <1>9
  <2>2. e \in S /\ SameStream(c, e) /\ (Settled(e) \/ e.done >= k - 1)
    BY <1>11
  <2> HIDE DEF e, d
  <2>3. e \in ConnType /\ e.service # "master" /\ Loop(e)
    BY <2>2 DEF S
  <2>4. /\ d \in ConnType /\ Loop(d) /\ SameStream(e, d)
        /\ Settled(d) \/ d.done = e.done + 1
        /\ Settled(e) => Settled(d)
    BY <2>1, <2>3, TurnKeeps
  <2>5. d \in S
    BY <2>3, <2>4 DEF S, SameStream
  <2>6. SameStream(c, d)
    BY <2>2, <2>4 DEF SameStream
  <2>7. Settled(d) \/ d.done >= k
    <3>1. e.done \in Nat /\ k \in Nat
      BY <1>1, <2>3 DEF ConnType
    <3> QED
      BY <2>2, <2>4, <3>1
  <2> QED
    BY <2>1, <2>5, <2>6, <2>7 DEF d
<1>12. n \in P
  <2> HIDE DEF P
  <2>1. \A k \in 0..n : k \in P
    BY <1>1, <1>10, <1>11, UpTo
  <2> QED
    BY <1>1, <2>1
<1> DEFINE d == f[n]
<1>13. d \in S /\ SameStream(c, d) /\ (Settled(d) \/ d.done >= n)
  BY <1>12
<1> HIDE DEF d
<1>14. d \in ConnType /\ Loop(d)
  BY <1>13 DEF S
<1>15. Settled(d)
  <2>1. d.done <= Len(c.sent) /\ d.done \in Nat /\ Len(c.sent) \in Nat
    BY <1>13, <1>14 DEF Loop, FramesOK, SameStream, ConnType
  <2> QED
    BY <1>13, <2>1 DEF n
<1>16. Taken(c) = d
  BY <1>7 DEF d
<1> QED
  BY <1>13, <1>14, <1>15, <1>16

-----------------------------------------------------------------------------
(* Chunks *)

\* What holds of a connection between two chunks.
ConnOK(c) ==
  /\ c \in ConnType
  /\ IF c.service = "master" THEN Len(c.answers) <= 1 /\ c.clear /\ c.key = 0 /\ ~c.ended
     ELSE Loop(c) /\ Settled(c)

\* A connection starts with nothing asked and nothing answered.
LEMMA NewConnectionOK ==
  ASSUME NEW s \in Service
  PROVE  ConnOK(NewConnection(s))
<1> DEFINE c == NewConnection(s)
<1>1. c \in ConnType
  BY DEF NewConnection, ConnType
<1>2. /\ c.service = s /\ c.sent = <<>> /\ c.got = 0 /\ c.done = 0 /\ c.open = TRUE
      /\ c.ended = FALSE /\ c.answers = <<>> /\ c.key = 0 /\ c.clear = TRUE /\ c.nick = FALSE
      /\ c.user = FALSE /\ c.welcomed = FALSE
  BY DEF NewConnection
<1> HIDE DEF c
<1>3. Len(c.sent) = 0 /\ Len(c.answers) = 0
  BY <1>2
<1>4. FramesOK(c)
  BY <1>2, <1>3 DEF FramesOK, Had
<1>5. AnswersOK(c)
  BY <1>2, ExpectedStep DEF AnswersOK, Had
<1>6. KeysOK(c)
  <2>1. Crypts(c.sent, 0) = 0 /\ Crypts(c.answers, 0) = 0
    BY CryptsStep
  <2> QED
    BY <1>2, <1>3, <2>1 DEF KeysOK, Held
<1>7. Settled(c)
  BY <1>2, <1>3 DEF Settled, BadLength, WholeFrame
<1>8. ConnOK(c)
  BY <1>1, <1>2, <1>3, <1>4, <1>5, <1>6, <1>7 DEF ConnOK, Loop
<1> QED
  BY <1>8 DEF c

\* A client writes on.
LEMMA WriteOK ==
  ASSUME NEW c, ConnOK(c), MayWrite(c), NEW f \in FrameKind[c.service]
  PROVE  ConnOK([c EXCEPT !.sent = Append(@, f)])
<1> DEFINE s == Append(c.sent, f)
           d == [c EXCEPT !.sent = Append(@, f)]
<1>1. c \in ConnType /\ c.service \in Service /\ c.sent \in Seq(Frame) /\ f \in Frame
      /\ c.done \in Nat /\ c.got \in Nat /\ Len(c.sent) \in Nat /\ c.key \in Nat
  BY DEF ConnOK, ConnType, Frame
<1>2. /\ s \in Seq(Frame) /\ Len(s) = Len(c.sent) + 1 /\ s[Len(c.sent) + 1] = f
      /\ \A i \in 1..Len(c.sent) : s[i] = c.sent[i]
  BY <1>1
<1> HIDE DEF s
<1>3. d = [c EXCEPT !.sent = s]
  BY DEF s
<1>4. /\ d \in ConnType /\ d.sent = s /\ d.service = c.service /\ d.got = c.got
      /\ d.done = c.done /\ d.open = c.open
      /\ SameKey(c, d) /\ SameEnd(c, d) /\ SameNames(c, d) /\ SameAnswers(c, d)
  BY <1>1, <1>2, <1>3 DEF ConnType, SameKey, SameEnd, SameNames, SameAnswers
<1> HIDE DEF d
<1>5. ASSUME c.service # "master"
      PROVE  Loop(d) /\ Settled(d)
  <2>1. FramesOK(c) /\ AnswersOK(c) /\ KeysOK(c) /\ Settled(c) /\ c.open
    BY <1>5 DEF ConnOK, Loop, MayWrite
  <2>2. \A i \in 1..c.done : i \in 1..Len(c.sent) /\ s[i] = c.sent[i]
    BY <1>1, <1>2, <2>1 DEF FramesOK
  <2>3. \A F : Had(d, F) <=> Had(c, F)
    BY <1>4, <2>2 DEF Had
  <2>4. FramesOK(d)
    <3>1. ASSUME NEW j \in 1..Len(s)
          PROVE  s[j] \in FrameKind[c.service]
      <4>1. CASE j \in 1..Len(c.sent)
        BY <1>2, <2>1, <4>1 DEF FramesOK
      <4>2. CASE j = Len(c.sent) + 1
        BY <1>2, <4>2
      <4> QED
        BY <1>1, <1>2, <4>1, <4>2
    <3> QED
      BY <1>1, <1>2, <1>4, <2>1, <2>3, <3>1 DEF FramesOK
  <2>5. AnswersOK(d)
    <3>1. Expected(s, c.done) = Expected(c.sent, c.done)
      BY <1>1, <2>2, ExpectedSame
    <3> QED
      BY <1>4, <2>1, <2>3, <3>1 DEF AnswersOK, SameEnd, SameNames, SameAnswers
  <2>6. KeysOK(d)
    <3>1. Crypts(s, c.done) = Crypts(c.sent, c.done)
      BY <1>1, <2>2, CryptsSame
    <3>2. Crypts(c.sent, c.done) = Crypts(c.sent, Len(c.sent)) /\ c.done <= Len(c.sent)
      BY <2>1 DEF KeysOK, MayWrite, FramesOK
    <3>3. \A j \in (c.done + 1)..Len(c.sent) : c.sent[j] # "CRYPT"
      BY <1>1, <3>2, CryptsBetween
    <3>4. \A j \in (d.done + 1)..(Len(s) - 1) : j \in 1..Len(c.sent) /\ s[j] # "CRYPT"
      BY <1>1, <1>2, <1>4, <3>3
    <3> QED
      BY <1>4, <2>1, <3>1, <3>4 DEF KeysOK, Held, SameKey, SameEnd, SameAnswers
  <2>7. Settled(d)
    <3>1. ~BadLength(c) /\ ~WholeFrame(c) /\ c.got <= 2 * Len(c.sent)
      BY <2>1 DEF Settled, FramesOK
    <3>2. ~WholeFrame(d) /\ ~BadLength(d)
      <4>1. c.got < 2 * c.done + 2
        BY <1>1, <3>1 DEF WholeFrame
      <4>2. CASE c.done < Len(c.sent)
        <5>1. c.done + 1 \in 1..Len(c.sent)
          BY <1>1, <4>2
        <5> QED
          BY <1>1, <1>2, <1>4, <3>1, <4>1, <4>2, <5>1 DEF BadLength, WholeFrame
      <4>3. CASE ~(c.done < Len(c.sent))
        <5>1. c.got <= 2 * c.done
          BY <1>1, <2>1, <3>1, <4>3 DEF FramesOK
        <5> QED
          BY <1>1, <1>4, <5>1 DEF BadLength, WholeFrame
      <4> QED
        BY <4>2, <4>3
    <3> QED
      BY <1>4, <2>1, <3>2 DEF Settled
  <2> QED
    BY <2>4, <2>5, <2>6, <2>7 DEF Loop
<1>6. ASSUME c.service = "master"
      PROVE  Len(d.answers) <= 1 /\ d.clear /\ d.key = 0 /\ ~d.ended
  BY <1>4, <1>6 DEF ConnOK, SameKey, SameEnd, SameAnswers
<1>7. ConnOK(d)
  BY <1>4, <1>5, <1>6 DEF ConnOK
<1> QED
  BY <1>7 DEF d

\* A chunk arrives at one of the services that take frames from a buffer.
LEMMA ChunkOK ==
  ASSUME NEW c, ConnOK(c), c.open, c.service # "master",
         NEW n \in (c.got + 1)..(2 * Len(c.sent))
  PROVE  \A seen : ConnOK(Chunk(c, n, seen))
<1> DEFINE x == c.clear /\ \A h \in (c.got + 1)..n : ClientKey(c, h) = c.key
           d == [c EXCEPT !.got = n, !.clear = x]
           e == [c EXCEPT !.got = n]
<1>1. /\ c \in ConnType /\ c.sent \in Seq(Frame) /\ c.done \in Nat /\ c.got \in Nat
      /\ Len(c.sent) \in Nat /\ n \in Nat
  BY DEF ConnOK, ConnType
<1>2. FramesOK(c) /\ AnswersOK(c) /\ KeysOK(c)
  BY DEF ConnOK, Loop
<1>3. x = TRUE
  <2>1. ASSUME NEW h \in (c.got + 1)..n
        PROVE  ClientKey(c, h) = c.key
    <3> DEFINE q == (h - 1) \div 2
    <3>1. 2 * c.done <= c.got
      BY <1>2 DEF FramesOK
    <3>2. h \in Nat /\ 2 * c.done <= h - 1 /\ h - 1 < 2 * Len(c.sent)
      BY <1>1, <3>1
    <3>3. q \in Nat /\ c.done <= q /\ q <= Len(c.sent) - 1
      BY <1>1, <3>2
    <3> HIDE DEF q
    <3>4. \A j \in (c.done + 1)..q : j \in (c.done + 1)..(Len(c.sent) - 1)
      BY <1>1, <3>3
    <3>5. \A j \in (c.done + 1)..q : c.sent[j] # "CRYPT"
      BY <1>2, <3>4 DEF KeysOK
    <3>6. Crypts(c.sent, c.done) = Crypts(c.sent, q)
      BY <1>1, <3>3, <3>5, CryptsBetween
    <3> QED
      BY <1>2, <3>6 DEF KeysOK, ClientKey, q
  <2> QED
    BY <1>2, <2>1 DEF KeysOK
<1> HIDE DEF x
<1>4. /\ e \in ConnType /\ e.got = n /\ e.sent = c.sent /\ e.service = c.service
      /\ e.done = c.done /\ e.open = c.open
      /\ SameKey(c, e) /\ SameEnd(c, e) /\ SameNames(c, e) /\ SameAnswers(c, e)
  BY <1>1 DEF ConnType, SameKey, SameEnd, SameNames, SameAnswers
<1>5. d = e
  <2>1. c.clear = TRUE
    BY <1>1, <1>2 DEF KeysOK, ConnType
  <2>2. d = [e EXCEPT !.clear = x]
    BY <1>1 DEF ConnType
  <2> HIDE DEF d
  <2>3. e.clear = TRUE
    BY <1>4, <2>1 DEF SameAnswers
  <2> HIDE DEF e
  <2> QED
    BY <1>3, <1>4, <2>2, <2>3 DEF ConnType
<1>6. \A seen : Chunk(c, n, seen) = Taken(d)
  BY Zenon DEF Chunk, x
<1> HIDE DEF d, e
<1>7. Loop(e)
  <2>1. FramesOK(e)
    BY <1>1, <1>2, <1>4 DEF FramesOK, Had
  <2>2. AnswersOK(e)
    BY <1>2, <1>4 DEF AnswersOK, Had, SameEnd, SameNames, SameAnswers
  <2>3. KeysOK(e)
    BY <1>2, <1>4 DEF KeysOK, Held, SameKey, SameEnd, SameAnswers
  <2> QED
    BY <2>1, <2>2, <2>3 DEF Loop
<1> DEFINE t == Taken(e)
<1>8. t \in ConnType /\ Loop(t) /\ SameStream(e, t) /\ Settled(t)
  BY <1>4, <1>7, TakenKeeps
<1> HIDE DEF t
<1>9. ConnOK(t)
  BY <1>4, <1>8 DEF ConnOK, SameStream
<1> QED
  BY <1>5, <1>6, <1>9 DEF t

\* A chunk arrives at the master server.
LEMMA MasterChunkOK ==
  ASSUME NEW c, ConnOK(c), c.service = "master", NEW n \in (c.got + 1)..(2 * Len(c.sent))
  PROVE  \A seen : ConnOK(Chunk(c, n, seen))
<1> DEFINE d == [c EXCEPT !.got = n]
           w == Write(d, "list")
<1>1. /\ c \in ConnType /\ Len(c.answers) <= 1 /\ c.clear /\ c.key = 0 /\ ~c.ended
  BY DEF ConnOK
<1>2. n \in Nat
  BY <1>1 DEF ConnType
<1>3. /\ d \in ConnType /\ d.service = c.service
      /\ SameKey(c, d) /\ SameEnd(c, d) /\ SameAnswers(c, d)
  BY <1>1, <1>2 DEF ConnType, SameKey, SameEnd, SameAnswers
<1>4. \A seen : Chunk(c, n, seen) = d \/ (d.answers = <<>> /\ Chunk(c, n, seen) = w)
  BY DEF Chunk, MasterChunk, Finish
<1> HIDE DEF d
<1>5. ConnOK(d)
  BY <1>1, <1>3 DEF ConnOK, SameKey, SameEnd, SameAnswers
<1>6. ASSUME d.answers = <<>>
      PROVE  ConnOK(w)
  <2>1. "list" \in Reply
    BY DEF Reply, Asking
  <2>2. /\ w \in ConnType /\ Wrote(d, "list", w) /\ SameFrames(d, w)
        /\ SameKey(d, w) /\ SameEnd(d, w)
    BY <1>3, <2>1, Writing
  <2> HIDE DEF w
  <2>3. w.answers = <<"list">>
    BY <1>1, <1>3, <1>6, <2>2 DEF Wrote, SameEnd
  <2>4. d.key = Held(d)
    <3>1. Crypts(d.answers, 0) = 0 /\ Len(d.answers) = 0
      BY <1>6, CryptsStep
    <3> QED
      BY <1>1, <1>3, <3>1 DEF Held, SameKey
  <2>5. Len(w.answers) <= 1
    BY <2>3
  <2> QED
    BY <1>1, <1>3, <2>2, <2>4, <2>5 DEF ConnOK, Wrote, SameFrames, SameKey, SameEnd, SameAnswers
<1> QED
  BY <1>4, <1>5, <1>6

\* Between two chunks the answers are those that the frames that have arrived
\* ask for.
LEMMA ConnAnswers ==
  ASSUME NEW c, ConnOK(c), c.service # "master"
  PROVE  c.answers = Expected(c.sent, c.got \div 2) /\ c.clear
<1> DEFINE q == c.got \div 2
           fs == c.sent
<1>1. /\ c.done \in Nat /\ c.got \in Nat /\ Len(fs) \in Nat /\ c.open \in BOOLEAN
  BY DEF ConnOK, ConnType
<1>2. FramesOK(c) /\ AnswersOK(c) /\ KeysOK(c) /\ Settled(c)
  BY DEF ConnOK, Loop
<1>3. q \in Nat /\ c.done <= q
  BY <1>1, <1>2 DEF FramesOK
<1>4. ASSUME NEW i \in (c.done + 1)..q
      PROVE  AnswerTo(fs, i) = "none"
  <2>1. CASE c.open
    <3>1. c.got < 2 * c.done + 2
      BY <1>1, <1>2, <2>1 DEF Settled, WholeFrame
    <3> QED
      BY <1>1, <3>1
  <2>2. CASE ~c.open
    <3>1. fs[c.done + 1] = "bad"
      BY <1>2, <2>2 DEF Settled, BadLength
    <3>2. CASE i = c.done + 1
      <4>1. fs[i] \notin Asking /\ ~WelcomeAt(fs, i)
        BY <3>1, <3>2 DEF Asking, WelcomeAt
      <4> HIDE DEF fs
      <4> QED
        BY <4>1 DEF AnswerTo
    <3>3. CASE i # c.done + 1
      <4>1. c.done + 1 \in 1..(i - 1) /\ fs[c.done + 1] \in Ending
        BY <1>1, <1>3, <3>1, <3>3 DEF Ending
      <4> HIDE DEF fs
      <4>2. \E j \in 1..(i - 1) : fs[j] \in Ending
        BY <4>1
      <4> QED
        BY <4>2 DEF AnswerTo
    <3> QED
      BY <3>2, <3>3
  <2> QED
    BY <1>1, <2>1, <2>2
<1> HIDE DEF q
<1>5. Expected(fs, q) = Expected(fs, c.done)
  <2> HIDE DEF fs
  <2> QED
    BY <1>1, <1>3, <1>4, ExpectedNoMore
<1> QED
  BY <1>2, <1>5 DEF AnswersOK, KeysOK, q

-----------------------------------------------------------------------------
(* The theorem *)

StreamInv == conn # Closed => ConnOK(conn)

\* For any number of frames, however TCP cuts them: of the frames that have arrived,
\* each up to the one that ends the connection has its answer, once and in order, and
\* chat deciphers every byte with the key it was enciphered with (the 'data' listeners
\* of gpcm-server.ts, gpsp-server.ts, peerchat-server.ts, server-browser.ts and
\* master-server.ts).
THEOREM AnswersCorrect == ListsSpec => []AnswersAsked
<1>1. ListsInit => StreamInv
  BY DEF ListsInit, StreamInv
<1>2. ASSUME StreamInv, [ListsNext]_listsVars
      PROVE  StreamInv'
  <2>1. CASE conn' = conn
    BY <1>2, <2>1 DEF StreamInv
  <2>2. CASE conn' = Closed
    BY <2>2 DEF StreamInv, Closed
  <2>3. CASE Opens
    BY <2>3, NewConnectionOK DEF Opens, StreamInv
  <2>4. CASE Writes
    <3>1. PICK f \in FrameKind[conn.service] : conn' = [conn EXCEPT !.sent = Append(@, f)]
      BY <2>4 DEF Writes
    <3>2. ConnOK(conn) /\ MayWrite(conn)
      BY <1>2, <2>4 DEF Writes, StreamInv
    <3>3. ConnOK(conn')
      BY <3>1, <3>2, WriteOK
    <3> QED
      BY <3>3 DEF StreamInv
  <2>5. CASE Arrives
    <3>1. PICK n \in (conn.got + 1)..(2 * Len(conn.sent)), seen \in BOOLEAN : conn' = Chunk(conn, n, seen)
      BY <2>5 DEF Arrives
    <3>2. ConnOK(conn) /\ conn.open
      BY <1>2, <2>5 DEF Arrives, StreamInv
    <3>3. ConnOK(Chunk(conn, n, seen))
      BY <3>2, ChunkOK, MasterChunkOK
    <3> QED
      BY <3>1, <3>3 DEF StreamInv
  <2> QED
    BY <1>2, <2>1, <2>2, <2>3, <2>4, <2>5
    DEF ListsNext, listsVars, net, Starts, Stops, Beats, ListsHeartbeat, StateChanged, Lost, Polled, SeedList,
        SeedUpsert, SeedQuery, SeedRegister, UdpList, Leaves, ListsTick, Restart
<1>3. StreamInv => AnswersAsked
  <2>1. ASSUME StreamInv, conn # Closed, conn.service = "master"
        PROVE  Len(conn.answers) <= 1 /\ conn.clear
    BY <2>1 DEF StreamInv, ConnOK
  <2>2. ASSUME StreamInv, conn # Closed, conn.service # "master"
        PROVE  conn.answers = Expected(conn.sent, conn.got \div 2) /\ conn.clear
    BY <2>2, ConnAnswers DEF StreamInv
  <2> QED
    BY <2>1, <2>2 DEF AnswersAsked
<1> QED
  BY <1>1, <1>2, <1>3, PTL DEF ListsSpec

-----------------------------------------------------------------------------
(* The types of the lists *)

\* Whatever servers, datagrams, seedings and readers do, the registry has keys of
\* servers with times up to the one at which they are stale, and the API lists
\* servers (GameServerRegistry, seedDedicatedServer).
THEOREM ListsTypeCorrect == ListsSpec => []ListsTypeOK
<1>1. ListsInit => ListsTypeOK
  BY EmptyMapType DEF ListsInit, ListsTypeOK, Idle
<1>2. ListsTypeOK /\ [ListsNext]_listsVars => ListsTypeOK'
  <2> SUFFICES ASSUME ListsTypeOK, [ListsNext]_listsVars
               PROVE  ListsTypeOK'
    OBVIOUS
  <2>1. /\ \A v \in GameServer : KeyOf[v] \in ListKey
        /\ Dedicated \in GameServer /\ Stale \in Nat /\ 0 \in 0..(Stale + 1)
    BY ListsAssumption
  <2>2. /\ alive \subseteq GameServer /\ api \subseteq GameServer
        /\ DOMAIN registry \subseteq ListKey /\ \A k \in DOMAIN registry : registry[k] \in 0..(Stale + 1)
        /\ seed.pc \in {"idle", "upsert", "query", "register"} /\ seed.listed \subseteq GameServer
    BY DEF ListsTypeOK, IsMap
  <2>3. IsMap(registry, ListKey, 0..(Stale + 1))
    BY DEF ListsTypeOK
  <2>4. IsMap(Pruned(registry), ListKey, 0..(Stale + 1))
    BY <2>2 DEF Pruned, Fresh, IsMap
  <2>5. CASE UNCHANGED listsVars
    BY <2>5 DEF listsVars, net, ListsTypeOK
  <2>6. ASSUME NEW v \in GameServer,
               Starts(v) \/ Stops(v) \/ Beats(v) \/ Polled(v)
        PROVE  ListsTypeOK'
    BY <2>2, <2>3, <2>6 DEF Starts, Stops, Beats, Polled, net, ListsTypeOK
  <2>7. ASSUME NEW v \in GameServer, ListsHeartbeat(v)
        PROVE  ListsTypeOK'
    <3>1. IsMap(Put(registry, KeyOf[v], 0), ListKey, 0..(Stale + 1))
      BY <2>1, <2>3, PutType
    <3> QED
      BY <2>2, <2>7, <3>1 DEF ListsHeartbeat, Upserted, ListsTypeOK
  <2>8. ASSUME NEW v \in GameServer, StateChanged(v)
        PROVE  ListsTypeOK'
    <3>1. IsMap(Delete(registry, KeyOf[v]), ListKey, 0..(Stale + 1))
      BY <2>3, DeleteType
    <3> QED
      BY <2>2, <2>8, <3>1 DEF StateChanged, ListsTypeOK
  <2>9. ASSUME NEW d, Lost(d)
        PROVE  ListsTypeOK'
    BY <2>2, <2>3, <2>9 DEF Lost, ListsTypeOK
  <2>10. CASE SeedList \/ SeedQuery
    BY <2>2, <2>3, <2>10 DEF SeedList, SeedQuery, Idle, ListsTypeOK
  <2>11. CASE SeedUpsert
    <3> DEFINE K == {KeyOf[v] : v \in seed.listed}
               m == [k \in DOMAIN registry \cup K |-> IF k \in K THEN 0 ELSE registry[k]]
    <3>1. K \subseteq ListKey
      BY <2>1, <2>2
    <3> HIDE DEF K
    <3>2. IsMap(m, ListKey, 0..(Stale + 1))
      BY <2>1, <2>2, <3>1 DEF IsMap
    <3>3. /\ registry' = m /\ UNCHANGED <<alive, api>>
          /\ seed' = [pc |-> "query", listed |-> {}]
      BY <2>11 DEF SeedUpsert, K
    <3> HIDE DEF m
    <3> QED
      BY <2>2, <3>2, <3>3 DEF ListsTypeOK
  <2>12. CASE SeedRegister
    <3>1. IsMap(Put(registry, KeyOf[Dedicated], 0), ListKey, 0..(Stale + 1))
      BY <2>1, <2>3, PutType
    <3> QED
      BY <2>1, <2>2, <2>12, <3>1 DEF SeedRegister, Upserted, Idle, ListsTypeOK
  <2>13. CASE UdpList \/ Arrives
    <3>1. registry' \in {registry, Pruned(registry)} /\ UNCHANGED <<alive, api, seed>>
      BY <2>13 DEF UdpList, Arrives, net
    <3> QED
      BY <2>2, <2>3, <2>4, <3>1 DEF ListsTypeOK
  <2>14. CASE Opens \/ Writes \/ Leaves
    BY <2>2, <2>3, <2>14 DEF Opens, Writes, Leaves, net, ListsTypeOK
  <2>15. CASE ListsTick
    <3> DEFINE m == [k \in DOMAIN registry |-> IF registry[k] <= Stale THEN registry[k] + 1 ELSE registry[k]]
    <3>1. \A k \in DOMAIN registry : m[k] \in 0..(Stale + 1)
      BY <2>1, <2>2
    <3>2. IsMap(m, ListKey, 0..(Stale + 1))
      BY <2>2, <3>1 DEF IsMap
    <3>3. registry' = m /\ UNCHANGED <<alive, api, seed>>
      BY <2>15 DEF ListsTick, net
    <3> HIDE DEF m
    <3> QED
      BY <2>2, <3>2, <3>3 DEF ListsTypeOK
  <2>16. CASE Restart
    BY <2>2, <2>16, EmptyMapType DEF Restart, Idle, ListsTypeOK
  <2> QED
    BY <2>5, <2>6, <2>7, <2>8, <2>9, <2>10, <2>11, <2>12, <2>13, <2>14, <2>15, <2>16
    DEF ListsNext
<1> QED
  BY <1>1, <1>2, PTL DEF ListsSpec

=============================================================================
