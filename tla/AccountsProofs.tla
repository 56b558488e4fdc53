--------------------------- MODULE AccountsProofs ---------------------------
(***************************************************************************)
(* Proofs about Accounts: its types; that a CD key stays with the user who *)
(* was told it is theirs; that a persona whose creation was answered has   *)
(* its statistics row; that the limits of personas and of licences are     *)
(* overrun by no more than the requests under way; and that only an unban  *)
(* ends a ban.  They hold for any number of requests.                      *)
(***************************************************************************)
EXTENDS Accounts, MapLemmas, FiniteSetTheorems, TLAPS

-----------------------------------------------------------------------------
(* The invariant. *)

\* The fields of a request that its later statements read, with the users U and
\* the keys K that there are.
WellFormed(q, U, K) ==
  /\ q.op \in Kind /\ {"op", "pc"} \subseteq DOMAIN q
  /\ q.op = "register" => {"name", "email"} \subseteq DOMAIN q /\ q.name \in Name /\ q.email \in Email
  /\ q.op = "profile" => /\ {"user", "given", "email", "banned"} \subseteq DOMAIN q
                         /\ q.email \in Email /\ q.banned \in BOOLEAN
  /\ q.op \in {"create", "claim", "grant"} => "user" \in DOMAIN q /\ q.user \in U
  /\ q.op = "create" => "name" \in DOMAIN q /\ q.name \in Name
  /\ q.op = "claim" => /\ "key" \in DOMAIN q /\ q.key \in Key
                       /\ q.pc = "update" => q.key \in K

Requests ==
  /\ DOMAIN reqs \subseteq Slot
  /\ \A r \in DOMAIN reqs : WellFormed(reqs[r], DOMAIN users, DOMAIN keys)

KeyRow == [owner: User \cup {Nobody}, ours: BOOLEAN]

Tables ==
  /\ \E n \in 1..MaxUsers : DOMAIN users = 1..n
  /\ \A u \in DOMAIN users : users[u] \in Account
  /\ made \in 0..MaxMade /\ DOMAIN personas \subseteq 1..made
  /\ \A p \in DOMAIN personas : personas[p] \in [user: DOMAIN users, name: Name]
  /\ rows \subseteq DOMAIN personas
  /\ DOMAIN keys \subseteq Key /\ \A k \in DOMAIN keys : keys[k] \in KeyRow
  /\ licences \in [User -> Nat]
  /\ begun \in 0..MaxRequests
  /\ told \in [created: SUBSET Persona, claimed: SUBSET (User \X DOMAIN keys)]

\* The requests that have passed the look at a limit and not written yet.
Creating(u) == {r \in DOMAIN reqs : /\ reqs[r].op = "create" /\ reqs[r].pc \in {"name", "insert"}
                                    /\ reqs[r].user = u}
Granting(u) == {r \in DOMAIN reqs : /\ reqs[r].op = "grant" /\ reqs[r].pc = "create"
                                    /\ reqs[r].user = u}

\* What LimitsOvershoot says, of what is written and what may still be.
WithinLimits ==
  \A u \in User :
    /\ Cardinality(PersonasOf(u)) + Cardinality(Creating(u)) < MaxPersonas + Slots
    /\ licences[u] + Cardinality(Granting(u)) <= Slots

IInv == Requests /\ Tables /\ ClaimToldOwns /\ CreatedHasStats /\ WithinLimits

-----------------------------------------------------------------------------
(* Cardinalities. *)

LEMMA SlotsFinite == IsFiniteSet(Slot) /\ Cardinality(Slot) = Slots /\ Slots \in Nat
<1>1. Slots \in Nat /\ Slots >= 1
  BY AccountsAssumption
<1> QED
  BY <1>1, FS_Interval DEF Slot

LEMMA Finite ==
  ASSUME Requests, Tables, NEW u
  PROVE  /\ IsFiniteSet(PersonasOf(u)) /\ Cardinality(PersonasOf(u)) \in Nat
         /\ IsFiniteSet(Creating(u)) /\ Cardinality(Creating(u)) \in 0..Slots
         /\ IsFiniteSet(Granting(u)) /\ Cardinality(Granting(u)) \in 0..Slots
<1>1. PersonasOf(u) \subseteq 1..made /\ made \in Nat
  BY AccountsAssumption DEF Tables, PersonasOf
<1>2. IsFiniteSet(1..made)
  BY <1>1, FS_Interval
<1>3. IsFiniteSet(PersonasOf(u))
  BY <1>1, <1>2, FS_Subset
<1>4. Creating(u) \subseteq Slot /\ Granting(u) \subseteq Slot
  BY DEF Requests, Creating, Granting
<1>5. /\ IsFiniteSet(Creating(u)) /\ Cardinality(Creating(u)) <= Slots
      /\ IsFiniteSet(Granting(u)) /\ Cardinality(Granting(u)) <= Slots
  BY <1>4, SlotsFinite, FS_Subset
<1> QED
  BY <1>3, <1>5, SlotsFinite, FS_CardinalityType

\* A step after which no user has more personas, licences or requests past the
\* look at a limit.
LEMMA LimitsKept ==
  ASSUME Requests, Tables, WithinLimits, licences' = licences,
         \A u \in User : /\ PersonasOf(u)' \subseteq PersonasOf(u)
                         /\ Creating(u)' \subseteq Creating(u)
                         /\ Granting(u)' \subseteq Granting(u)
  PROVE  WithinLimits'
<1> SUFFICES ASSUME NEW u \in User
             PROVE  /\ Cardinality(PersonasOf(u)') + Cardinality(Creating(u)') < MaxPersonas + Slots
                    /\ licences'[u] + Cardinality(Granting(u)') <= Slots
  BY DEF WithinLimits
<1>1. /\ IsFiniteSet(PersonasOf(u)) /\ Cardinality(PersonasOf(u)) \in Nat
      /\ IsFiniteSet(Creating(u)) /\ Cardinality(Creating(u)) \in Nat
      /\ IsFiniteSet(Granting(u)) /\ Cardinality(Granting(u)) \in Nat
  BY Finite, SlotsFinite
<1>2. /\ Cardinality(PersonasOf(u)') <= Cardinality(PersonasOf(u))
      /\ Cardinality(Creating(u)') <= Cardinality(Creating(u))
      /\ Cardinality(Granting(u)') <= Cardinality(Granting(u))
  BY <1>1, FS_Subset
<1>3. /\ Cardinality(PersonasOf(u)') \in Nat /\ Cardinality(Creating(u)') \in Nat
      /\ Cardinality(Granting(u)') \in Nat
  BY <1>1, FS_Subset, FS_CardinalityType
<1>4. /\ Cardinality(PersonasOf(u)) + Cardinality(Creating(u)) < MaxPersonas + Slots
      /\ licences[u] + Cardinality(Granting(u)) <= Slots
  BY DEF WithinLimits
<1>5. MaxPersonas \in Nat /\ Slots \in Nat /\ licences[u] \in Nat
  BY AccountsAssumption DEF Tables
<1> QED
  BY <1>1, <1>2, <1>3, <1>4, <1>5

-----------------------------------------------------------------------------
(* How requests go on. *)

\* A step that takes no row of users or keys away leaves requests well formed.
LEMMA FormKept ==
  ASSUME NEW q, NEW U, NEW K, NEW V, NEW L, WellFormed(q, U, K), U \subseteq V, K \subseteq L
  PROVE  WellFormed(q, V, L)
BY DEF WellFormed

\* Nobody passes the look at a limit.
NoneMore == \A u : Creating(u)' \subseteq Creating(u) /\ Granting(u)' \subseteq Granting(u)

LEMMA Ended ==
  ASSUME Requests, NEW r \in DOMAIN reqs, End(r),
         DOMAIN users \subseteq DOMAIN users', DOMAIN keys \subseteq DOMAIN keys'
  PROVE  Requests' /\ NoneMore
<1>1. DOMAIN reqs' = DOMAIN reqs \ {r} /\ \A s \in DOMAIN reqs' : reqs'[s] = reqs[s]
  BY ZenonT(40), DeleteLookup DEF End
<1>2. Requests'
  <2>1. ASSUME NEW s \in DOMAIN reqs' PROVE WellFormed(reqs'[s], DOMAIN users', DOMAIN keys')
    BY <1>1, FormKept DEF Requests
  <2> QED
    BY <1>1, <2>1 DEF Requests
<1>3. NoneMore
  BY <1>1 DEF NoneMore, Creating, Granting
<1> QED
  BY <1>2, <1>3

\* The statement of request r is followed by another one.
LEMMA Moved ==
  ASSUME Requests, NEW r \in DOMAIN reqs, NEW pc, Goto(r, pc),
         DOMAIN users \subseteq DOMAIN users', DOMAIN keys \subseteq DOMAIN keys',
         reqs[r].op = "claim" /\ pc = "update" => reqs[r].key \in DOMAIN keys'
  PROVE  /\ Requests'
         /\ DOMAIN reqs' = DOMAIN reqs
         /\ reqs'[r].op = reqs[r].op /\ reqs'[r].pc = pc
         /\ "user" \in DOMAIN reqs[r] => reqs'[r].user = reqs[r].user
         /\ \A s \in DOMAIN reqs : s # r => reqs'[s] = reqs[s]
<1> DEFINE q == reqs[r]
           t == [q EXCEPT !.pc = pc]
<1>1. WellFormed(q, DOMAIN users, DOMAIN keys)
  BY DEF Requests
<1>2. /\ DOMAIN t = DOMAIN q /\ t.pc = pc
      /\ \A x \in DOMAIN q : x # "pc" => t[x] = q[x]
  BY <1>1 DEF WellFormed
<1>3. /\ t.op = q.op
      /\ "user" \in DOMAIN q => t.user = q.user
      /\ "name" \in DOMAIN q => t.name = q.name
      /\ "email" \in DOMAIN q => t.email = q.email
      /\ "key" \in DOMAIN q => t.key = q.key
  BY <1>1 DEF WellFormed
<1>4. reqs' = [reqs EXCEPT ![r] = t]
  BY DEF Goto
<1> HIDE DEF t
<1>5. /\ DOMAIN reqs' = DOMAIN reqs /\ reqs'[r] = t
      /\ \A s \in DOMAIN reqs : s # r => reqs'[s] = reqs[s]
  BY <1>4
<1>6. WellFormed(t, DOMAIN users', DOMAIN keys')
  BY <1>1, <1>2, <1>3 DEF WellFormed
<1>7. \A s \in DOMAIN reqs : s # r => WellFormed(reqs[s], DOMAIN users', DOMAIN keys')
  BY FormKept DEF Requests
<1>8. Requests'
  BY <1>5, <1>6, <1>7 DEF Requests
<1> QED
  BY <1>2, <1>3, <1>5, <1>8

\* Unless this is the statement that looks at a limit, nobody passes one.
LEMMA MovedOn ==
  ASSUME Requests, NEW r \in DOMAIN reqs, NEW pc, Goto(r, pc),
         DOMAIN users \subseteq DOMAIN users', DOMAIN keys \subseteq DOMAIN keys',
         reqs[r].op = "claim" /\ pc = "update" => reqs[r].key \in DOMAIN keys',
         reqs[r].op = "create" => reqs[r].pc \in {"name", "insert"} \/ pc \notin {"name", "insert"},
         reqs[r].op # "grant"
  PROVE  Requests' /\ NoneMore
<1>1. WellFormed(reqs[r], DOMAIN users, DOMAIN keys)
  BY DEF Requests
<1>2. NoneMore
  BY <1>1, Moved DEF NoneMore, Creating, Granting, WellFormed
<1> QED
  BY <1>2, Moved

\* A request begins.
LEMMA BeginStep ==
  ASSUME IInv, NEW r \in Slot, NEW q, Open(r), Begin(r, q),
         WellFormed(q, DOMAIN users, DOMAIN keys),
         q.op = "create" => q.pc = "count", q.op = "grant" => q.pc = "has"
  PROVE  IInv'
<1>1. /\ r \notin DOMAIN reqs /\ begun < MaxRequests
      /\ reqs' = Put(reqs, r, q) /\ begun' = begun + 1
      /\ users' = users /\ personas' = personas /\ made' = made /\ rows' = rows
      /\ keys' = keys /\ licences' = licences /\ told' = told
  BY DEF Open, Begin
<1>2. DOMAIN reqs' = DOMAIN reqs \cup {r} /\ reqs'[r] = q /\ \A s \in DOMAIN reqs : reqs'[s] = reqs[s]
  BY <1>1 DEF Put
<1>4. Requests'
  BY <1>1, <1>2 DEF IInv, Requests
<1>5. begun' \in 0..MaxRequests
  BY <1>1, AccountsAssumption DEF IInv, Tables
<1>6. Tables'
  BY <1>1, <1>5 DEF IInv, Tables
<1>7. \A u : Creating(u)' \subseteq Creating(u) /\ Granting(u)' \subseteq Granting(u)
  BY <1>2 DEF Creating, Granting
<1>8. WithinLimits'
  BY <1>1, <1>7, LimitsKept DEF IInv, PersonasOf
<1> QED
  BY <1>1, <1>4, <1>6, <1>8 DEF IInv, ClaimToldOwns, CreatedHasStats

\* A statement that only reads, and looks at no limit.
LEMMA ReadStep ==
  ASSUME IInv, Reads, Requests', NoneMore
  PROVE  IInv'
<1>1. Tables'
  BY DEF IInv, Tables, Reads
<1>2. WithinLimits'
  BY LimitsKept DEF IInv, Reads, NoneMore, PersonasOf
<1> QED
  BY <1>1, <1>2 DEF IInv, Reads, ClaimToldOwns, CreatedHasStats

-----------------------------------------------------------------------------
(* Requests begin. *)

LEMMA RequestBegins ==
  ASSUME IInv, NEW r \in Slot, Request(r)
  PROVE  IInv'
<1> USE DEF Kind
<1>1. CASE Register(r)
  <2>1. PICK name \in Name, email \in Email :
          Begin(r, [op |-> "register", pc |-> "name", name |-> name, email |-> email])
    BY <1>1 DEF Register
  <2> DEFINE q == [op |-> "register", pc |-> "name", name |-> name, email |-> email]
  <2>2. WellFormed(q, DOMAIN users, DOMAIN keys) /\ q.op = "register"
    BY DEF WellFormed
  <2> HIDE DEF q
  <2>3. Open(r) /\ Begin(r, q)
    BY <1>1, <2>1 DEF Register, q
  <2> QED
    BY <2>2, <2>3, BeginStep
<1>2. CASE Moderate(r)
  <2>1. PICK op \in {"ban", "unban"}, u \in User : Begin(r, [op |-> op, pc |-> "find", user |-> u])
    BY <1>2 DEF Moderate
  <2> DEFINE q == [op |-> op, pc |-> "find", user |-> u]
  <2>2. WellFormed(q, DOMAIN users, DOMAIN keys) /\ q.op \in {"ban", "unban"}
    BY DEF WellFormed
  <2> HIDE DEF q
  <2>3. Open(r) /\ Begin(r, q)
    BY <1>2, <2>1 DEF Moderate, q
  <2> QED
    BY <2>2, <2>3, BeginStep
<1>3. CASE UpdateProfile(r) \/ UpdateAccount(r)
  <2>1. PICK u \in DOMAIN users, given \in SUBSET Column, email \in Email, banned \in BOOLEAN,
             pc \in {"find", "update"} :
          Begin(r, [op |-> "profile", pc |-> pc, user |-> u, given |-> given,
                    email |-> email, banned |-> banned, row |-> users[u]])
    BY <1>3 DEF UpdateProfile, UpdateAccount, Column
  <2> DEFINE q == [op |-> "profile", pc |-> pc, user |-> u, given |-> given,
                   email |-> email, banned |-> banned, row |-> users[u]]
  <2>2. WellFormed(q, DOMAIN users, DOMAIN keys) /\ q.op = "profile"
    BY DEF WellFormed
  <2> HIDE DEF q
  <2>3. Open(r) /\ Begin(r, q)
    BY <1>3, <2>1 DEF UpdateProfile, UpdateAccount, q
  <2> QED
    BY <2>2, <2>3, BeginStep
<1>4. CASE CreatePersona(r)
  <2>1. PICK u \in DOMAIN users, name \in Name :
          Begin(r, [op |-> "create", pc |-> "count", user |-> u, name |-> name, persona |-> Nobody])
    BY <1>4 DEF CreatePersona
  <2> DEFINE q == [op |-> "create", pc |-> "count", user |-> u, name |-> name, persona |-> Nobody]
  <2>2. WellFormed(q, DOMAIN users, DOMAIN keys) /\ q.op = "create" /\ q.pc = "count"
    BY DEF WellFormed
  <2> HIDE DEF q
  <2>3. Open(r) /\ Begin(r, q)
    BY <1>4, <2>1 DEF CreatePersona, q
  <2> QED
    BY <2>2, <2>3, BeginStep
<1>5. CASE DeletePersona(r)
  <2>1. PICK u \in DOMAIN users, p \in Persona :
          Begin(r, [op |-> "delete", pc |-> "find", user |-> u, persona |-> p])
    BY <1>5 DEF DeletePersona
  <2> DEFINE q == [op |-> "delete", pc |-> "find", user |-> u, persona |-> p]
  <2>2. WellFormed(q, DOMAIN users, DOMAIN keys) /\ q.op = "delete"
    BY DEF WellFormed
  <2> HIDE DEF q
  <2>3. Open(r) /\ Begin(r, q)
    BY <1>5, <2>1 DEF DeletePersona, q
  <2> QED
    BY <2>2, <2>3, BeginStep
<1>6. CASE Claim(r)
  <2>1. PICK u \in DOMAIN users, k \in Key, slug \in BOOLEAN :
          Begin(r, [op |-> "claim", pc |-> "find", user |-> u, key |-> k, slug |-> slug])
    BY <1>6 DEF Claim
  <2> DEFINE q == [op |-> "claim", pc |-> "find", user |-> u, key |-> k, slug |-> slug]
  <2>2. WellFormed(q, DOMAIN users, DOMAIN keys) /\ q.op = "claim"
    BY DEF WellFormed
  <2> HIDE DEF q
  <2>3. Open(r) /\ Begin(r, q)
    BY <1>6, <2>1 DEF Claim, q
  <2> QED
    BY <2>2, <2>3, BeginStep
<1>7. CASE Grant(r)
  <2>1. PICK u \in DOMAIN users : Begin(r, [op |-> "grant", pc |-> "has", user |-> u])
    BY <1>7 DEF Grant
  <2> DEFINE q == [op |-> "grant", pc |-> "has", user |-> u]
  <2>2. WellFormed(q, DOMAIN users, DOMAIN keys) /\ q.op = "grant" /\ q.pc = "has"
    BY DEF WellFormed
  <2> HIDE DEF q
  <2>3. Open(r) /\ Begin(r, q)
    BY <1>7, <2>1 DEF Grant, q
  <2> QED
    BY <2>2, <2>3, BeginStep
<1> QED
  BY <1>1, <1>2, <1>3, <1>4, <1>5, <1>6, <1>7 DEF Request

-----------------------------------------------------------------------------
(* Statements that only read. *)

LEMMA EndOnly ==
  ASSUME IInv, NEW r \in DOMAIN reqs, End(r), Reads
  PROVE  IInv'
<1>1. Requests' /\ NoneMore
  BY Ended DEF IInv, Reads
<1> QED
  BY <1>1, ReadStep

LEMMA GotoOnly ==
  ASSUME IInv, NEW r \in DOMAIN reqs, NEW pc, Goto(r, pc), Reads,
         reqs[r].op = "claim" /\ pc = "update" => reqs[r].key \in DOMAIN keys,
         reqs[r].op = "create" => reqs[r].pc \in {"name", "insert"},
         reqs[r].op # "grant"
  PROVE  IInv'
<1>1. Requests' /\ NoneMore
  BY MovedOn DEF IInv, Reads
<1> QED
  BY <1>1, ReadStep

LEMMA FaultStep ==
  ASSUME IInv, NEW r \in Slot, Fault(r)
  PROVE  IInv'
BY EndOnly DEF Fault

LEMMA ReadProfileStep ==
  ASSUME IInv, NEW r \in Slot, ReadProfile(r)
  PROVE  IInv'
<1> DEFINE q == reqs[r]
           t == [q EXCEPT !.row = users[q.user], !.pc = "email"]
<1>1. r \in DOMAIN reqs /\ q.op = "profile" /\ Reads
  BY DEF ReadProfile, At
<1>2. CASE End(r)
  BY <1>1, <1>2, EndOnly
<1>3. CASE reqs' = [reqs EXCEPT ![r] = t]
  <2>1. /\ WellFormed(q, DOMAIN users, DOMAIN keys)
        /\ {"op", "pc", "user", "given", "email", "banned"} \subseteq DOMAIN q
        /\ q.email \in Email /\ q.banned \in BOOLEAN
    BY <1>1 DEF IInv, Requests, WellFormed
  <2>2. /\ DOMAIN t = DOMAIN q /\ t.op = q.op /\ t.email = q.email /\ t.banned = q.banned
    BY <2>1
  <2> HIDE DEF t
  <2>3. WellFormed(t, DOMAIN users, DOMAIN keys)
    BY <1>1, <2>1, <2>2 DEF WellFormed
  <2>4. /\ DOMAIN reqs' = DOMAIN reqs /\ reqs'[r] = t
        /\ \A s \in DOMAIN reqs : s # r => reqs'[s] = reqs[s]
    BY <1>1, <1>3
  <2>5. Requests'
    BY <1>1, <2>3, <2>4 DEF IInv, Requests, Reads
  <2>6. NoneMore
    BY <1>1, <2>2, <2>4 DEF NoneMore, Creating, Granting
  <2> QED
    BY <1>1, <2>5, <2>6, ReadStep
<1>4. reqs' = [reqs EXCEPT ![r].row = users[reqs[r].user], ![r].pc = "email"]
        => reqs' = [reqs EXCEPT ![r] = t]
  BY <1>1
<1> QED
  BY <1>2, <1>3, <1>4 DEF ReadProfile

LEMMA LookStep ==
  ASSUME IInv, NEW r \in Slot,
         \/ FindUsername(r) \/ FindEmail(r) \/ FindModerated(r) \/ FindOtherEmail(r)
         \/ FindPersonaName(r) \/ FindDeleted(r)
  PROVE  IInv'
<1>1. /\ r \in DOMAIN reqs /\ Reads /\ reqs[r].op \notin {"claim", "grant"}
      /\ reqs[r].op = "create" => reqs[r].pc = "name"
  BY DEF FindUsername, FindEmail, FindModerated, FindOtherEmail, FindPersonaName, FindDeleted, At
<1>2. End(r) \/ \E pc \in {"email", "insert", "set", "update", "delete"} : Goto(r, pc)
  BY DEF FindUsername, FindEmail, FindModerated, FindOtherEmail, FindPersonaName, FindDeleted
<1> QED
  BY <1>1, <1>2, EndOnly, GotoOnly

LEMMA FindKeyStep ==
  ASSUME IInv, NEW r \in Slot, FindKey(r)
  PROVE  IInv'
<1>1. r \in DOMAIN reqs /\ Reads /\ reqs[r].op = "claim"
  BY DEF FindKey, At
<1>2. End(r) \/ Goto(r, "insert") \/ (Goto(r, "update") /\ reqs[r].key \in DOMAIN keys)
  BY DEF FindKey
<1> QED
  BY <1>1, <1>2, EndOnly, GotoOnly

-----------------------------------------------------------------------------
(* The looks at a limit, which let a request pass. *)

LEMMA CountStep ==
  ASSUME IInv, NEW r \in Slot, CountPersonas(r)
  PROVE  IInv'
<1> DEFINE w == reqs[r].user
<1>1. r \in DOMAIN reqs /\ Reads /\ reqs[r].op = "create" /\ reqs[r].pc = "count"
  BY DEF CountPersonas, At
<1>2. CASE End(r)
  BY <1>1, <1>2, EndOnly
<1>3. CASE BelowLimit(w) /\ Goto(r, "name")
  <2>1. Requests' /\ DOMAIN reqs' = DOMAIN reqs /\ reqs'[r].op = "create"
        /\ \A s \in DOMAIN reqs : s # r => reqs'[s] = reqs[s]
    BY <1>1, <1>3, Moved DEF IInv, Reads
  <2>2. reqs'[r].user = w
    <3>1. "user" \in DOMAIN reqs[r]
      BY <1>1 DEF IInv, Requests, WellFormed
    <3> QED
      BY <1>1, <1>3, <3>1, Moved DEF IInv, Reads
  <2>3. Tables'
    BY <1>1 DEF IInv, Tables, Reads
  <2>4. WithinLimits'
    <3> SUFFICES ASSUME NEW u \in User
                 PROVE  /\ Cardinality(PersonasOf(u)') + Cardinality(Creating(u)') < MaxPersonas + Slots
                        /\ licences'[u] + Cardinality(Granting(u)') <= Slots
      BY DEF WithinLimits
    <3>1. PersonasOf(u)' = PersonasOf(u) /\ licences' = licences
      BY <1>1 DEF Reads, PersonasOf
    <3>2. Granting(u)' = Granting(u)
      BY <1>1, <2>1 DEF Granting
    <3>3. CASE u # w
      <4>1. Creating(u)' = Creating(u)
        BY <1>1, <2>1, <2>2, <3>3 DEF Creating
      <4> QED
        BY <3>1, <3>2, <4>1 DEF IInv, WithinLimits
    <3>4. CASE u = w
      <4>1. Cardinality(PersonasOf(u)) < MaxPersonas
        BY <1>3, <3>4 DEF BelowLimit
      <4>2. Creating(u)' \subseteq Slot
        BY <2>1 DEF Requests, Creating
      <4>3. Cardinality(Creating(u)') <= Slots /\ Cardinality(Creating(u)') \in Nat
        BY <4>2, SlotsFinite, FS_Subset, FS_CardinalityType
      <4>4. Cardinality(PersonasOf(u)) \in Nat /\ MaxPersonas \in Nat /\ Slots \in Nat
        BY Finite, AccountsAssumption DEF IInv
      <4>5. licences[u] + Cardinality(Granting(u)) <= Slots
        BY DEF IInv, WithinLimits
      <4> QED
        BY <3>1, <3>2, <4>1, <4>3, <4>4, <4>5
    <3> QED
      BY <3>3, <3>4
  <2> QED
    BY <1>1, <2>1, <2>3, <2>4 DEF IInv, Reads, ClaimToldOwns, CreatedHasStats
<1> QED
  BY <1>2, <1>3 DEF CountPersonas

LEMMA FindEntitlementStep ==
  ASSUME IInv, NEW r \in Slot, FindEntitlement(r)
  PROVE  IInv'
<1> DEFINE w == reqs[r].user
<1>1. r \in DOMAIN reqs /\ Reads /\ reqs[r].op = "grant" /\ reqs[r].pc = "has"
  BY DEF FindEntitlement, At
<1>2. CASE End(r)
  BY <1>1, <1>2, EndOnly
<1>3. CASE ~HasEntitlement(w) /\ Goto(r, "create")
  <2>1. Requests' /\ DOMAIN reqs' = DOMAIN reqs /\ reqs'[r].op = "grant"
        /\ \A s \in DOMAIN reqs : s # r => reqs'[s] = reqs[s]
    BY <1>1, <1>3, Moved DEF IInv, Reads
  <2>2. reqs'[r].user = w
    <3>1. "user" \in DOMAIN reqs[r]
      BY <1>1 DEF IInv, Requests, WellFormed
    <3> QED
      BY <1>1, <1>3, <3>1, Moved DEF IInv, Reads
  <2>3. Tables'
    BY <1>1 DEF IInv, Tables, Reads
  <2>4. WithinLimits'
    <3> SUFFICES ASSUME NEW u \in User
                 PROVE  /\ Cardinality(PersonasOf(u)') + Cardinality(Creating(u)') < MaxPersonas + Slots
                        /\ licences'[u] + Cardinality(Granting(u)') <= Slots
      BY DEF WithinLimits
    <3>1. PersonasOf(u)' = PersonasOf(u) /\ licences' = licences
      BY <1>1 DEF Reads, PersonasOf
    <3>2. Creating(u)' = Creating(u)
      BY <1>1, <2>1 DEF Creating
    <3>3. CASE u # w
      <4>1. Granting(u)' = Granting(u)
        BY <1>1, <2>1, <2>2, <3>3 DEF Granting
      <4> QED
        BY <3>1, <3>2, <4>1 DEF IInv, WithinLimits
    <3>4. CASE u = w
      <4>1. licences[u] = 0
        BY <1>3, <3>4 DEF IInv, Tables, HasEntitlement
      <4>2. Granting(u)' \subseteq Slot
        BY <2>1 DEF Requests, Granting
      <4>3. Cardinality(Granting(u)') <= Slots /\ Cardinality(Granting(u)') \in Nat
        BY <4>2, SlotsFinite, FS_Subset, FS_CardinalityType
      <4> QED
        BY <3>1, <3>2, <4>1, <4>3 DEF IInv, WithinLimits
    <3> QED
      BY <3>3, <3>4
  <2> QED
    BY <1>1, <2>1, <2>3, <2>4 DEF IInv, Reads, ClaimToldOwns, CreatedHasStats
<1> QED
  BY <1>2, <1>3 DEF FindEntitlement

-----------------------------------------------------------------------------
(* Statements that write. *)

\* The sets of Creating and Granting when the request ends.
LEMMA EndedOne ==
  ASSUME Requests, NEW r \in DOMAIN reqs, End(r), NEW u
  PROVE  Creating(u)' = Creating(u) \ {r} /\ Granting(u)' = Granting(u) \ {r}
<1>1. DOMAIN reqs' = DOMAIN reqs \ {r} /\ \A s \in DOMAIN reqs' : reqs'[s] = reqs[s]
  BY ZenonT(40), DeleteLookup DEF End
<1> QED
  BY <1>1 DEF Creating, Granting

\* users is written: no row goes, and the rows keep their types.
LEMMA UsersStep ==
  ASSUME IInv, NEW r \in DOMAIN reqs, End(r),
         UNCHANGED <<personas, made, rows, keys, licences, begun, told>>,
         NEW n \in 1..MaxUsers, DOMAIN users' = 1..n, DOMAIN users \subseteq DOMAIN users',
         \A u \in DOMAIN users' : users'[u] \in Account
  PROVE  IInv'
<1>1. Requests' /\ NoneMore
  BY Ended DEF IInv
<1>2. \A p \in DOMAIN personas : personas[p] \in [user: DOMAIN users', name: Name]
  BY DEF IInv, Tables
<1>3. Tables'
  BY <1>2 DEF IInv, Tables
<1>4. WithinLimits'
  BY <1>1, LimitsKept DEF IInv, NoneMore, PersonasOf
<1> QED
  BY <1>1, <1>3, <1>4 DEF IInv, ClaimToldOwns, CreatedHasStats

LEMMA InsertUserStep ==
  ASSUME IInv, NEW r \in Slot, InsertUser(r)
  PROVE  IInv'
<1> DEFINE q == reqs[r]
           a == [name |-> q.name, email |-> q.email, banned |-> FALSE]
           v == Cardinality(DOMAIN users) + 1
<1>1. /\ r \in DOMAIN reqs /\ q.op = "register" /\ End(r)
      /\ UNCHANGED <<personas, made, rows, keys, licences, begun, told>>
  BY DEF InsertUser, At
<1>2. PICK n \in 1..MaxUsers : DOMAIN users = 1..n
  BY DEF IInv, Tables
<1>3. v = n + 1 /\ MaxUsers \in Nat
  BY <1>2, FS_Interval, AccountsAssumption
<1>4. a \in Account
  BY <1>1 DEF IInv, Requests, WellFormed, Account
<1> HIDE DEF a, v
<1>5. users' = users \/ (v \in User /\ users' = Put(users, v, a))
  BY DEF InsertUser, a, v
<1>6. \A u \in DOMAIN users : users[u] \in Account
  BY DEF IInv, Tables
<1>7. CASE users' = users
  BY <1>1, <1>2, <1>6, <1>7, UsersStep
<1>8. CASE v \in User /\ users' = Put(users, v, a)
  <2>1. DOMAIN users' = 1..(n + 1) /\ n + 1 \in 1..MaxUsers
    BY <1>2, <1>3, <1>8 DEF Put, User
  <2>2. \A u \in DOMAIN users' : users'[u] \in Account
    BY <1>4, <1>6, <1>8 DEF Put
  <2>3. DOMAIN users \subseteq DOMAIN users'
    BY <1>2, <2>1
  <2> QED
    BY <1>1, <2>1, <2>2, <2>3, UsersStep
<1> QED
  BY <1>5, <1>7, <1>8

LEMMA SetBannedStep ==
  ASSUME IInv, NEW r \in Slot, SetBanned(r)
  PROVE  IInv'
<1> DEFINE w == reqs[r].user
           b == (reqs[r].op = "ban")
<1>1. /\ r \in DOMAIN reqs /\ End(r)
      /\ UNCHANGED <<personas, made, rows, keys, licences, begun, told>>
      /\ users' = [users EXCEPT ![w].banned = b]
  BY DEF SetBanned, At
<1>2. PICK n \in 1..MaxUsers : DOMAIN users = 1..n
  BY DEF IInv, Tables
<1>3. b \in BOOLEAN
  OBVIOUS
<1> HIDE DEF w, b
<1>4. DOMAIN users' = DOMAIN users /\ \A u \in DOMAIN users' : users'[u] \in Account
  BY <1>1, <1>3 DEF IInv, Tables, Account
<1> QED
  BY <1>1, <1>2, <1>4, UsersStep

LEMMA WriteProfileStep ==
  ASSUME IInv, NEW r \in Slot, WriteProfile(r)
  PROVE  IInv'
<1> DEFINE q == reqs[r]
<1>1. /\ r \in DOMAIN reqs /\ End(r) /\ q.op = "profile"
      /\ UNCHANGED <<personas, made, rows, keys, licences, begun, told>>
      /\ users' = users \/ users' = [users EXCEPT ![q.user] = UpdatedRow(q)]
  BY DEF WriteProfile, At
<1>2. PICK n \in 1..MaxUsers : DOMAIN users = 1..n
  BY DEF IInv, Tables
<1>3. q.email \in Email /\ q.banned \in BOOLEAN
  BY <1>1 DEF IInv, Requests, WellFormed
<1> HIDE DEF q
<1> DEFINE a == UpdatedRow(q)
<1>4. \A u \in DOMAIN users : users[u] \in Account
  BY DEF IInv, Tables
<1>5. q.user \in DOMAIN users => a \in Account
  BY <1>3, <1>4 DEF Account, UpdatedRow
<1>6. users' = users \/ users' = [users EXCEPT ![q.user] = a]
  BY <1>1
<1> HIDE DEF a
<1>7. DOMAIN users' = DOMAIN users /\ \A u \in DOMAIN users' : users'[u] \in Account
  <2>1. CASE users' = users
    BY <1>4, <2>1
  <2>2. CASE users' = [users EXCEPT ![q.user] = a]
    BY <1>4, <1>5, <2>2
  <2> QED
    BY <1>6, <2>1, <2>2
<1> QED
  BY <1>1, <1>2, <1>7, UsersStep

LEMMA InsertPersonaStep ==
  ASSUME IInv, NEW r \in Slot, InsertPersona(r)
  PROVE  IInv'
<1> DEFINE q == reqs[r]
           p == made + 1
           t == [q EXCEPT !.pc = "stats", !.persona = p]
           v == [user |-> q.user, name |-> q.name]
<1>1. /\ r \in DOMAIN reqs /\ q.op = "create" /\ q.pc = "insert"
      /\ UNCHANGED <<users, rows, keys, licences, begun, told>>
  BY DEF InsertPersona, At
<1>2. /\ WellFormed(q, DOMAIN users, DOMAIN keys)
      /\ {"op", "pc", "user", "name"} \subseteq DOMAIN q /\ q.user \in DOMAIN users /\ q.name \in Name
  BY <1>1 DEF IInv, Requests, WellFormed
<1>3. CASE UNCHANGED <<personas, made>> /\ End(r)
  BY <1>1, <1>3, EndOnly DEF Reads
<1>4. CASE /\ p \in Persona /\ personas' = Put(personas, p, v) /\ made' = p
           /\ reqs' = [reqs EXCEPT ![r] = t]
  <2>1. made \in Nat /\ p \in 1..MaxMade /\ p \notin DOMAIN personas /\ made' \in 0..MaxMade
    BY <1>4, AccountsAssumption DEF IInv, Tables, Persona
  <2>2. v \in [user: DOMAIN users, name: Name] /\ v.user = q.user
    BY <1>2
  <2>3. DOMAIN t = DOMAIN q /\ t.op = q.op /\ t.pc = "stats" /\ t.user = q.user /\ t.name = q.name
    BY <1>2
  <2> HIDE DEF t, v
  <2>4. WellFormed(t, DOMAIN users, DOMAIN keys)
    BY <1>1, <1>2, <2>3 DEF WellFormed
  <2>5. /\ DOMAIN reqs' = DOMAIN reqs /\ reqs'[r] = t
        /\ \A s \in DOMAIN reqs : s # r => reqs'[s] = reqs[s]
    BY <1>1, <1>4
  <2>6. Requests'
    BY <1>1, <2>4, <2>5 DEF IInv, Requests
  <2>7. /\ DOMAIN personas' = DOMAIN personas \cup {p} /\ personas'[p] = v
        /\ \A x \in DOMAIN personas : personas'[x] = personas[x]
    BY <1>4, <2>1 DEF Put
  <2>8. Tables'
    <3>1. DOMAIN personas' \subseteq 1..made'
      BY <1>4, <2>1, <2>7 DEF IInv, Tables
    <3>2. \A x \in DOMAIN personas' : personas'[x] \in [user: DOMAIN users, name: Name]
      BY <2>2, <2>7 DEF IInv, Tables
    <3>3. rows \subseteq DOMAIN personas'
      BY <2>7 DEF IInv, Tables
    <3> QED
      BY <1>1, <2>1, <3>1, <3>2, <3>3 DEF IInv, Tables
  <2>9. WithinLimits'
    <3> SUFFICES ASSUME NEW u \in User
                 PROVE  /\ Cardinality(PersonasOf(u)') + Cardinality(Creating(u)') < MaxPersonas + Slots
                        /\ licences'[u] + Cardinality(Granting(u)') <= Slots
      BY DEF WithinLimits
    <3>1. Granting(u)' = Granting(u) /\ licences' = licences
      BY <1>1, <2>3, <2>5 DEF Granting
    <3>2. CASE u # q.user
      <4>1. PersonasOf(u)' = PersonasOf(u) /\ Creating(u)' = Creating(u)
        BY <1>1, <2>2, <2>3, <2>5, <2>7, <3>2 DEF PersonasOf, Creating
      <4> QED
        BY <3>1, <4>1 DEF IInv, WithinLimits
    <3>3. CASE u = q.user
      <4>1. PersonasOf(u)' = PersonasOf(u) \cup {p} /\ p \notin PersonasOf(u)
        BY <2>1, <2>2, <2>7, <3>3 DEF PersonasOf
      <4>2. Creating(u)' = Creating(u) \ {r} /\ r \in Creating(u)
        BY <1>1, <2>3, <2>5, <3>3 DEF Creating
      <4>3. /\ IsFiniteSet(PersonasOf(u)) /\ Cardinality(PersonasOf(u)) \in Nat
            /\ IsFiniteSet(Creating(u)) /\ Cardinality(Creating(u)) \in 0..Slots
        BY Finite DEF IInv
      <4>4. Cardinality(PersonasOf(u)') = Cardinality(PersonasOf(u)) + 1
        BY <4>1, <4>3, FS_AddElement
      <4>5. Cardinality(Creating(u)') = Cardinality(Creating(u)) - 1
        BY <4>2, <4>3, FS_RemoveElement
      <4>6. /\ Cardinality(PersonasOf(u)) + Cardinality(Creating(u)) < MaxPersonas + Slots
            /\ licences[u] + Cardinality(Granting(u)) <= Slots
        BY DEF IInv, WithinLimits
      <4>7. MaxPersonas \in Nat /\ Slots \in Nat
        BY AccountsAssumption
      <4> QED
        BY <3>1, <4>3, <4>4, <4>5, <4>6, <4>7
    <3> QED
      BY <3>2, <3>3
  <2> QED
    BY <1>1, <2>6, <2>8, <2>9 DEF IInv, ClaimToldOwns, CreatedHasStats
<1>5. reqs' = [reqs EXCEPT ![r].pc = "stats", ![r].persona = p] => reqs' = [reqs EXCEPT ![r] = t]
  BY <1>1
<1> QED
  BY <1>3, <1>4, <1>5 DEF InsertPersona

LEMMA InsertStatsStep ==
  ASSUME IInv, NEW r \in Slot, InsertStats(r)
  PROVE  IInv'
<1> DEFINE p == reqs[r].persona
<1>1. /\ r \in DOMAIN reqs /\ End(r)
      /\ UNCHANGED <<users, personas, made, keys, licences, begun>>
  BY DEF InsertStats, At
<1>2. Requests' /\ NoneMore
  BY <1>1, Ended DEF IInv
<1>3. CASE p \in DOMAIN personas /\ rows' = rows \cup {p}
           /\ told' = [told EXCEPT !.created = @ \cup {p}]
  <2>1. p \in Persona
    <3>1. made \in 0..MaxMade /\ DOMAIN personas \subseteq 1..made /\ MaxMade \in Nat
      BY AccountsAssumption DEF IInv, Tables
    <3> QED
      BY <1>3, <3>1 DEF Persona
  <2>2. /\ told' \in [created: SUBSET Persona, claimed: SUBSET (User \X DOMAIN keys)]
        /\ told'.created = told.created \cup {p} /\ told'.claimed = told.claimed
    <3>1. told \in [created: SUBSET Persona, claimed: SUBSET (User \X DOMAIN keys)]
      BY DEF IInv, Tables
    <3> DEFINE more == told.created \cup {p}
    <3>2. more \in SUBSET Persona
      BY <2>1, <3>1
    <3>3. told' = [told EXCEPT !.created = more]
      BY <1>3
    <3> HIDE DEF more
    <3>4. told' \in [created: SUBSET Persona, claimed: SUBSET (User \X DOMAIN keys)]
          /\ told'.created = more /\ told'.claimed = told.claimed
      BY <3>1, <3>2, <3>3
    <3> QED
      BY <3>4 DEF more
  <2>3. Tables'
    BY <1>1, <1>3, <2>2 DEF IInv, Tables
  <2>4. ClaimToldOwns' /\ CreatedHasStats'
    BY <1>1, <1>3, <2>2 DEF IInv, ClaimToldOwns, CreatedHasStats
  <2>5. WithinLimits'
    BY <1>1, <1>2, LimitsKept DEF IInv, NoneMore, PersonasOf
  <2> QED
    BY <1>2, <2>3, <2>4, <2>5 DEF IInv
<1>4. CASE UNCHANGED <<rows, told>>
  BY <1>1, <1>4, EndOnly DEF Reads
<1> QED
  BY <1>3, <1>4 DEF InsertStats

LEMMA DeleteRowStep ==
  ASSUME IInv, NEW r \in Slot, DeleteRow(r)
  PROVE  IInv'
<1> DEFINE p == reqs[r].persona
           less == told.created \ {p}
<1>1. /\ r \in DOMAIN reqs /\ End(r)
      /\ UNCHANGED <<users, made, keys, licences, begun>>
      /\ personas' = Delete(personas, p) /\ rows' = rows \ {p}
      /\ told' = [told EXCEPT !.created = less]
  BY DEF DeleteRow, At
<1>2. Requests' /\ NoneMore
  BY <1>1, Ended DEF IInv
<1>3. /\ DOMAIN personas' = DOMAIN personas \ {p}
      /\ \A x \in DOMAIN personas' : personas'[x] = personas[x]
  BY ZenonT(40), <1>1, DeleteLookup
<1>4. told \in [created: SUBSET Persona, claimed: SUBSET (User \X DOMAIN keys)]
      /\ less \in SUBSET Persona
  BY DEF IInv, Tables
<1>5. /\ told' \in [created: SUBSET Persona, claimed: SUBSET (User \X DOMAIN keys)]
      /\ told'.created = told.created \ {p} /\ told'.claimed = told.claimed
  <2> HIDE DEF less
  <2>1. /\ told' \in [created: SUBSET Persona, claimed: SUBSET (User \X DOMAIN keys)]
        /\ told'.created = less /\ told'.claimed = told.claimed
    BY <1>1, <1>4
  <2> QED
    BY <2>1 DEF less
<1>6. Tables'
  BY <1>1, <1>3, <1>5 DEF IInv, Tables
<1>7. ClaimToldOwns' /\ CreatedHasStats'
  BY <1>1, <1>5 DEF IInv, ClaimToldOwns, CreatedHasStats
<1>8. WithinLimits'
  BY <1>1, <1>2, <1>3, LimitsKept DEF IInv, NoneMore, PersonasOf
<1> QED
  BY <1>2, <1>6, <1>7, <1>8 DEF IInv

LEMMA UsersOf ==
  ASSUME Tables
  PROVE  DOMAIN users \subseteq User
<1>1. PICK n \in 1..MaxUsers : DOMAIN users = 1..n
  BY DEF Tables
<1> QED
  BY <1>1, AccountsAssumption DEF User

LEMMA ClaimUpdateStep ==
  ASSUME IInv, NEW r \in Slot, ClaimUpdate(r)
  PROVE  IInv'
<1> DEFINE q == reqs[r]
           row == [keys[q.key] EXCEPT !.owner = q.user]
           more == told.claimed \cup {<<q.user, q.key>>}
<1>1. /\ r \in DOMAIN reqs /\ End(r) /\ q.op = "claim" /\ q.pc = "update"
      /\ UNCHANGED <<users, personas, made, rows, licences, begun>>
  BY DEF ClaimUpdate, At
<1>2. q.key \in DOMAIN keys /\ q.user \in User
  BY <1>1, UsersOf DEF IInv, Requests, WellFormed
<1>3. CASE UNCHANGED <<keys, told>>
  BY <1>1, <1>3, EndOnly DEF Reads
<1>4. CASE /\ keys[q.key].owner = Nobody /\ keys' = [keys EXCEPT ![q.key] = row]
           /\ told' = [told EXCEPT !.claimed = more]
  <2>1. row \in KeyRow /\ row.owner = q.user
    BY <1>2 DEF IInv, Tables, KeyRow
  <2>2. told \in [created: SUBSET Persona, claimed: SUBSET (User \X DOMAIN keys)]
    BY DEF IInv, Tables
  <2>3. more \in SUBSET (User \X DOMAIN keys)
    BY <1>2, <2>2
  <2> HIDE DEF row
  <2>4. /\ DOMAIN keys' = DOMAIN keys /\ keys'[q.key] = row
        /\ \A k \in DOMAIN keys : k # q.key => keys'[k] = keys[k]
    BY <1>2, <1>4
  <2>5. /\ told' \in [created: SUBSET Persona, claimed: SUBSET (User \X DOMAIN keys)]
        /\ told'.created = told.created /\ told'.claimed = more
    <3> HIDE DEF more
    <3> QED
      BY <1>4, <2>2, <2>3
  <2>6. Requests' /\ NoneMore
    BY <1>1, <2>4, Ended DEF IInv
  <2>7. Tables'
    <3>1. \A k \in DOMAIN keys' : keys'[k] \in KeyRow
      BY <2>1, <2>4 DEF IInv, Tables
    <3> QED
      BY <1>1, <2>4, <2>5, <3>1 DEF IInv, Tables
  <2>8. ClaimToldOwns'
    <3>1. ASSUME NEW c \in told.claimed PROVE c[2] \in DOMAIN keys /\ c[2] # q.key /\ keys[c[2]].owner = c[1]
      <4>1. c[1] \in User /\ c[2] \in DOMAIN keys
        BY <2>2
      <4>2. keys[c[2]].owner = c[1]
        BY DEF IInv, ClaimToldOwns
      <4> QED
        BY <1>4, <4>1, <4>2 DEF User, Nobody
    <3>2. ASSUME NEW c \in told.claimed PROVE keys'[c[2]].owner = c[1]
      BY <2>4, <3>1
    <3>3. keys'[q.key].owner = q.user
      BY <2>1, <2>4
    <3> QED
      BY <2>5, <3>2, <3>3 DEF ClaimToldOwns
  <2>9. WithinLimits'
    BY <1>1, <2>6, LimitsKept DEF IInv, NoneMore, PersonasOf
  <2> QED
    BY <1>1, <2>5, <2>6, <2>7, <2>8, <2>9 DEF IInv, CreatedHasStats
<1>5. keys' = [keys EXCEPT ![q.key].owner = q.user] => keys' = [keys EXCEPT ![q.key] = row]
  OBVIOUS
<1> QED
  BY <1>3, <1>4, <1>5 DEF ClaimUpdate, StillFree, TellClaimed

LEMMA ClaimInsertStep ==
  ASSUME IInv, NEW r \in Slot, ClaimInsert(r)
  PROVE  IInv'
<1> DEFINE q == reqs[r]
           row == [owner |-> q.user, ours |-> TRUE]
           more == told.claimed \cup {<<q.user, q.key>>}
<1>1. /\ r \in DOMAIN reqs /\ End(r) /\ q.op = "claim"
      /\ UNCHANGED <<users, personas, made, rows, licences, begun>>
  BY DEF ClaimInsert, At
<1>2. q.key \in Key /\ q.user \in User
  BY <1>1, UsersOf DEF IInv, Requests, WellFormed
<1>3. CASE UNCHANGED <<keys, told>>
  BY <1>1, <1>3, EndOnly DEF Reads
<1>4. CASE /\ q.key \notin DOMAIN keys /\ keys' = Put(keys, q.key, row)
           /\ told' = [told EXCEPT !.claimed = more]
  <2>1. row \in KeyRow /\ row.owner = q.user
    BY <1>2 DEF KeyRow
  <2>2. told \in [created: SUBSET Persona, claimed: SUBSET (User \X DOMAIN keys)]
    BY DEF IInv, Tables
  <2> HIDE DEF row
  <2>3. /\ DOMAIN keys' = DOMAIN keys \cup {q.key} /\ keys'[q.key] = row
        /\ \A k \in DOMAIN keys : keys'[k] = keys[k]
    BY <1>4 DEF Put
  <2>4. more \in SUBSET (User \X DOMAIN keys')
    BY <1>2, <2>2, <2>3
  <2>5. /\ told' \in [created: SUBSET Persona, claimed: SUBSET (User \X DOMAIN keys')]
        /\ told'.created = told.created /\ told'.claimed = more
    <3> HIDE DEF more
    <3> QED
      BY <1>4, <2>2, <2>4
  <2>6. Requests' /\ NoneMore
    BY <1>1, <2>3, Ended DEF IInv
  <2>7. Tables'
    <3>1. DOMAIN keys' \subseteq Key /\ \A k \in DOMAIN keys' : keys'[k] \in KeyRow
      BY <1>2, <2>1, <2>3 DEF IInv, Tables
    <3> QED
      BY <1>1, <2>5, <3>1 DEF IInv, Tables
  <2>8. ClaimToldOwns'
    <3>1. ASSUME NEW c \in told.claimed PROVE keys'[c[2]].owner = c[1]
      BY <2>2, <2>3 DEF IInv, ClaimToldOwns
    <3>2. keys'[q.key].owner = q.user
      BY <2>1, <2>3
    <3> QED
      BY <2>5, <3>1, <3>2 DEF ClaimToldOwns
  <2>9. WithinLimits'
    BY <1>1, <2>6, LimitsKept DEF IInv, NoneMore, PersonasOf
  <2> QED
    BY <1>1, <2>5, <2>6, <2>7, <2>8, <2>9 DEF IInv, CreatedHasStats
<1> QED
  BY <1>3, <1>4 DEF ClaimInsert, TellClaimed

LEMMA CreateLicenceStep ==
  ASSUME IInv, NEW r \in Slot, CreateLicence(r)
  PROVE  IInv'
<1> DEFINE w == reqs[r].user
<1>1. /\ r \in DOMAIN reqs /\ reqs[r].op = "grant" /\ reqs[r].pc = "create" /\ End(r)
      /\ licences' = [licences EXCEPT ![w] = @ + 1]
      /\ UNCHANGED <<users, personas, made, rows, keys, begun, told>>
  BY DEF CreateLicence, At
<1>2. Requests' /\ NoneMore
  BY <1>1, Ended DEF IInv
<1>3. licences \in [User -> Nat]
  BY DEF IInv, Tables
<1>4. licences' \in [User -> Nat]
  <2>1. w \in User
    BY <1>1, UsersOf DEF IInv, Requests, WellFormed
  <2> HIDE DEF w
  <2>2. licences[w] + 1 \in Nat
    BY <1>3, <2>1
  <2> QED
    BY <1>1, <1>3, <2>2
<1>5. Tables'
  BY <1>1, <1>4 DEF IInv, Tables
<1>6. WithinLimits'
  <2> SUFFICES ASSUME NEW u \in User
               PROVE  /\ Cardinality(PersonasOf(u)') + Cardinality(Creating(u)') < MaxPersonas + Slots
                      /\ licences'[u] + Cardinality(Granting(u)') <= Slots
    BY DEF WithinLimits
  <2>1. PersonasOf(u)' = PersonasOf(u)
    BY <1>1 DEF PersonasOf
  <2>2. Creating(u)' = Creating(u)
    <3>1. Creating(u)' = Creating(u) \ {r} /\ r \notin Creating(u)
      BY <1>1, EndedOne DEF IInv, Creating
    <3> QED
      BY <3>1
  <2>3. Granting(u)' = Granting(u) \ {r}
    BY <1>1, EndedOne DEF IInv
  <2>4. /\ Cardinality(PersonasOf(u)) + Cardinality(Creating(u)) < MaxPersonas + Slots
        /\ licences[u] + Cardinality(Granting(u)) <= Slots
    BY DEF IInv, WithinLimits
  <2>5. IsFiniteSet(Granting(u)) /\ Cardinality(Granting(u)) \in 0..Slots
    BY Finite DEF IInv
  <2>6. CASE u # w
    <3>1. Granting(u)' = Granting(u)
      BY <1>1, <2>3, <2>6 DEF Granting
    <3> QED
      BY <1>1, <1>3, <2>1, <2>2, <2>4, <2>6, <3>1
  <2>7. CASE u = w
    <3>1. r \in Granting(u)
      BY <1>1, <2>7 DEF Granting
    <3>2. Cardinality(Granting(u)') = Cardinality(Granting(u)) - 1
      BY <2>3, <2>5, <3>1, FS_RemoveElement
    <3>3. licences'[u] = licences[u] + 1 /\ licences[u] \in Nat
      BY <1>1, <1>3, <2>7
    <3> QED
      BY <2>1, <2>2, <2>4, <2>5, <3>2, <3>3, SlotsFinite
  <2> QED
    BY <2>6, <2>7
<1> QED
  BY <1>1, <1>2, <1>5, <1>6 DEF IInv, ClaimToldOwns, CreatedHasStats

-----------------------------------------------------------------------------
(* The invariant holds. *)

LEMMA InitIInv == Init => IInv
<1> SUFFICES ASSUME Init PROVE IInv
  OBVIOUS
<1> DEFINE a == CHOOSE x \in Account : ~x.banned
<1>1. PICK K \in SUBSET Key : keys \in [K -> [owner: {Nobody}, ours: BOOLEAN]]
  BY DEF Init
<1>2. a \in Account
  <2>1. PICK w \in Word, e \in Email : TRUE
    BY AccountsAssumption
  <2> DEFINE x == [name |-> [word |-> w, upper |-> FALSE], email |-> e, banned |-> FALSE]
  <2>2. x \in Account /\ ~x.banned
    BY DEF Account, Name
  <2> HIDE DEF x
  <2> QED
    BY <2>2
<1>3. users = Put(EmptyMap, 1, a)
  BY DEF Init
<1> HIDE DEF a
<1>4. DOMAIN users = 1..1 /\ users[1] = a
  BY <1>3 DEF Put, EmptyMap
<1>5. /\ personas = EmptyMap /\ made = 0 /\ rows = {} /\ licences = [u \in User |-> 0]
      /\ reqs = EmptyMap /\ begun = 0 /\ told = [created |-> {}, claimed |-> {}]
  BY DEF Init
<1>6. /\ MaxUsers \in Nat \ {0} /\ MaxMade \in Nat /\ MaxRequests \in Nat
      /\ MaxPersonas \in Nat \ {0} /\ Slots \in Nat
  BY AccountsAssumption
<1>7. DOMAIN personas = {} /\ DOMAIN reqs = {}
  BY <1>5 DEF EmptyMap
<1>8. Requests
  BY <1>7 DEF Requests
<1>9. Tables
  <2>1. \E n \in 1..MaxUsers : DOMAIN users = 1..n
    BY <1>4, <1>6
  <2>2. \A u \in DOMAIN users : users[u] \in Account
    BY <1>2, <1>4
  <2>3. DOMAIN keys \subseteq Key /\ \A k \in DOMAIN keys : keys[k] \in KeyRow
    BY <1>1 DEF KeyRow
  <2>4. told \in [created: SUBSET Persona, claimed: SUBSET (User \X DOMAIN keys)]
    BY <1>5
  <2> QED
    BY <1>5, <1>6, <1>7, <2>1, <2>2, <2>3, <2>4 DEF Tables
<1>10. ClaimToldOwns /\ CreatedHasStats
  BY <1>5 DEF ClaimToldOwns, CreatedHasStats
<1>11. WithinLimits
  <2> SUFFICES ASSUME NEW u \in User
               PROVE  /\ Cardinality(PersonasOf(u)) + Cardinality(Creating(u)) < MaxPersonas + Slots
                      /\ licences[u] + Cardinality(Granting(u)) <= Slots
    BY DEF WithinLimits
  <2>1. PersonasOf(u) = {} /\ Creating(u) = {} /\ Granting(u) = {} /\ licences[u] = 0
    BY <1>5, <1>7 DEF PersonasOf, Creating, Granting
  <2> QED
    BY <1>6, <2>1, FS_EmptySet
<1> QED
  BY <1>8, <1>9, <1>10, <1>11 DEF IInv

LEMMA StepIInv == IInv /\ [Next]_vars => IInv'
<1> SUFFICES ASSUME IInv, [Next]_vars PROVE IInv'
  OBVIOUS
<1>1. CASE UNCHANGED vars
  BY <1>1 DEF vars, IInv, Requests, Tables, ClaimToldOwns, CreatedHasStats, WithinLimits,
              PersonasOf, Creating, Granting
<1>2. ASSUME NEW r \in Slot,
             Request(r) \/ UserStep(r) \/ PersonaStep(r) \/ KeyStep(r) \/ Fault(r)
      PROVE  IInv'
  <2>1. CASE Request(r)
    BY <2>1, RequestBegins
  <2>2. CASE UserStep(r)
    BY <2>2, LookStep, InsertUserStep, SetBannedStep, ReadProfileStep, WriteProfileStep DEF UserStep
  <2>3. CASE PersonaStep(r)
    BY <2>3, LookStep, CountStep, InsertPersonaStep, InsertStatsStep, DeleteRowStep DEF PersonaStep
  <2>4. CASE KeyStep(r)
    BY <2>4, FindKeyStep, ClaimUpdateStep, ClaimInsertStep, FindEntitlementStep, CreateLicenceStep
       DEF KeyStep
  <2>5. CASE Fault(r)
    BY <2>5, FaultStep
  <2> QED
    BY <1>2, <2>1, <2>2, <2>3, <2>4, <2>5
<1> QED
  BY <1>1, <1>2 DEF Next

\* The tables stay of their types, every request has the fields its later
\* statements read, and the invariant holds, whatever requests run beside each
\* other.
THEOREM IInvAlways == Spec => []IInv
<1> QED
  BY InitIInv, StepIInv, PTL DEF Spec

LEMMA IInvTypes == IInv => TypeOK
<1> SUFFICES ASSUME IInv PROVE TypeOK
  OBVIOUS
<1>1. DOMAIN users \subseteq User
  BY UsersOf DEF IInv
<1>2. \A k \in DOMAIN keys : keys[k].owner \in User \cup {Nobody}
  BY DEF IInv, Tables, KeyRow
<1>3. \A r \in DOMAIN reqs : reqs[r].op \in Kind
  BY DEF IInv, Requests, WellFormed
<1>4. told.created \subseteq Persona /\ told.claimed \subseteq User \X DOMAIN keys
  BY DEF IInv, Tables
<1> QED
  BY <1>1, <1>2, <1>3, <1>4 DEF IInv, Requests, Tables, TypeOK

\* The tables and the requests are of their types (the columns that
\* UserRepository, PersonaRepository and EntitlementRepository write).
THEOREM AccountsTypeCorrect == Spec => []TypeOK
<1> QED
  BY IInvAlways, IInvTypes, PTL

\* A user who was told that a CD key is theirs keeps it, for any number of
\* users, keys and requests (EntitlementRepository.claimKey and create).
THEOREM ClaimsStand == Spec => []ClaimToldOwns
<1>1. IInv => ClaimToldOwns
  BY DEF IInv
<1> QED
  BY <1>1, IInvAlways, PTL

\* A persona whose creation was answered has its statistics row until it is
\* deleted, whatever deletes run beside the creation (PersonaRepository.create).
THEOREM StatsRowKept == Spec => []CreatedHasStats
<1>1. IInv => CreatedHasStats
  BY DEF IInv
<1> QED
  BY <1>1, IInvAlways, PTL

\* The limits are overrun by no more than the requests under way, for any limit
\* (POST /personas and grantUserGame).
THEOREM LimitsHold == Spec => []LimitsOvershoot
<1>1. IInv => LimitsOvershoot
  <2> SUFFICES ASSUME IInv PROVE LimitsOvershoot
    OBVIOUS
  <2>1. DOMAIN users \subseteq User
    BY UsersOf DEF IInv
  <2>2. ASSUME NEW u \in User
        PROVE  Cardinality(PersonasOf(u)) < MaxPersonas + Slots /\ licences[u] <= Slots
    <3>1. /\ Cardinality(PersonasOf(u)) \in Nat /\ Cardinality(Creating(u)) \in 0..Slots
          /\ Cardinality(Granting(u)) \in 0..Slots
      BY Finite DEF IInv
    <3>2. /\ Cardinality(PersonasOf(u)) + Cardinality(Creating(u)) < MaxPersonas + Slots
          /\ licences[u] + Cardinality(Granting(u)) <= Slots
      BY DEF IInv, WithinLimits
    <3>3. MaxPersonas \in Nat /\ Slots \in Nat /\ licences[u] \in Nat
      BY AccountsAssumption DEF IInv, Tables
    <3> QED
      BY <3>1, <3>2, <3>3
  <2> QED
    BY <2>1, <2>2 DEF LimitsOvershoot
<1> QED
  BY <1>1, IInvAlways, PTL

\* Only DELETE /bans/:id and an internal update whose body gives isBanned as false
\* end a ban, whatever updates of other columns were under way when it was set
\* (UserRepository.update writes only the columns given).
THEOREM BansHold == Spec => BanStands
<1> DEFINE Stands == \A u \in DOMAIN users : users[u].banned /\ ~users'[u].banned
                       => \E r \in Slot : Lifts(r, u)
<1>1. ASSUME IInv, [Next]_vars PROVE [Stands]_vars
  <2> SUFFICES ASSUME NEW u \in DOMAIN users, users[u].banned, ~users'[u].banned
               PROVE  \E r \in Slot : Lifts(r, u)
    OBVIOUS
  <2>1. users' # users
    OBVIOUS
  <2>2. PICK r \in Slot : InsertUser(r) \/ SetBanned(r) \/ WriteProfile(r)
    <3>1. PICK r \in Slot : Request(r) \/ UserStep(r) \/ PersonaStep(r) \/ KeyStep(r) \/ Fault(r)
      BY <1>1, <2>1 DEF Next, vars
    <3>2. ~Fault(r)
      BY <2>1 DEF Fault, Reads
    <3>3. ~Request(r)
      BY <2>1 DEF Request, Register, Moderate, UpdateProfile, UpdateAccount, CreatePersona,
                  DeletePersona, Claim, Grant, Begin
    <3>4. ~PersonaStep(r)
      BY <2>1 DEF PersonaStep, CountPersonas, FindPersonaName, InsertPersona, InsertStats,
                  FindDeleted, DeleteRow, Reads
    <3>5. ~KeyStep(r)
      BY <2>1 DEF KeyStep, FindKey, ClaimUpdate, ClaimInsert, FindEntitlement, CreateLicence, Reads
    <3> QED
      BY <2>1, <3>1, <3>2, <3>3, <3>4, <3>5
         DEF UserStep, FindUsername, FindEmail, FindModerated, ReadProfile, FindOtherEmail, Reads
  <2>3. ~InsertUser(r)
    <3> SUFFICES ASSUME InsertUser(r) PROVE FALSE
      OBVIOUS
    <3> DEFINE v == Cardinality(DOMAIN users) + 1
               a == [name |-> reqs[r].name, email |-> reqs[r].email, banned |-> FALSE]
    <3>1. PICK n \in 1..MaxUsers : DOMAIN users = 1..n
      BY <1>1 DEF IInv, Tables
    <3>2. v = n + 1 /\ MaxUsers \in Nat
      BY <3>1, FS_Interval, AccountsAssumption
    <3>3. users' = Put(users, v, a)
      BY <2>1 DEF InsertUser
    <3>4. u # v
      BY <3>1, <3>2
    <3> HIDE DEF v, a
    <3>5. users'[u] = users[u]
      BY <3>3, <3>4 DEF Put
    <3> QED
      BY <3>5
  <2>4. CASE WriteProfile(r)
    <3> DEFINE q == reqs[r]
               a == UpdatedRow(q)
    <3>1. users' = [users EXCEPT ![q.user] = a] /\ At(r, "profile", "update")
      BY <2>1, <2>4 DEF WriteProfile
    <3>2. users[u] \in Account
      BY <1>1 DEF IInv, Tables
    <3>3. u = q.user => a.banned = IF "banned" \in q.given THEN q.banned ELSE users[u].banned
      BY <3>2 DEF Account, UpdatedRow
    <3> HIDE DEF a
    <3>4. q.user = u
      BY <3>1
    <3>5. "banned" \in q.given /\ ~q.banned
      BY <3>1, <3>3, <3>4
    <3> QED
      BY <3>1, <3>4, <3>5 DEF Lifts
  <2>5. CASE SetBanned(r)
    <3> DEFINE w == reqs[r].user
               b == (reqs[r].op = "ban")
    <3>1. users' = [users EXCEPT ![w].banned = b] /\ (At(r, "ban", "set") \/ At(r, "unban", "set"))
      BY <2>5 DEF SetBanned
    <3>2. users[u] \in Account
      BY <1>1 DEF IInv, Tables
    <3>3. u = w /\ ~b
      <4> HIDE DEF w, b
      <4> QED
        BY <3>1, <3>2 DEF Account
    <3> QED
      BY <3>1, <3>3 DEF At, Lifts
  <2> QED
    BY <2>2, <2>3, <2>4, <2>5
<1>2. Spec => [][Stands]_vars
  BY <1>1, IInvAlways, PTL DEF Spec
<1> QED
  BY <1>2 DEF BanStands

=============================================================================
