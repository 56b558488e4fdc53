------------------------------ MODULE Accounts ------------------------------
(***************************************************************************)
(* The accounts of the API service: users and their bans, personas and     *)
(* their statistics rows, CD keys and licences.  Every request runs one    *)
(* statement after the other, without a transaction, beside the others;    *)
(* what it read may be old when it writes.  The database keeps the unique  *)
(* constraints, which compare exact strings, while the look-ups ignore     *)
(* case.                                                                   *)
(*                                                                         *)
(* A name is a word and the case it is spelled in.  Passwords, countries,  *)
(* dates, tokens, the flag of administrators and audit records are left    *)
(* out; their statements are kept as the points where a request waits.     *)
(* There is one game, mohpa.                                               *)
(***************************************************************************)
EXTENDS Naturals, FiniteSets, Maps

CONSTANTS
  Key, Word, Email,    \* CD keys, what names are made of, and e-mail addresses
  MaxPersonas,         \* maxPersonasPerUser
  Slots,               \* bound on the requests under way
  MaxUsers, MaxMade,   \* bounds on the accounts and the personas made
  MaxRequests          \* bound on the requests of a behaviour

ASSUME AccountsAssumption ==
  /\ {MaxPersonas, Slots, MaxUsers, MaxMade, MaxRequests} \subseteq Nat \ {0}
  /\ Word # {} /\ Email # {}

VARIABLES
  users,     \* the table users
  personas,  \* the table personas
  rows,      \* the personas that have a row in persona_stats
  keys,      \* the table entitlements, by CD key
  made,      \* personas made so far, those deleted included
  licences,  \* per user, the licences granted without a key
  reqs,      \* the requests under way
  begun,     \* requests begun
  told       \* the answers: personas created and keys claimed

vars == <<users, personas, made, rows, keys, licences, reqs, begun, told>>

User == 1..MaxUsers
Persona == 1..MaxMade
Slot == 1..Slots
Nobody == 0

Name == [word: Word, upper: BOOLEAN]
Account == [name: Name, email: Email, banned: BOOLEAN]
Column == {"email", "banned"}
Kind == {"register", "ban", "unban", "profile", "create", "delete", "claim", "grant"}

\* Somebody has an account.  Keys are seeded outside of the service, for this
\* game or another, or made when they are first claimed.
Init ==
  /\ users = Put(EmptyMap, 1, CHOOSE a \in Account : ~a.banned)
  /\ personas = EmptyMap /\ made = 0 /\ rows = {}
  /\ \E K \in SUBSET Key : keys \in [K -> [owner: {Nobody}, ours: BOOLEAN]]
  /\ licences = [u \in User |-> 0]
  /\ reqs = EmptyMap /\ begun = 0
  /\ told = [created |-> {}, claimed |-> {}]

Open(r) == r \notin DOMAIN reqs /\ 1..(r - 1) \subseteq DOMAIN reqs /\ begun < MaxRequests

Begin(r, req) ==
  /\ reqs' = Put(reqs, r, req) /\ begun' = begun + 1
  /\ UNCHANGED <<users, personas, made, rows, keys, licences, told>>

At(r, op, pc) == r \in DOMAIN reqs /\ reqs[r].op = op /\ reqs[r].pc = pc

\* The request goes on, or is answered.
Goto(r, pc) == reqs' = [reqs EXCEPT ![r].pc = pc]
End(r) == reqs' = Delete(reqs, r)

\* A statement that only reads leaves the tables as they are.
Reads == UNCHANGED <<users, personas, made, rows, keys, licences, begun, told>>

\* A statement that fails, or an unhandled error: the request is answered 500.
Fault(r) == r \in DOMAIN reqs /\ End(r) /\ Reads

-----------------------------------------------------------------------------
(* Users *)

\* Mutant: names are compared with their case.
SpelledAs(table, name) == {x \in DOMAIN table : table[x].name = name}

\* LOWER(name) = LOWER($1)
Named(table, name) == {x \in DOMAIN table : table[x].name.word = name.word}
WithEmail(email) == {u \in DOMAIN users : users[u].email = email}

Register(r) ==
  /\ Open(r)
  /\ \E name \in Name, email \in Email :
       Begin(r, [op |-> "register", pc |-> "name", name |-> name, email |-> email])

FindUsername(r) ==
  /\ At(r, "register", "name")
  /\ IF Named(users, reqs[r].name) = {} THEN Goto(r, "email") ELSE End(r)
  /\ Reads

FindEmail(r) ==
  /\ At(r, "register", "email")
  /\ IF WithEmail(reqs[r].email) = {} THEN Goto(r, "insert") ELSE End(r)
  /\ Reads

\* bcrypt.hash and INSERT; a UNIQUE violation is a fault.
InsertUser(r) ==
  /\ At(r, "register", "insert")
  /\ LET q == reqs[r] IN
     IF \E u \in DOMAIN users : users[u].name = q.name \/ users[u].email = q.email
     THEN users' = users
     ELSE LET u == Cardinality(DOMAIN users) + 1 IN
          u \in User /\ users' = Put(users, u, [name |-> q.name, email |-> q.email, banned |-> FALSE])
  /\ End(r)
  /\ UNCHANGED <<personas, made, rows, keys, licences, begun, told>>

\* POST /bans and DELETE /bans/:id
Moderate(r) ==
  /\ Open(r)
  /\ \E op \in {"ban", "unban"}, u \in User :
       Begin(r, [op |-> op, pc |-> "find", user |-> u])

FindModerated(r) ==
  /\ \E op \in {"ban", "unban"} : At(r, op, "find")
  /\ IF reqs[r].user \in DOMAIN users THEN Goto(r, "set") ELSE End(r)
  /\ Reads

\* setBanned, and the audit record after it.
SetBanned(r) ==
  /\ \E op \in {"ban", "unban"} : At(r, op, "set")
  /\ users' = [users EXCEPT ![reqs[r].user].banned = (reqs[r].op = "ban")]
  /\ End(r)
  /\ UNCHANGED <<personas, made, rows, keys, licences, begun, told>>

\* PUT /me with a new e-mail address: the row is read, the address looked up,
\* and the column is written.  The other columns are left out.
UpdateProfile(r) ==
  /\ Open(r)
  /\ \E u \in DOMAIN users, email \in Email :
       Begin(r, [op |-> "profile", pc |-> "find", user |-> u, given |-> {"email"},
                 email |-> email, banned |-> FALSE, row |-> users[u]])

\* PUT /internal/users/:id writes without a look, whatever columns the body gives.
\* The engine's UpdateAccount gives no more than an e-mail address and a country.
UpdateAccount(r) ==
  /\ Open(r)
  /\ \E u \in DOMAIN users, given \in SUBSET Column, email \in Email, banned \in BOOLEAN :
       Begin(r, [op |-> "profile", pc |-> "update", user |-> u, given |-> given,
                 email |-> email, banned |-> banned, row |-> users[u]])

ReadProfile(r) ==
  /\ At(r, "profile", "find")
  /\ LET q == reqs[r] IN
     IF users[q.user].email = q.email THEN End(r)
     ELSE reqs' = [reqs EXCEPT ![r].row = users[q.user], ![r].pc = "email"]
  /\ Reads

FindOtherEmail(r) ==
  /\ At(r, "profile", "email")
  /\ IF WithEmail(reqs[r].email) \subseteq {reqs[r].user} THEN Goto(r, "update") ELSE End(r)
  /\ Reads

\* Mutant: the row that was read is written back with the changes.
WholeRow(q) ==
  [q.row EXCEPT !.email = IF "email" \in q.given THEN q.email ELSE @,
                !.banned = IF "banned" \in q.given THEN q.banned ELSE @]

\* userRepo.update: only the columns given.
UpdatedRow(q) ==
  [users[q.user] EXCEPT !.email = IF "email" \in q.given THEN q.email ELSE @,
                        !.banned = IF "banned" \in q.given THEN q.banned ELSE @]

WriteProfile(r) ==
  /\ At(r, "profile", "update")
  /\ LET q == reqs[r] IN
     users' = IF "email" \in q.given => WithEmail(q.email) \subseteq {q.user}
              THEN [users EXCEPT ![q.user] = UpdatedRow(q)] ELSE users
  /\ End(r)
  /\ UNCHANGED <<personas, made, rows, keys, licences, begun, told>>

-----------------------------------------------------------------------------
(* Personas *)

PersonasOf(u) == {p \in DOMAIN personas : personas[p].user = u}

CreatePersona(r) ==
  /\ Open(r)
  /\ \E u \in DOMAIN users, name \in Name :
       Begin(r, [op |-> "create", pc |-> "count", user |-> u, name |-> name, persona |-> Nobody])

\* Mutant: the limit is compared one off.
BelowOrAt(u) == Cardinality(PersonasOf(u)) <= MaxPersonas

BelowLimit(u) == Cardinality(PersonasOf(u)) < MaxPersonas

CountPersonas(r) ==
  /\ At(r, "create", "count")
  /\ IF BelowLimit(reqs[r].user) THEN Goto(r, "name") ELSE End(r)
  /\ Reads

FindPersonaName(r) ==
  /\ At(r, "create", "name")
  /\ IF Named(personas, reqs[r].name) = {} THEN Goto(r, "insert") ELSE End(r)
  /\ Reads

\* INSERT INTO personas; a UNIQUE violation is a fault.
InsertPersona(r) ==
  /\ At(r, "create", "insert")
  /\ LET q == reqs[r] IN
     IF SpelledAs(personas, q.name) # {} THEN UNCHANGED <<personas, made>> /\ End(r)
     ELSE LET p == made + 1 IN
          /\ p \in Persona
          /\ personas' = Put(personas, p, [user |-> q.user, name |-> q.name])
          /\ made' = p
          /\ reqs' = [reqs EXCEPT ![r].pc = "stats", ![r].persona = p]
  /\ UNCHANGED <<users, rows, keys, licences, begun, told>>

\* Mutant: the answer does not wait for the statistics row.
AnswerFirst(r) ==
  /\ At(r, "create", "stats")
  /\ told' = [told EXCEPT !.created = @ \cup {reqs[r].persona}]
  /\ End(r)
  /\ UNCHANGED <<users, personas, made, rows, keys, licences, begun>>

\* INSERT INTO persona_stats ... ON CONFLICT DO NOTHING: the foreign key fails
\* if the persona was deleted meanwhile.
InsertStats(r) ==
  /\ At(r, "create", "stats")
  /\ LET p == reqs[r].persona IN
     IF p \in DOMAIN personas
     THEN rows' = rows \cup {p} /\ told' = [told EXCEPT !.created = @ \cup {p}]
     ELSE UNCHANGED <<rows, told>>
  /\ End(r)
  /\ UNCHANGED <<users, personas, made, keys, licences, begun>>

DeletePersona(r) ==
  /\ Open(r)
  /\ \E u \in DOMAIN users, p \in Persona :
       Begin(r, [op |-> "delete", pc |-> "find", user |-> u, persona |-> p])

\* 404, 403, or the persona is the user's own.  An administrator may delete any.
FindDeleted(r) ==
  /\ At(r, "delete", "find")
  /\ LET q == reqs[r] IN
     IF q.persona \in PersonasOf(q.user) THEN Goto(r, "delete") ELSE End(r)
  /\ Reads

\* DELETE; the statistics go with the persona (ON DELETE CASCADE).
DeleteRow(r) ==
  /\ At(r, "delete", "delete")
  /\ LET p == reqs[r].persona IN
     /\ personas' = Delete(personas, p)
     /\ rows' = rows \ {p}
     /\ told' = [told EXCEPT !.created = @ \ {p}]
  /\ End(r)
  /\ UNCHANGED <<users, made, keys, licences, begun>>

-----------------------------------------------------------------------------
(* CD keys and licences *)

\* POST /claim, with or without a game.
Claim(r) ==
  /\ Open(r)
  /\ \E u \in DOMAIN users, k \in Key, slug \in BOOLEAN :
       Begin(r, [op |-> "claim", pc |-> "find", user |-> u, key |-> k, slug |-> slug])

\* findByKey: used, of another game than the one named, free, or unknown.
FindKey(r) ==
  /\ At(r, "claim", "find")
  /\ LET q == reqs[r] IN
     CASE q.key \notin DOMAIN keys /\ q.slug -> Goto(r, "insert")
       [] q.key \notin DOMAIN keys /\ ~q.slug -> End(r)
       [] OTHER -> IF keys[q.key].owner = Nobody /\ (q.slug => keys[q.key].ours)
                   THEN Goto(r, "update") ELSE End(r)
  /\ Reads

TellClaimed(q) == told' = [told EXCEPT !.claimed = @ \cup {<<q.user, q.key>>}]

\* Mutant: the UPDATE does not ask whether the key is still free.
ClaimFound(q) == TRUE

\* WHERE id = $2 AND is_used = FALSE
StillFree(q) == keys[q.key].owner = Nobody

ClaimUpdate(r) ==
  /\ At(r, "claim", "update")
  /\ LET q == reqs[r] IN
     IF StillFree(q) THEN keys' = [keys EXCEPT ![q.key].owner = q.user] /\ TellClaimed(q)
     ELSE UNCHANGED <<keys, told>>
  /\ End(r)
  /\ UNCHANGED <<users, personas, made, rows, licences, begun>>

\* INSERT of a key nobody had seen; a UNIQUE violation is answered 400.
ClaimInsert(r) ==
  /\ At(r, "claim", "insert")
  /\ LET q == reqs[r] IN
     IF q.key \notin DOMAIN keys
     THEN keys' = Put(keys, q.key, [owner |-> q.user, ours |-> TRUE]) /\ TellClaimed(q)
     ELSE UNCHANGED <<keys, told>>
  /\ End(r)
  /\ UNCHANGED <<users, personas, made, rows, licences, begun>>

Grant(r) == Open(r) /\ \E u \in DOMAIN users : Begin(r, [op |-> "grant", pc |-> "has", user |-> u])

HasEntitlement(u) == licences[u] > 0 \/ \E k \in DOMAIN keys : keys[k].owner = u /\ keys[k].ours

FindEntitlement(r) ==
  /\ At(r, "grant", "has")
  /\ IF HasEntitlement(reqs[r].user) THEN End(r) ELSE Goto(r, "create")
  /\ Reads

CreateLicence(r) ==
  /\ At(r, "grant", "create")
  /\ licences' = [licences EXCEPT ![reqs[r].user] = @ + 1]
  /\ End(r)
  /\ UNCHANGED <<users, personas, made, rows, keys, begun, told>>

-----------------------------------------------------------------------------
Request(r) ==
  \/ Register(r) \/ Moderate(r) \/ UpdateProfile(r) \/ UpdateAccount(r)
  \/ CreatePersona(r) \/ DeletePersona(r) \/ Claim(r) \/ Grant(r)

UserStep(r) ==
  \/ FindUsername(r) \/ FindEmail(r) \/ InsertUser(r)
  \/ FindModerated(r) \/ SetBanned(r)
  \/ ReadProfile(r) \/ FindOtherEmail(r) \/ WriteProfile(r)

PersonaStep(r) ==
  \/ CountPersonas(r) \/ FindPersonaName(r) \/ InsertPersona(r) \/ InsertStats(r)
  \/ FindDeleted(r) \/ DeleteRow(r)

KeyStep(r) ==
  \/ FindKey(r) \/ ClaimUpdate(r) \/ ClaimInsert(r) \/ FindEntitlement(r) \/ CreateLicence(r)

Next == \E r \in Slot : Request(r) \/ UserStep(r) \/ PersonaStep(r) \/ KeyStep(r) \/ Fault(r)

Spec == Init /\ [][Next]_vars

-----------------------------------------------------------------------------
TypeOK ==
  /\ DOMAIN users \subseteq User /\ \A u \in DOMAIN users : users[u] \in Account
  /\ made \in 0..MaxMade /\ DOMAIN personas \subseteq 1..made
  /\ \A p \in DOMAIN personas : personas[p] \in [user: DOMAIN users, name: Name]
  /\ rows \subseteq DOMAIN personas
  /\ DOMAIN keys \subseteq Key /\ \A k \in DOMAIN keys : keys[k].owner \in User \cup {Nobody}
  /\ licences \in [User -> Nat]
  /\ DOMAIN reqs \subseteq Slot /\ \A r \in DOMAIN reqs : reqs[r].op \in Kind
  /\ begun \in 0..MaxRequests
  /\ told.created \subseteq Persona /\ told.claimed \subseteq User \X DOMAIN keys

\* A user who was told that a CD key is theirs keeps it: of two that claim a
\* key at the same time one at most is told so, whichever way the key came
\* into the table (claimKey's UPDATE ... AND is_used = FALSE, and its INSERT).
ClaimToldOwns == \A c \in told.claimed : keys[c[2]].owner = c[1]

\* A persona whose creation was answered has its statistics row until it is
\* deleted: recordMatch and authp find a row (PersonaRepository.create).
CreatedHasStats == told.created \subseteq rows

\* The limit of personas can be overrun, but by no more than the requests that
\* may be under way besides the last one that was counted (POST /personas); in
\* the same way a user is granted no more licences than there are requests under
\* way at a time (grantUserGame).
LimitsOvershoot ==
  /\ \A u \in DOMAIN users : Cardinality(PersonasOf(u)) < MaxPersonas + Slots
  /\ \A u \in User : licences[u] <= Slots

\* A ban ends only by a request that says so, DELETE /bans/:id or an internal update
\* whose body gives isBanned as false: no update of the other columns that was under
\* way when the ban was set takes it back (UserRepository.update, setBanned).
Lifts(r, u) ==
  /\ \/ At(r, "unban", "set")
     \/ At(r, "profile", "update") /\ "banned" \in reqs[r].given /\ ~reqs[r].banned
  /\ reqs[r].user = u
BanStands ==
  [][\A u \in DOMAIN users : users[u].banned /\ ~users'[u].banned
       => \E r \in Slot : Lifts(r, u)]_vars

=============================================================================
