----------------------------- MODULE LoginProofs -----------------------------
(***************************************************************************)
(* Proofs about Login, for any number of accounts, personas, connections   *)
(* and requests: a key that a client was given is kept until its time is   *)
(* over; a key is refused only when it is, or when Redis was away; and a   *)
(* user's GameSpy profile is that of the persona last logged in with.      *)
(*                                                                         *)
(* Each of the three needs what a request knows at the point where it      *)
(* waits (Sound), and the last one, which spans the two statements of the  *)
(* API and the answer, needs what is true between them (Settled).          *)
(***************************************************************************)
EXTENDS Login, MapLemmas, SequenceTheorems

\* From the session on, a request of LoginPersona is about the profile.
Busy == {"clear", "set", "answer"}

Pending == [op : {"login", "personas", "persona", "conn", "late"},
             conn : Conn \cup {Gone},
             pc : {"validate", "get", "refused", "lookup", "create", "setex"} \cup Busy,
             user : User \cup {Nobody}, persona : Persona \cup {Nobody},
             lkey : Nat, lost : BOOLEAN]

Session == [user : User, persona : Persona \cup {Nobody}]

\* What is true of a request q, with Redis at hand or not (ok), the keys that
\* were issued, those kept or expired, those expired, and the sessions.
Sound(q, ok, issued, kept, gone, sess) ==
  /\ q \in Pending
  /\ ok \/ q.lost
  /\ q.pc = "get" => q.lkey \in issued
  /\ q.pc = "refused" => q.lost \/ q.lkey \in gone
  /\ q.pc \in {"setex"} \cup Busy => q.lkey \in DOMAIN sess
  /\ q.pc \in Busy => q.lkey \in kept /\ q.op \in {"persona", "late"}
  /\ q.op = "late" => q.pc \in Busy
  /\ q.op = "login" => q.user \in User
  /\ q.op \in {"persona", "late"} =>
       /\ q.persona \in Persona
       /\ q.pc = "get" => sess[q.lkey].user = Owner[q.persona]
       /\ q.pc \notin {"get", "refused"} => q.user = Owner[q.persona]
  /\ q.op \in {"personas", "conn"} => q.pc \in {"get", "refused"}

\* The keys that are in one of the stores, or that were.
Kept == redis \cup memory \cup expired

Requests ==
  /\ IsMap(reqs, Slot, Pending)
  /\ \A s \in DOMAIN reqs : Sound(reqs[s], up /\ online, told.issued, Kept, expired, sessions)

Tables ==
  /\ up \in BOOLEAN /\ online \in BOOLEAN
  /\ sessions \in Seq(Session)
  /\ told = [issued |-> told.issued, last |-> told.last, unsure |-> told.unsure]
  /\ told.issued \subseteq DOMAIN sessions
  /\ told.issued \subseteq Kept
  /\ \A p \in DOMAIN profile : p \in Persona /\ profile[p] = Owner[p]

\* Request s of R is at work on the profile of user u.
Works(R, s, u) == s \in DOMAIN R /\ R[s].pc \in Busy /\ R[s].user = u

Holding(prof, u) == {p \in DOMAIN prof : prof[p] = u}

\* Unless something failed or overlapped for user u: one request at most works
\* on the profile, with what its statements have done so far; and when there is
\* none, the profile is that of the persona last answered.
SettledFor(R, prof, last, u) ==
  /\ \A s, t : Works(R, s, u) /\ Works(R, t, u) => s = t
  /\ \A s : Works(R, s, u) =>
       /\ R[s].pc = "set" => Holding(prof, u) \subseteq {R[s].persona}
       /\ R[s].pc = "answer" => Holding(prof, u) = {R[s].persona}
       /\ R[s].op = "late" => u \in DOMAIN last /\ last[u] = R[s].persona
  /\ (\A s : ~Works(R, s, u)) /\ u \in DOMAIN last => Holding(prof, u) = {last[u]}

Settled == \A u : u \notin told.unsure => SettledFor(reqs, profile, told.last, u)

IInv == Requests /\ Tables /\ Settled

-----------------------------------------------------------------------------
(* Requests *)

\* More keys issued, kept and expired, more sessions and Redis at hand again
\* leave a request sound.
LEMMA SoundGrows ==
  ASSUME NEW q, NEW ok, NEW issued, NEW kept, NEW gone, NEW sess,
         NEW ok2, NEW issued2, NEW kept2, NEW gone2, NEW sess2,
         Sound(q, ok, issued, kept, gone, sess),
         ok => ok2, issued \subseteq issued2, kept \subseteq kept2, gone \subseteq gone2,
         DOMAIN sess \subseteq DOMAIN sess2, \A l \in issued : sess2[l] = sess[l]
  PROVE  Sound(q, ok2, issued2, kept2, gone2, sess2)
BY DEF Sound

-----------------------------------------------------------------------------
(* Profiles *)

\* Two tables of requests have the same requests at work on profiles.
SameWork(R, S) ==
  \A s : /\ (s \in DOMAIN R /\ R[s].pc \in Busy) <=> (s \in DOMAIN S /\ S[s].pc \in Busy)
         /\ s \in DOMAIN R /\ R[s].pc \in Busy =>
              /\ S[s].pc = R[s].pc /\ S[s].op = R[s].op
              /\ S[s].user = R[s].user /\ S[s].persona = R[s].persona

LEMMA SettledStays ==
  ASSUME NEW R, NEW S, NEW prof, NEW last, NEW u,
         SettledFor(R, prof, last, u), SameWork(R, S)
  PROVE  SettledFor(S, prof, last, u)
<1>1. \A s : Works(S, s, u) <=> Works(R, s, u)
  BY DEF SameWork, Works
<1>2. \A s : Works(R, s, u) =>
        S[s].pc = R[s].pc /\ S[s].op = R[s].op /\ S[s].persona = R[s].persona
  BY DEF SameWork, Works
<1> QED
  BY <1>1, <1>2 DEF SettledFor

\* So does a user none of whose requests changes and whose holders stay.
LEMMA SettledElsewhere ==
  ASSUME NEW R, NEW S, NEW s, NEW prof, NEW prof2, NEW last, NEW last2, NEW u,
         SettledFor(R, prof, last, u), Rest(R, S, s), Rest(S, R, s),
         ~Works(R, s, u), ~Works(S, s, u),
         Holding(prof2, u) = Holding(prof, u),
         u \in DOMAIN last2 <=> u \in DOMAIN last,
         u \in DOMAIN last => last2[u] = last[u]
  PROVE  SettledFor(S, prof2, last2, u)
<1>1. \A t : Works(S, t, u) <=> Works(R, t, u)
  BY DEF Rest, Works
<1>2. \A t : Works(R, t, u) => S[t] = R[t]
  BY DEF Rest, Works
<1> QED
  BY <1>1, <1>2 DEF SettledFor

\* The one request of u at work leaves the holders as it should, or ends.
LEMMA SettledHere ==
  ASSUME NEW R, NEW S, NEW s, NEW prof, NEW prof2, NEW last, NEW last2, NEW u,
         SettledFor(R, prof, last, u), Works(R, s, u), Rest(R, S, s),
         Works(S, s, u) =>
           /\ S[s].pc = "set" => Holding(prof2, u) \subseteq {S[s].persona}
           /\ S[s].pc = "answer" => Holding(prof2, u) = {S[s].persona}
           /\ S[s].op = "late" => u \in DOMAIN last2 /\ last2[u] = S[s].persona,
         ~Works(S, s, u) => Holding(prof2, u) = {last2[u]}
  PROVE  SettledFor(S, prof2, last2, u)
<1>1. \A t : Works(S, t, u) => t = s
  BY DEF Rest, Works, SettledFor
<1> QED
  BY <1>1 DEF SettledFor

-----------------------------------------------------------------------------
(* Steps *)

SoundAgain(q) == Sound(q, up' /\ online', told'.issued, Kept', expired', sessions')

LEMMA OneRequest ==
  ASSUME Requests, NEW s, Rest(reqs, reqs', s), IsMap(reqs', Slot, Pending),
         s \in DOMAIN reqs' =>
           Sound(reqs'[s], up' /\ online', told'.issued, Kept', expired', sessions'),
         up /\ online => up' /\ online', told.issued \subseteq told'.issued,
         Kept \subseteq Kept', expired \subseteq expired',
         DOMAIN sessions \subseteq DOMAIN sessions',
         \A l \in told.issued : sessions'[l] = sessions[l]
  PROVE  Requests'
<1>1. ASSUME NEW t \in DOMAIN reqs', t # s
      PROVE  Sound(reqs'[t], up' /\ online', told'.issued, Kept', expired', sessions')
  <2>1. t \in DOMAIN reqs /\ reqs'[t] = reqs[t]
    BY <1>1 DEF Rest
  <2>2. Sound(reqs[t], up /\ online, told.issued, Kept, expired, sessions)
    BY <2>1 DEF Requests
  <2>3. SoundAgain(reqs[t])
    BY <2>2 DEF SoundAgain, Sound
  <2> QED
    BY <2>1, <2>3 DEF SoundAgain
<1> QED
  BY <1>1 DEF Requests

\* One request goes on, and nothing else does.
LEMMA QuietStep ==
  ASSUME IInv, NEW s, Rest(reqs, reqs', s), IsMap(reqs', Slot, Pending),
         s \in DOMAIN reqs' =>
           Sound(reqs'[s], up /\ online, told.issued, Kept, expired, sessions),
         SameWork(reqs, reqs'), UNCHANGED <<up, online, store, profile, told>>
  PROVE  IInv'
<1>1. /\ up' = up /\ online' = online /\ redis' = redis /\ memory' = memory
      /\ sessions' = sessions /\ expired' = expired /\ profile' = profile /\ told' = told
  BY DEF store
<1>2. Kept' = Kept
  BY <1>1 DEF Kept
<1>3. Requests'
  BY <1>1, <1>2, OneRequest DEF IInv
<1>4. Tables'
  BY <1>1, <1>2 DEF IInv, Tables
<1>5. Settled'
  BY <1>1, SettledStays DEF IInv, Settled
<1> QED
  BY <1>3, <1>4, <1>5 DEF IInv

\* A request begins.
LEMMA BeginStep ==
  ASSUME IInv, NEW s \in Slot, s \notin DOMAIN reqs, NEW op, NEW c, NEW pc, NEW user,
         NEW persona, NEW lkey, Begin(s, op, c, pc, user, persona, lkey),
         pc \notin Busy,
         Sound([op |-> op, conn |-> c, pc |-> pc, user |-> user, persona |-> persona,
                lkey |-> lkey, lost |-> ~(up /\ online)],
               up /\ online, told.issued, Kept, expired, sessions)
  PROVE  IInv'
<1> DEFINE q == [op |-> op, conn |-> c, pc |-> pc, user |-> user, persona |-> persona,
                 lkey |-> lkey, lost |-> ~(up /\ online)]
<1>1. reqs' = Put(reqs, s, q) /\ UNCHANGED <<up, online, store, profile, told>>
  BY DEF Begin
<1>2. q \in Pending /\ q.pc = pc
  BY DEF Sound
<1>3. IsMap(reqs, Slot, Pending)
  BY DEF IInv, Requests
<1> HIDE DEF q
<1>4. /\ IsMap(reqs', Slot, Pending) /\ Rest(reqs, reqs', s) /\ Rest(reqs', reqs, s)
      /\ s \in DOMAIN reqs' /\ reqs'[s] = q
  BY <1>1, <1>2, <1>3, AddOne
<1>5. SameWork(reqs, reqs')
  BY <1>2, <1>4 DEF SameWork, Rest
<1>6. Sound(reqs'[s], up /\ online, told.issued, Kept, expired, sessions)
  BY <1>4 DEF q
<1> QED
  BY <1>1, <1>4, <1>5, <1>6, QuietStep

LEMMA RequestsBegin ==
  ASSUME IInv, NEW s \in Slot, Request(s)
  PROVE  IInv'
<1>1. told.issued \subseteq Nat
  BY ElementOfSeq, LenProperties DEF IInv, Tables
<1>2. s \notin DOMAIN reqs
  BY DEF Request, Login, GetPersonas, LoginPersona, Connect, Open
<1>3. up \in BOOLEAN /\ online \in BOOLEAN
  BY DEF IInv, Tables
<1>4. CASE Login(s)
  <2>1. PICK c \in Fesl, u \in User : Begin(s, "login", c, "validate", u, Nobody, 0)
    BY <1>4 DEF Login
  <2>2. Sound([op |-> "login", conn |-> c, pc |-> "validate", user |-> u, persona |-> Nobody,
               lkey |-> 0, lost |-> ~(up /\ online)],
              up /\ online, told.issued, Kept, expired, sessions)
    BY <1>3 DEF Sound, Pending, Busy, Conn
  <2> QED
    BY <1>2, <2>1, <2>2, BeginStep DEF Busy
<1>5. CASE GetPersonas(s)
  <2>1. PICK c \in Fesl, l \in told.issued : Begin(s, "personas", c, "get", Nobody, Nobody, l)
    BY <1>5 DEF GetPersonas
  <2>2. Sound([op |-> "personas", conn |-> c, pc |-> "get", user |-> Nobody, persona |-> Nobody,
               lkey |-> l, lost |-> ~(up /\ online)],
              up /\ online, told.issued, Kept, expired, sessions)
    BY <1>1, <1>3 DEF Sound, Pending, Busy, Conn
  <2> QED
    BY <1>2, <2>1, <2>2, BeginStep DEF Busy
<1>6. CASE LoginPersona(s)
  <2>1. PICK c \in Fesl, p \in Persona :
       \/ Begin(s, "persona", c, "lookup", Owner[p], p, 0)
       \/ \E l \in told.issued : AskedUser(l) = Owner[p] /\ Begin(s, "persona", c, "get", Nobody, p, l)
    BY <1>6 DEF LoginPersona
  <2>2. Owner[p] \in User
    BY LoginAssumption
  <2>3. CASE Begin(s, "persona", c, "lookup", Owner[p], p, 0)
    <3>1. Sound([op |-> "persona", conn |-> c, pc |-> "lookup", user |-> Owner[p], persona |-> p,
                 lkey |-> 0, lost |-> ~(up /\ online)],
                up /\ online, told.issued, Kept, expired, sessions)
      BY <1>3, <2>2 DEF Sound, Pending, Busy, Conn
    <3> QED
      BY <1>2, <2>3, <3>1, BeginStep DEF Busy
  <2>4. ASSUME NEW l \in told.issued, AskedUser(l) = Owner[p],
               Begin(s, "persona", c, "get", Nobody, p, l)
        PROVE  IInv'
    <3>1. Sound([op |-> "persona", conn |-> c, pc |-> "get", user |-> Nobody, persona |-> p,
                 lkey |-> l, lost |-> ~(up /\ online)],
                up /\ online, told.issued, Kept, expired, sessions)
      BY <1>1, <1>3, <2>4 DEF Sound, Pending, Busy, Conn, AskedUser
    <3> QED
      BY <1>2, <2>4, <3>1, BeginStep DEF Busy
  <2> QED
    BY <2>1, <2>3, <2>4
<1>7. CASE Connect(s)
  <2>1. PICK c \in Theater, l \in told.issued : Begin(s, "conn", c, "get", Nobody, Nobody, l)
    BY <1>7 DEF Connect
  <2>2. Sound([op |-> "conn", conn |-> c, pc |-> "get", user |-> Nobody, persona |-> Nobody,
               lkey |-> l, lost |-> ~(up /\ online)],
              up /\ online, told.issued, Kept, expired, sessions)
    BY <1>1, <1>3 DEF Sound, Pending, Busy, Conn
  <2> QED
    BY <1>2, <2>1, <2>2, BeginStep DEF Busy
<1> QED
  BY <1>4, <1>5, <1>6, <1>7 DEF Request

\* A request that is not at work on a profile goes on with another record, not
\* at work either, or ends.
LEMMA GoesOn ==
  ASSUME IInv, NEW s \in DOMAIN reqs, reqs[s].pc \notin Busy,
         UNCHANGED <<up, online, store, profile, told>>,
         NEW q, q.pc \notin Busy, reqs' = [reqs EXCEPT ![s] = q],
         Sound(q, up /\ online, told.issued, Kept, expired, sessions)
  PROVE  IInv'
<1>1. IsMap(reqs, Slot, Pending) /\ q \in Pending
  BY DEF IInv, Requests, Sound
<1>2. /\ IsMap(reqs', Slot, Pending) /\ Rest(reqs, reqs', s) /\ Rest(reqs', reqs, s)
      /\ DOMAIN reqs' = DOMAIN reqs /\ reqs'[s] = q
  BY <1>1, ChangeOne
<1>3. SameWork(reqs, reqs')
  BY <1>2 DEF SameWork, Rest
<1> QED
  BY <1>2, <1>3, QuietStep

\* A request is over.
LEMMA EndsHere ==
  ASSUME NEW s, s \in DOMAIN reqs, IsMap(reqs, Slot, Pending), End(s)
  PROVE  /\ Rest(reqs, reqs', s) /\ Rest(reqs', reqs, s) /\ IsMap(reqs', Slot, Pending)
         /\ s \notin DOMAIN reqs'
BY DropOne DEF End

LEMMA Ends ==
  ASSUME IInv, NEW s \in DOMAIN reqs, reqs[s].pc \notin Busy, End(s),
         UNCHANGED <<up, online, store, profile, told>>
  PROVE  IInv'
<1>1. IsMap(reqs, Slot, Pending)
  BY DEF IInv, Requests
<1>2. /\ IsMap(reqs', Slot, Pending) /\ Rest(reqs, reqs', s) /\ Rest(reqs', reqs, s)
      /\ s \notin DOMAIN reqs'
  BY <1>1, EndsHere
<1>3. SameWork(reqs, reqs')
  BY <1>2 DEF SameWork, Rest
<1> QED
  BY <1>2, <1>3, QuietStep

\* What is known of a request, and its record with another program counter.
LEMMA Known ==
  ASSUME IInv, NEW s \in DOMAIN reqs
  PROVE  /\ Sound(reqs[s], up /\ online, told.issued, Kept, expired, sessions)
         /\ s \in Slot /\ reqs[s] \in Pending
         /\ IsMap(reqs, Slot, Pending)
BY DEF IInv, Requests, IsMap

LEMMA ValidateStep == ASSUME IInv, NEW s \in Slot, Validate(s) PROVE IInv'
<1> DEFINE q == [reqs[s] EXCEPT !.pc = "create"]
<1>1. /\ s \in DOMAIN reqs /\ reqs[s].pc = "validate"
      /\ UNCHANGED <<up, online, store, profile, told>>
      /\ reqs' = [reqs EXCEPT ![s] = q] \/ End(s)
  BY DEF Validate, At, Goto
<1>2. Sound(reqs[s], up /\ online, told.issued, Kept, expired, sessions)
  BY <1>1, Known
<1>3. Sound(q, up /\ online, told.issued, Kept, expired, sessions) /\ q.pc = "create"
  BY <1>1, <1>2 DEF Sound, Pending, Busy
<1> HIDE DEF q
<1> QED
  BY <1>1, <1>3, GoesOn, Ends DEF Busy

LEMMA LookupStep == ASSUME IInv, NEW s \in Slot, Lookup(s) PROVE IInv'
<1> DEFINE q == [reqs[s] EXCEPT !.pc = "create"]
<1>1. /\ s \in DOMAIN reqs /\ reqs[s].pc = "lookup"
      /\ UNCHANGED <<up, online, store, profile, told>>
      /\ reqs' = [reqs EXCEPT ![s] = q]
  BY DEF Lookup, At, Goto
<1>2. Sound(reqs[s], up /\ online, told.issued, Kept, expired, sessions)
  BY <1>1, Known
<1>3. Sound(q, up /\ online, told.issued, Kept, expired, sessions) /\ q.pc = "create"
  BY <1>1, <1>2 DEF Sound, Pending, Busy
<1> HIDE DEF q
<1> QED
  BY <1>1, <1>3, GoesOn DEF Busy

LEMMA AnswerRefusedStep == ASSUME IInv, NEW s \in Slot, AnswerRefused(s) PROVE IInv'
BY Ends DEF AnswerRefused, At, Busy

\* A key is refused only if Redis is not at hand, or neither store has it, and
\* then its time is over: an issued key is in one of them until then.
LEMMA GetSessionStep == ASSUME IInv, NEW s \in Slot, GetSession(s) PROVE IInv'
<1> DEFINE r == reqs[s]
           l == r.lkey
           q == [r EXCEPT !.pc = "lookup", !.user = AskedUser(l)]
           z == [r EXCEPT !.pc = "refused"]
<1>1. /\ s \in DOMAIN reqs /\ r.pc = "get"
      /\ UNCHANGED <<up, online, store, profile, told>>
      /\ \/ (online /\ up /\ l \in redis) \/ InMemory(l)
         \/ ~ ((online /\ up /\ l \in redis) \/ InMemory(l)) /\ reqs' = [reqs EXCEPT ![s] = z]
      /\ \/ reqs' = [reqs EXCEPT ![s] = q] /\ r.op = "persona"
         \/ End(s)
         \/ ~ ((online /\ up /\ l \in redis) \/ InMemory(l)) /\ reqs' = [reqs EXCEPT ![s] = z]
  BY DEF GetSession, Found, Refused, At, Goto
<1>2. Sound(r, up /\ online, told.issued, Kept, expired, sessions) /\ r \in Pending
  BY <1>1, Known
<1>3. CASE End(s)
  BY <1>1, <1>3, Ends DEF Busy
<1>4. CASE reqs' = [reqs EXCEPT ![s] = q] /\ r.op = "persona"
  <2> DEFINE r2 == [r EXCEPT !.pc = "lookup"]
  <2>1. AskedUser(l) = Owner[r.persona] /\ Owner[r.persona] \in User
    BY <1>1, <1>2, <1>4, LoginAssumption DEF Sound, AskedUser
  <2>2. r2 \in Pending /\ r2.op = r.op /\ r2.persona = r.persona /\ r2.lost = r.lost /\ r2.pc = "lookup"
    BY <1>2 DEF Pending
  <2>3. q = [r2 EXCEPT !.user = AskedUser(l)]
    BY <1>2 DEF Pending
  <2> HIDE DEF r2, q, r
  <2>4. /\ q \in Pending /\ q.op = r.op /\ q.persona = r.persona /\ q.lost = r.lost
        /\ q.pc = "lookup" /\ q.user = Owner[r.persona]
    BY <2>1, <2>2, <2>3 DEF Pending
  <2>5. Sound(q, up /\ online, told.issued, Kept, expired, sessions)
    BY <1>2, <1>4, <2>4 DEF Sound, Busy
  <2> QED
    BY <1>1, <1>4, <2>4, <2>5, GoesOn DEF Busy, r
<1>5. CASE ~ ((online /\ up /\ l \in redis) \/ InMemory(l)) /\ reqs' = [reqs EXCEPT ![s] = z]
  <2>1. l \in told.issued /\ told.issued \subseteq Kept
    BY <1>1, <1>2 DEF Sound, IInv, Tables
  <2>2. r.lost \/ l \in expired
    BY <1>2, <1>5, <2>1 DEF Sound, Kept, InMemory
  <2>3. /\ z \in Pending /\ z.op = r.op /\ z.persona = r.persona /\ z.lost = r.lost
        /\ z.pc = "refused" /\ z.lkey = l /\ z.user = r.user
    BY <1>2 DEF Pending
  <2> HIDE DEF z
  <2>4. Sound(z, up /\ online, told.issued, Kept, expired, sessions)
    BY <1>1, <1>2, <2>2, <2>3 DEF Sound, Busy
  <2> QED
    BY <1>1, <1>5, <2>3, <2>4, GoesOn DEF Busy
<1> QED
  BY <1>1, <1>3, <1>4, <1>5
-----------------------------------------------------------------------------
(* Sessions *)

\* The stores keep what they have, and sessions are added.
Grown ==
  /\ up' = up /\ online' = online /\ expired' = expired
  /\ Kept \subseteq Kept'
  /\ sessions' \in Seq(Session) /\ DOMAIN sessions \subseteq DOMAIN sessions'
  /\ \A l \in DOMAIN sessions : sessions'[l] = sessions[l]

\* The keys that clients hold are those of sessions that are kept.
ToldSound ==
  /\ told' = [issued |-> told'.issued, last |-> told'.last, unsure |-> told'.unsure]
  /\ told.issued \subseteq told'.issued
  /\ told'.issued \subseteq DOMAIN sessions'
  /\ told'.issued \subseteq Kept'

OwnProfiles == \A p \in DOMAIN profile' : p \in Persona /\ profile'[p] = Owner[p]

LEMMA GrowStep ==
  ASSUME IInv, NEW s, Rest(reqs, reqs', s), IsMap(reqs', Slot, Pending),
         s \in DOMAIN reqs' => SoundAgain(reqs'[s]),
         Grown, ToldSound, OwnProfiles
  PROVE  Requests' /\ Tables'
<1>1. told.issued \subseteq DOMAIN sessions
  BY DEF IInv, Tables
<1>2. Requests'
  BY <1>1, OneRequest DEF IInv, Grown, ToldSound, SoundAgain
<1>3. Tables'
  BY DEF IInv, Tables, Grown, ToldSound, OwnProfiles
<1> QED
  BY <1>2, <1>3

LEMMA CreatedStep ==
  ASSUME IInv, NEW s, s \in DOMAIN reqs, reqs[s].pc \in {"create", "setex"},
         NEW l, l \in Nat, Created(s, l), l \in DOMAIN sessions', l \in Kept', Grown,
         profile' = profile
  PROVE  IInv'
<1> DEFINE r == reqs[s]
           q == [r EXCEPT !.pc = "clear", !.lkey = l]
           r2 == [r EXCEPT !.pc = "clear"]
           Other == \E t \in DOMAIN reqs : /\ t # s /\ reqs[t].user = r.user
                                           /\ reqs[t].pc \in Busy
<1>1. Sound(r, up /\ online, told.issued, Kept, expired, sessions) /\ r \in Pending /\ s \in Slot
      /\ IsMap(reqs, Slot, Pending)
  BY Known
<1>2. r.pc \notin Busy /\ r.op \in {"login", "persona"}
  BY <1>1 DEF Sound, Pending, Busy
<1>3. OwnProfiles
  BY DEF IInv, Tables, OwnProfiles
<1>4. CASE r.op = "login"
  <2>1. reqs' = Delete(reqs, s) /\ told' = [told EXCEPT !.issued = @ \cup {l}]
    BY <1>4 DEF Created, End
  <2>2. Rest(reqs, reqs', s) /\ Rest(reqs', reqs, s) /\ IsMap(reqs', Slot, Pending)
    BY <1>1, <2>1, DropOne
  <2>3. s \notin DOMAIN reqs'
    BY <2>1 DEF Delete, Without
  <2>4. ToldSound /\ told'.last = told.last /\ told'.unsure = told.unsure
    BY <2>1 DEF ToldSound, IInv, Tables, Grown
  <2>5. Requests' /\ Tables'
    BY <1>3, <2>2, <2>3, <2>4, GrowStep
  <2>6. SameWork(reqs, reqs')
    BY <1>2, <2>2, <2>3 DEF SameWork, Rest
  <2>7. Settled'
    BY <2>4, <2>6, SettledStays DEF IInv, Settled
  <2> QED
    BY <2>5, <2>7 DEF IInv
<1>5. CASE r.op = "persona"
  <2>1. /\ reqs' = [reqs EXCEPT ![s] = q]
        /\ told' = IF Other THEN [told EXCEPT !.unsure = @ \cup {r.user}] ELSE told
    BY <1>5 DEF Created, Busy
  <2>2. r2 \in Pending /\ r2.op = r.op /\ r2.persona = r.persona /\ r2.lost = r.lost
        /\ r2.pc = "clear" /\ r2.user = r.user
    BY <1>1 DEF Pending, Busy
  <2>3. q = [r2 EXCEPT !.lkey = l]
    BY <1>1 DEF Pending
  <2> HIDE DEF r2, q, r
  <2>4. /\ q \in Pending /\ q.op = r.op /\ q.persona = r.persona /\ q.lost = r.lost
        /\ q.pc = "clear" /\ q.user = r.user /\ q.lkey = l
    BY <2>2, <2>3 DEF Pending
  <2>5. /\ Rest(reqs, reqs', s) /\ Rest(reqs', reqs, s) /\ IsMap(reqs', Slot, Pending)
        /\ reqs'[s] = q
    BY ZenonT(40), <1>1, <2>1, <2>4, ChangeOne
  <2>6. /\ told'.issued = told.issued /\ told'.last = told.last
        /\ told.unsure \subseteq told'.unsure /\ (Other => r.user \in told'.unsure)
    BY <2>1 DEF IInv, Tables
  <2>7. ToldSound
    BY <2>1 DEF ToldSound, IInv, Tables, Grown
  <2>8. SoundAgain(q)
    BY <1>1, <1>2, <1>5, <2>4, <2>6 DEF SoundAgain, Sound, Grown, Busy, r
  <2>9. Requests' /\ Tables'
    BY <1>3, <2>5, <2>7, <2>8, GrowStep
  <2>10. ASSUME NEW u, u \notin told'.unsure
         PROVE  SettledFor(reqs', profile', told'.last, u)
    <3>1. SettledFor(reqs, profile, told.last, u)
      BY <2>6, <2>10 DEF IInv, Settled
    <3>2. ~Works(reqs, s, u)
      BY <1>2 DEF Works, r
    <3>3. CASE u # r.user
      <4>1. ~Works(reqs', s, u)
        BY <2>4, <2>5, <3>3 DEF Works
      <4> QED
        BY <2>5, <2>6, <3>1, <3>2, <4>1, SettledElsewhere
    <3>4. CASE u = r.user
      <4>1. ~Other
        BY <2>6, <2>10, <3>4
      <4>2. \A t : Works(reqs', t, u) => t = s
        BY <2>5, <3>4, <4>1 DEF Works, Rest
      <4>3. Works(reqs', s, u)
        BY <2>1, <2>4, <2>5, <3>4 DEF Works, Busy
      <4> QED
        BY <1>5, <2>4, <2>5, <4>2, <4>3 DEF SettledFor
    <3> QED
      BY <3>3, <3>4
  <2>11. Settled'
    BY <2>10 DEF Settled
  <2> QED
    BY <2>9, <2>11 DEF IInv
<1> QED
  BY <1>2, <1>4, <1>5

LEMMA CreateSessionStep == ASSUME IInv, NEW s \in Slot, CreateSession(s) PROVE IInv'
<1> DEFINE r == reqs[s]
           l == Len(sessions) + 1
           e == [user |-> r.user, persona |-> r.persona]
           q == [r EXCEPT !.pc = "setex", !.lkey = l]
           r2 == [r EXCEPT !.pc = "setex"]
<1>1. /\ s \in DOMAIN reqs /\ r.pc = "create"
      /\ sessions' = Append(sessions, e)
      /\ up' = up /\ online' = online /\ redis' = redis /\ expired' = expired
      /\ profile' = profile
  BY DEF CreateSession, At
<1>2. Sound(r, up /\ online, told.issued, Kept, expired, sessions) /\ r \in Pending
      /\ IsMap(reqs, Slot, Pending)
  BY <1>1, Known
<1>3. r.op \in {"login", "persona"} /\ e \in Session
  BY <1>1, <1>2, LoginAssumption DEF Sound, Pending, Busy, Session
<1>4. sessions \in Seq(Session)
  BY DEF IInv, Tables
<1> HIDE DEF e
<1>5. /\ sessions' \in Seq(Session) /\ l \in Nat /\ l \in DOMAIN sessions'
      /\ DOMAIN sessions \subseteq DOMAIN sessions'
      /\ \A x \in DOMAIN sessions : sessions'[x] = sessions[x]
  BY <1>1, <1>3, <1>4
<1>6. CASE online
  <2>1. /\ reqs' = [reqs EXCEPT ![s] = q]
        /\ memory' = memory /\ attached' = attached /\ told' = told
    BY <1>6 DEF CreateSession
  <2>2. r2 \in Pending /\ r2.op = r.op /\ r2.persona = r.persona /\ r2.lost = r.lost
        /\ r2.pc = "setex" /\ r2.user = r.user
    BY <1>2 DEF Pending, Busy
  <2>3. q = [r2 EXCEPT !.lkey = l]
    BY <1>2 DEF Pending
  <2> HIDE DEF r2, q, r, l
  <2>4. /\ q \in Pending /\ q.op = r.op /\ q.persona = r.persona /\ q.lost = r.lost
        /\ q.pc = "setex" /\ q.user = r.user /\ q.lkey = l
    BY <1>5, <2>2, <2>3 DEF Pending
  <2>5. /\ Rest(reqs, reqs', s) /\ Rest(reqs', reqs, s) /\ IsMap(reqs', Slot, Pending)
        /\ reqs'[s] = q
    <3>1. s \in DOMAIN reqs /\ IsMap(reqs, Slot, Pending) /\ q \in Pending
          /\ reqs' = [reqs EXCEPT ![s] = q]
      BY <1>1, <1>2, <2>1, <2>4
    <3> QED
      BY ONLY <3>1, ChangeOne
  <2>6. Grown /\ ToldSound /\ OwnProfiles
    BY <1>1, <1>5, <2>1 DEF Grown, ToldSound, OwnProfiles, Kept, IInv, Tables
  <2>7. SoundAgain(q)
    BY <1>1, <1>2, <1>3, <1>5, <2>4, <2>6 DEF SoundAgain, Sound, Grown, Busy
  <2>8. Requests' /\ Tables'
    BY <2>5, <2>6, <2>7, GrowStep
  <2>9. SameWork(reqs, reqs')
    BY <1>1, <2>4, <2>5 DEF SameWork, Rest, Busy, r
  <2>10. Settled'
    BY <1>1, <2>1, <2>9, SettledStays DEF IInv, Settled
  <2> QED
    BY <2>8, <2>10 DEF IInv
<1>7. CASE ~online
  <2>1. memory' = memory \cup {l} /\ Created(s, l)
    BY <1>7 DEF CreateSession
  <2>2. l \in Kept' /\ Grown
    BY <1>1, <1>5, <2>1 DEF Kept, Grown
  <2> HIDE DEF l
  <2> QED
    BY <1>1, <1>5, <2>1, <2>2, CreatedStep
<1> QED
  BY <1>6, <1>7

LEMMA SetexStep ==
  ASSUME IInv, NEW s \in Slot, SetexDone(s) \/ SetexFails(s)
  PROVE  IInv'
<1> DEFINE l == reqs[s].lkey
<1>1. /\ s \in DOMAIN reqs /\ reqs[s].pc = "setex" /\ Created(s, l)
      /\ up' = up /\ online' = online /\ expired' = expired /\ sessions' = sessions
      /\ profile' = profile
      /\ l \in redis' \cup memory' /\ redis \subseteq redis' /\ memory \subseteq memory'
  BY DEF SetexDone, SetexFails, At
<1>2. Sound(reqs[s], up /\ online, told.issued, Kept, expired, sessions) /\ reqs[s] \in Pending
  BY <1>1, Known
<1>3. l \in Nat /\ l \in DOMAIN sessions
  BY <1>1, <1>2 DEF Sound, Pending
<1>4. Grown /\ l \in Kept'
  BY <1>1 DEF Grown, Kept, IInv, Tables
<1> QED
  BY <1>1, <1>3, <1>4, CreatedStep

-----------------------------------------------------------------------------
(* Profiles *)

\* What the work of request s on its user's profile leaves to other users.
Apart(s) ==
  \A u : u # reqs[s].user =>
    /\ Holding(profile', u) = Holding(profile, u)
    /\ u \in DOMAIN told'.last <=> u \in DOMAIN told.last
    /\ u \in DOMAIN told.last => told'.last[u] = told.last[u]

\* What it makes of its own user.
Mine(s, u) ==
  /\ Works(reqs', s, u) =>
       /\ reqs'[s].pc = "set" => Holding(profile', u) \subseteq {reqs'[s].persona}
       /\ reqs'[s].pc = "answer" => Holding(profile', u) = {reqs'[s].persona}
       /\ reqs'[s].op = "late" => u \in DOMAIN told'.last /\ told'.last[u] = reqs'[s].persona
  /\ ~Works(reqs', s, u) => Holding(profile', u) = {told'.last[u]}

LEMMA BusyStep ==
  ASSUME IInv, NEW s, s \in DOMAIN reqs, reqs[s].pc \in Busy,
         Rest(reqs, reqs', s), Rest(reqs', reqs, s), IsMap(reqs', Slot, Pending),
         s \in DOMAIN reqs' => SoundAgain(reqs'[s]) /\ reqs'[s].user = reqs[s].user,
         UNCHANGED <<up, online, store>>, ToldSound, OwnProfiles,
         told.unsure \subseteq told'.unsure, Apart(s),
         reqs[s].user \notin told'.unsure => Mine(s, reqs[s].user)
  PROVE  IInv'
<1>1. Grown
  BY DEF store, Grown, Kept, IInv, Tables
<1>2. Requests' /\ Tables'
  BY <1>1, GrowStep
<1>3. ASSUME NEW u, u \notin told'.unsure
      PROVE  SettledFor(reqs', profile', told'.last, u)
  <2>1. SettledFor(reqs, profile, told.last, u)
    BY <1>3 DEF IInv, Settled
  <2>2. CASE u # reqs[s].user
    <3>1. ~Works(reqs, s, u) /\ ~Works(reqs', s, u)
      BY <2>2 DEF Works
    <3>2. /\ Holding(profile', u) = Holding(profile, u)
          /\ u \in DOMAIN told'.last <=> u \in DOMAIN told.last
          /\ u \in DOMAIN told.last => told'.last[u] = told.last[u]
      BY <2>2 DEF Apart
    <3> QED
      BY <2>1, <3>1, <3>2, SettledElsewhere
  <2>3. CASE u = reqs[s].user
    <3>1. Works(reqs, s, u)
      BY <2>3 DEF Works
    <3>2. Mine(s, u)
      BY <1>3, <2>3
    <3> QED
      BY <2>1, <3>1, <3>2, SettledHere DEF Mine
  <2> QED
    BY <2>2, <2>3
<1>4. Settled'
  BY <1>3 DEF Settled
<1> QED
  BY <1>2, <1>4 DEF IInv

\* What is known of a request at work on a profile.
LEMMA KnownBusy ==
  ASSUME IInv, NEW s, s \in DOMAIN reqs, reqs[s].pc \in Busy
  PROVE  /\ Sound(reqs[s], up /\ online, told.issued, Kept, expired, sessions)
         /\ reqs[s] \in Pending /\ IsMap(reqs, Slot, Pending)
         /\ reqs[s].persona \in Persona /\ reqs[s].user = Owner[reqs[s].persona]
         /\ reqs[s].lkey \in DOMAIN sessions /\ reqs[s].lkey \in Kept
         /\ reqs[s].user \notin told.unsure =>
              SettledFor(reqs, profile, told.last, reqs[s].user)
<1>1. /\ Sound(reqs[s], up /\ online, told.issued, Kept, expired, sessions)
      /\ reqs[s] \in Pending /\ IsMap(reqs, Slot, Pending)
  BY Known
<1>2. reqs[s].persona \in Persona /\ reqs[s].user = Owner[reqs[s].persona]
  BY <1>1 DEF Sound, Busy
<1>3. reqs[s].lkey \in DOMAIN sessions /\ reqs[s].lkey \in Kept
  BY <1>1 DEF Sound
<1> QED
  BY <1>1, <1>2, <1>3 DEF IInv, Settled

\* The request goes on to another program counter.
LEMMA BusyGoes ==
  ASSUME IInv, NEW s, s \in DOMAIN reqs, reqs[s].pc \in Busy, NEW pc, pc \in {"set", "answer"},
         Goto(s, pc), UNCHANGED <<up, online, store, told>>
  PROVE  /\ Rest(reqs, reqs', s) /\ Rest(reqs', reqs, s) /\ IsMap(reqs', Slot, Pending)
         /\ s \in DOMAIN reqs' /\ SoundAgain(reqs'[s]) /\ ToldSound
         /\ reqs'[s].user = reqs[s].user /\ reqs'[s].persona = reqs[s].persona
         /\ reqs'[s].pc = pc /\ reqs'[s].op = reqs[s].op
<1> DEFINE r == reqs[s]
           q == [r EXCEPT !.pc = pc]
<1>1. Sound(r, up /\ online, told.issued, Kept, expired, sessions) /\ r \in Pending
      /\ IsMap(reqs, Slot, Pending)
  BY KnownBusy
<1>2. /\ q \in Pending /\ q.op = r.op /\ q.persona = r.persona /\ q.lost = r.lost
      /\ q.pc = pc /\ q.user = r.user /\ q.lkey = r.lkey
  BY <1>1 DEF Pending, Busy
<1>3. reqs' = [reqs EXCEPT ![s] = q]
  BY DEF Goto
<1> HIDE DEF q
<1>4. /\ Rest(reqs, reqs', s) /\ Rest(reqs', reqs, s) /\ IsMap(reqs', Slot, Pending)
      /\ DOMAIN reqs' = DOMAIN reqs /\ reqs'[s] = q
  BY <1>1, <1>2, <1>3, ChangeOne
<1>5. ToldSound
  BY DEF ToldSound, IInv, Tables, store, Kept
<1>6. SoundAgain(q)
  BY <1>1, <1>2 DEF SoundAgain, Sound, Busy, store, Kept
<1> QED
  BY <1>2, <1>4, <1>5, <1>6

LEMMA ClearOthersStep == ASSUME IInv, NEW s \in Slot, ClearOthers(s) PROVE IInv'
<1> DEFINE u == reqs[s].user
           p == reqs[s].persona
<1>1. /\ s \in DOMAIN reqs /\ reqs[s].pc \in Busy
      /\ profile' = OthersCleared(u, p) /\ Goto(s, "set")
      /\ UNCHANGED <<up, online, store, told>>
  BY DEF ClearOthers, At, Busy
<1>2. /\ Rest(reqs, reqs', s) /\ Rest(reqs', reqs, s) /\ IsMap(reqs', Slot, Pending)
      /\ s \in DOMAIN reqs' /\ SoundAgain(reqs'[s]) /\ ToldSound
      /\ reqs'[s].user = u /\ reqs'[s].persona = p
      /\ reqs'[s].pc = "set" /\ reqs'[s].op = reqs[s].op
  BY <1>1, BusyGoes
<1>3. /\ DOMAIN profile' = DOMAIN profile \ {x \in DOMAIN profile : profile[x] = u /\ x # p}
      /\ \A x \in DOMAIN profile' : profile'[x] = profile[x]
  BY <1>1 DEF OthersCleared, Without
<1>4. OwnProfiles
  BY <1>3 DEF OwnProfiles, IInv, Tables
<1>5. \A v : v # u => Holding(profile', v) = Holding(profile, v)
  BY <1>3 DEF Holding
<1>6. Apart(s)
  BY <1>1, <1>5 DEF Apart
<1>7. Holding(profile', u) \subseteq {p}
  BY <1>3 DEF Holding
<1>8. ASSUME u \notin told'.unsure
      PROVE  Mine(s, u)
  <2>1. SettledFor(reqs, profile, told.last, u) /\ Works(reqs, s, u)
    BY <1>1, <1>8, KnownBusy DEF Works
  <2> QED
    BY <1>1, <1>2, <1>7, <2>1 DEF Mine, Works, SettledFor, Busy
<1> QED
  BY <1>1, <1>2, <1>4, <1>6, <1>8, BusyStep

LEMMA SetProfileStep == ASSUME IInv, NEW s \in Slot, SetProfile(s) PROVE IInv'
<1> DEFINE u == reqs[s].user
           p == reqs[s].persona
<1>1. /\ s \in DOMAIN reqs /\ reqs[s].pc = "set" /\ reqs[s].pc \in Busy
      /\ profile' = Put(profile, p, u)
      /\ UNCHANGED <<up, online, store, told>>
      /\ \/ reqs[s].op = "late" /\ End(s)
         \/ reqs[s].op # "late" /\ Goto(s, "answer")
  BY DEF SetProfile, At, Busy
<1>2. /\ p \in Persona /\ u = Owner[p] /\ IsMap(reqs, Slot, Pending)
      /\ u \notin told.unsure => SettledFor(reqs, profile, told.last, u)
  BY <1>1, KnownBusy
<1>3. /\ DOMAIN profile' = DOMAIN profile \cup {p} /\ profile'[p] = u
      /\ \A x \in DOMAIN profile : x # p => profile'[x] = profile[x]
  BY <1>1 DEF Put
<1>4. OwnProfiles
  BY <1>2, <1>3 DEF OwnProfiles, IInv, Tables
<1>5. \A v : v # u => Holding(profile', v) = Holding(profile, v)
  BY <1>2, <1>3 DEF Holding, IInv, Tables
<1>6. Apart(s)
  BY <1>1, <1>5 DEF Apart
<1>7. ASSUME u \notin told'.unsure
      PROVE  /\ Holding(profile', u) = {p}
             /\ reqs[s].op = "late" => u \in DOMAIN told.last /\ told.last[u] = p
  <2>1. SettledFor(reqs, profile, told.last, u) /\ Works(reqs, s, u)
    BY <1>1, <1>2, <1>7 DEF Works
  <2>2. Holding(profile, u) \subseteq {p}
    BY <1>1, <2>1 DEF SettledFor
  <2> QED
    BY <1>1, <1>3, <2>1, <2>2 DEF Holding, SettledFor
<1>8. CASE reqs[s].op # "late" /\ Goto(s, "answer")
  <2>1. /\ Rest(reqs, reqs', s) /\ Rest(reqs', reqs, s) /\ IsMap(reqs', Slot, Pending)
        /\ s \in DOMAIN reqs' /\ SoundAgain(reqs'[s]) /\ ToldSound
        /\ reqs'[s].user = u /\ reqs'[s].persona = p
        /\ reqs'[s].pc = "answer" /\ reqs'[s].op = reqs[s].op
    BY <1>1, <1>8, BusyGoes
  <2>2. u \notin told'.unsure => Mine(s, u)
    BY <1>7, <1>8, <2>1 DEF Mine, Works, Busy
  <2> QED
    BY <1>1, <1>4, <1>6, <2>1, <2>2, BusyStep
<1>9. CASE reqs[s].op = "late" /\ End(s)
  <2>1. /\ Rest(reqs, reqs', s) /\ Rest(reqs', reqs, s) /\ IsMap(reqs', Slot, Pending)
        /\ s \notin DOMAIN reqs'
    BY <1>1, <1>2, <1>9, EndsHere
  <2>2. ToldSound
    BY <1>1 DEF ToldSound, IInv, Tables, store, Kept
  <2>3. u \notin told'.unsure => Mine(s, u)
    BY <1>1, <1>7, <1>9, <2>1 DEF Mine, Works
  <2> QED
    BY <1>1, <1>4, <1>6, <2>1, <2>2, <2>3, BusyStep
<1> QED
  BY <1>1, <1>8, <1>9
\* The answer of request s tells its key, and its persona as the user's last.
Tells(a, s) ==
  /\ a = [issued |-> a.issued, last |-> a.last, unsure |-> a.unsure]
  /\ a.issued = told.issued \cup {reqs[s].lkey}
  /\ a.last = Put(told.last, reqs[s].user, reqs[s].persona)

LEMMA AnswerTells ==
  ASSUME IInv, NEW s
  PROVE  Tells(Answered(reqs[s]), s) /\ Answered(reqs[s]).unsure = told.unsure
<1> DEFINE L == Put(told.last, reqs[s].user, reqs[s].persona)
           K == told.issued \cup {reqs[s].lkey}
<1>1. told = [issued |-> told.issued, last |-> told.last, unsure |-> told.unsure]
  BY DEF IInv, Tables
<1>2. Answered(reqs[s]) = [told EXCEPT !.issued = K, !.last = L]
  BY DEF Answered
<1> HIDE DEF L, K
<1>3. Answered(reqs[s]) = [issued |-> K, last |-> L, unsure |-> told.unsure]
  BY <1>1, <1>2
<1> QED
  BY <1>3 DEF Tells, L, K

LEMMA TellsSound ==
  ASSUME IInv, NEW s, s \in DOMAIN reqs, reqs[s].pc \in Busy, UNCHANGED <<store, profile>>,
         Tells(told', s)
  PROVE  /\ ToldSound /\ Apart(s) /\ OwnProfiles
         /\ reqs[s].user \in DOMAIN told'.last
         /\ told'.last[reqs[s].user] = reqs[s].persona
<1>1. reqs[s].lkey \in DOMAIN sessions /\ reqs[s].lkey \in Kept
  BY KnownBusy
<1>2. ToldSound
  BY <1>1 DEF ToldSound, Tells, IInv, Tables, store, Kept
<1>3. Apart(s)
  BY DEF Apart, Tells, Put, Holding
<1>4. OwnProfiles
  BY DEF OwnProfiles, IInv, Tables
<1> QED
  BY <1>2, <1>3, <1>4 DEF Tells, Put

LEMMA AnswerStep == ASSUME IInv, NEW s \in Slot, Answer(s) PROVE IInv'
<1> DEFINE u == reqs[s].user
           p == reqs[s].persona
<1>1. /\ s \in DOMAIN reqs /\ reqs[s].pc = "answer" /\ reqs[s].pc \in Busy
      /\ told' = Answered(reqs[s]) /\ End(s)
      /\ UNCHANGED <<up, online, store, profile>>
  BY DEF Answer, At, Busy
<1>2. /\ IsMap(reqs, Slot, Pending)
      /\ u \notin told.unsure => SettledFor(reqs, profile, told.last, u)
  BY <1>1, KnownBusy
<1>3. Tells(told', s) /\ told'.unsure = told.unsure
  BY <1>1, AnswerTells
<1>4. /\ ToldSound /\ Apart(s) /\ OwnProfiles
      /\ u \in DOMAIN told'.last /\ told'.last[u] = p
  BY <1>1, <1>3, TellsSound
<1>5. /\ Rest(reqs, reqs', s) /\ Rest(reqs', reqs, s) /\ IsMap(reqs', Slot, Pending)
      /\ s \notin DOMAIN reqs'
  BY <1>1, <1>2, EndsHere
<1>6. ASSUME u \notin told'.unsure
      PROVE  Mine(s, u)
  <2>1. SettledFor(reqs, profile, told.last, u) /\ Works(reqs, s, u)
    BY <1>1, <1>2, <1>3, <1>6 DEF Works
  <2>2. Holding(profile, u) = {p}
    BY <1>1, <2>1 DEF SettledFor
  <2> QED
    BY <1>1, <1>4, <1>5, <2>2 DEF Mine, Works
<1> QED
  BY <1>1, <1>3, <1>4, <1>5, <1>6, BusyStep

LEMMA CallTimesOutStep == ASSUME IInv, NEW s \in Slot, CallTimesOut(s) PROVE IInv'
<1> DEFINE r == reqs[s]
           u == r.user
           p == r.persona
           q == [r EXCEPT !.op = "late"]
<1>1. /\ s \in DOMAIN reqs /\ r.pc \in Busy /\ r.op = "persona"
      /\ r.pc # "answer" /\ told' = Answered(r) /\ reqs' = [reqs EXCEPT ![s] = q]
      /\ UNCHANGED <<up, online, store, profile>>
  BY DEF CallTimesOut, At, Busy
<1>2. /\ Sound(r, up /\ online, told.issued, Kept, expired, sessions)
      /\ r \in Pending /\ IsMap(reqs, Slot, Pending)
      /\ u \notin told.unsure => SettledFor(reqs, profile, told.last, u)
  BY <1>1, KnownBusy
<1>3. Tells(told', s) /\ told'.unsure = told.unsure
  BY <1>1, AnswerTells
<1>4. /\ ToldSound /\ Apart(s) /\ OwnProfiles
      /\ u \in DOMAIN told'.last /\ told'.last[u] = p
  BY <1>1, <1>3, TellsSound
<1>5. /\ q \in Pending /\ q.op = "late" /\ q.persona = p /\ q.lost = r.lost
      /\ q.pc = r.pc /\ q.user = u /\ q.lkey = r.lkey
  BY <1>2 DEF Pending
<1> HIDE DEF q
<1>6. /\ Rest(reqs, reqs', s) /\ Rest(reqs', reqs, s) /\ IsMap(reqs', Slot, Pending)
      /\ s \in DOMAIN reqs' /\ reqs'[s] = q
  BY <1>1, <1>2, <1>5, ChangeOne
<1>7. SoundAgain(q)
  BY <1>1, <1>2, <1>5 DEF SoundAgain, Sound, Busy, store, Kept
<1>8. ASSUME u \notin told'.unsure
      PROVE  Mine(s, u)
  <2>1. SettledFor(reqs, profile, told.last, u) /\ Works(reqs, s, u)
    BY <1>1, <1>2, <1>3, <1>8 DEF Works
  <2>2. r.pc = "set" => Holding(profile, u) \subseteq {p}
    BY <1>1, <2>1 DEF SettledFor
  <2> QED
    BY <1>1, <1>4, <1>5, <1>6, <2>2 DEF Mine, Works
<1> QED
  BY <1>1, <1>3, <1>4, <1>5, <1>6, <1>7, <1>8, BusyStep

\* A user whose call failed is one of whom nothing is claimed any more.
LEMMA CallFailsStep == ASSUME IInv, NEW s \in Slot, CallFails(s) PROVE IInv'
<1> DEFINE u == reqs[s].user
           t == IF reqs[s].op = "late" THEN told ELSE Answered(reqs[s])
<1>1. /\ s \in DOMAIN reqs /\ reqs[s].pc \in Busy /\ End(s)
      /\ told' = [t EXCEPT !.unsure = @ \cup {u}]
      /\ UNCHANGED <<up, online, store, profile>>
  BY DEF CallFails, At, Busy
<1>2. IsMap(reqs, Slot, Pending)
  BY <1>1, KnownBusy
<1>3. /\ Rest(reqs, reqs', s) /\ Rest(reqs', reqs, s) /\ IsMap(reqs', Slot, Pending)
      /\ s \notin DOMAIN reqs'
  BY <1>1, <1>2, EndsHere
<1>4. told = [issued |-> told.issued, last |-> told.last, unsure |-> told.unsure]
  BY DEF IInv, Tables
<1>5. /\ Tells(Answered(reqs[s]), s)
      /\ Answered(reqs[s]).unsure = told.unsure
  BY AnswerTells
<1>6. /\ u \in told'.unsure /\ told.unsure \subseteq told'.unsure
      /\ told' = [issued |-> told'.issued, last |-> told'.last, unsure |-> told'.unsure]
      /\ told'.issued = t.issued /\ told'.last = t.last
  BY <1>1, <1>4, <1>5 DEF Tells
<1>7. ToldSound /\ Apart(s) /\ OwnProfiles
  <2>1. CASE reqs[s].op = "late"
    BY <1>1, <1>4, <1>6, <2>1 DEF ToldSound, Apart, OwnProfiles, IInv, Tables, store, Kept
  <2>2. CASE reqs[s].op # "late"
    <3>1. Tells(told', s)
      BY <1>5, <1>6, <2>2 DEF Tells
    <3> QED
      BY <1>1, <3>1, TellsSound
  <2> QED
    BY <2>1, <2>2
<1> QED
  BY <1>1, <1>3, <1>6, <1>7, BusyStep

-----------------------------------------------------------------------------
(* Time, Redis and connections *)

LEMMA ExpireStep == ASSUME IInv, NEW l \in Lkey, Expire(l) PROVE IInv'
<1>1. /\ l \in told.issued /\ expired' = expired \cup {l} /\ redis' = redis \ {l}
      /\ UNCHANGED <<up, online, memory, sessions, profile, reqs, told>>
  BY DEF Expire
<1>2. Kept \subseteq Kept'
  BY <1>1 DEF Kept
<1>3. Requests'
  <2>1. ASSUME NEW s \in DOMAIN reqs
        PROVE  SoundAgain(reqs[s])
    BY <1>1, <1>2 DEF SoundAgain, Sound, IInv, Requests
  <2> QED
    BY <1>1, <2>1 DEF SoundAgain, IInv, Requests
<1>4. Tables'
  BY <1>1, <1>2 DEF IInv, Tables
<1>5. Settled'
  BY <1>1 DEF IInv, Settled
<1> QED
  BY <1>3, <1>4, <1>5 DEF IInv

\* Cleanup, and what Redis and the engine's view of it do, keep every key; no
\* request changes but for what it remembers of Redis and its connection.
LEMMA KeepStep ==
  ASSUME IInv, Kept' = Kept, up' \in BOOLEAN, online' \in BOOLEAN,
         UNCHANGED <<expired, sessions, profile, told>>,
         IsMap(reqs', Slot, Pending), DOMAIN reqs' = DOMAIN reqs,
         \A s \in DOMAIN reqs :
           /\ reqs'[s].op = reqs[s].op /\ reqs'[s].pc = reqs[s].pc
           /\ reqs'[s].user = reqs[s].user /\ reqs'[s].persona = reqs[s].persona
           /\ reqs'[s].lkey = reqs[s].lkey /\ (reqs[s].lost => reqs'[s].lost)
           /\ (up' /\ online') \/ reqs'[s].lost
  PROVE  IInv'
<1>1. Requests'
  <2>1. ASSUME NEW s \in DOMAIN reqs
        PROVE  SoundAgain(reqs'[s])
    <3>1. Sound(reqs[s], up /\ online, told.issued, Kept, expired, sessions)
      BY DEF IInv, Requests
    <3>2. reqs'[s] \in Pending
      BY DEF IsMap
    <3> QED
      BY <3>1, <3>2 DEF SoundAgain, Sound
  <2> QED
    BY <2>1 DEF SoundAgain, Requests
<1>2. Tables'
  BY DEF IInv, Tables
<1>3. SameWork(reqs, reqs')
  BY DEF SameWork
<1>4. Settled'
  BY <1>3, SettledStays DEF IInv, Settled
<1> QED
  BY <1>1, <1>2, <1>4 DEF IInv

LEMMA AroundStep ==
  ASSUME IInv, Cleanup \/ RedisStops \/ RedisOffline \/ RedisReturns \/ RedisOnline
               \/ (\E c \in Conn : Reconnect(c))
  PROVE  IInv'
<1>1. /\ up \in BOOLEAN /\ online \in BOOLEAN /\ IsMap(reqs, Slot, Pending)
      /\ \A s \in DOMAIN reqs : ((up /\ online) \/ reqs[s].lost) /\ reqs[s] \in Pending
  BY DEF IInv, Tables, Requests, Sound
<1>2. CASE Cleanup
  <2>1. Kept' = Kept
    BY <1>2 DEF Cleanup, Kept
  <2> QED
    BY <1>1, <1>2, <2>1, KeepStep DEF Cleanup
<1>3. CASE RedisStops
  <2>1. /\ reqs' = [s \in DOMAIN reqs |-> [reqs[s] EXCEPT !.lost = TRUE]]
        /\ up' = FALSE
        /\ UNCHANGED <<online, store, profile, told>>
    BY <1>3 DEF RedisStops
  <2>2. Kept' = Kept
    BY <2>1 DEF Kept, store
  <2>3. ASSUME NEW q \in Pending
        PROVE  [q EXCEPT !.lost = TRUE] \in Pending /\ [q EXCEPT !.lost = TRUE].lost
    BY DEF Pending
  <2>4. IsMap(reqs', Slot, Pending)
    BY <1>1, <2>1, <2>3 DEF IsMap
  <2>5. \A s \in DOMAIN reqs :
           /\ reqs'[s].op = reqs[s].op /\ reqs'[s].pc = reqs[s].pc
           /\ reqs'[s].user = reqs[s].user /\ reqs'[s].persona = reqs[s].persona
           /\ reqs'[s].lkey = reqs[s].lkey
    <3>1. ASSUME NEW q \in Pending
          PROVE  LET z == [q EXCEPT !.lost = TRUE]
                 IN  /\ z.op = q.op /\ z.pc = q.pc /\ z.user = q.user
                     /\ z.persona = q.persona /\ z.lkey = q.lkey
      BY DEF Pending
    <3> QED
      BY <1>1, <2>1, <3>1
  <2>6. ASSUME NEW s \in DOMAIN reqs
        PROVE  reqs'[s].lost
    BY <1>1, <2>1, <2>3
  <2> QED
    BY <1>1, <2>1, <2>2, <2>4, <2>5, <2>6, KeepStep DEF store
<1>4. CASE RedisOffline
  <2>1. Kept' = Kept
    BY <1>4 DEF RedisOffline, Kept, store
  <2> QED
    BY <1>1, <1>4, <2>1, KeepStep DEF RedisOffline, store
<1>5. CASE RedisReturns
  <2>1. Kept' = Kept
    BY <1>5 DEF RedisReturns, Kept, store
  <2> QED
    BY <1>1, <1>5, <2>1, KeepStep DEF RedisReturns, store
<1>6. CASE RedisOnline
  <2>1. Kept' = Kept
    BY <1>6 DEF RedisOnline, Kept, store
  <2> QED
    BY <1>1, <1>6, <2>1, KeepStep DEF RedisOnline, store
<1>7. ASSUME NEW c \in Conn, Reconnect(c)
      PROVE  IInv'
  <2>1. /\ reqs' = [s \in DOMAIN reqs |->
                IF reqs[s].conn = c THEN [reqs[s] EXCEPT !.conn = Gone] ELSE reqs[s]]
        /\ UNCHANGED <<up, online, store, profile, told>>
    BY <1>7 DEF Reconnect
  <2>2. Kept' = Kept
    BY <2>1 DEF Kept, store
  <2>3. ASSUME NEW q \in Pending
        PROVE  [q EXCEPT !.conn = Gone] \in Pending
    BY DEF Pending
  <2>4. IsMap(reqs', Slot, Pending)
    BY <1>1, <2>1, <2>3 DEF IsMap
  <2>5. \A s \in DOMAIN reqs :
           /\ reqs'[s].op = reqs[s].op /\ reqs'[s].pc = reqs[s].pc
           /\ reqs'[s].user = reqs[s].user /\ reqs'[s].persona = reqs[s].persona
           /\ reqs'[s].lkey = reqs[s].lkey /\ reqs'[s].lost = reqs[s].lost
    BY <1>1, <2>1
  <2> QED
    BY <1>1, <2>1, <2>2, <2>4, <2>5, KeepStep DEF store
<1> QED
  BY <1>2, <1>3, <1>4, <1>5, <1>6, <1>7

-----------------------------------------------------------------------------
(* The invariant *)

LEMMA InitIInv == ASSUME Init PROVE IInv
<1>1. /\ up = TRUE /\ online \in BOOLEAN /\ sessions = <<>>
      /\ DOMAIN profile = {} /\ DOMAIN reqs = {}
      /\ told = [issued |-> {}, last |-> EmptyMap, unsure |-> {}]
      /\ IsMap(reqs, Slot, Pending)
  BY EmptyMapType DEF Init
<1>2. Requests
  BY <1>1 DEF Requests
<1>3. sessions \in Seq(Session)
  BY <1>1
<1>4. Tables
  BY <1>1, <1>3 DEF Tables
<1>5. DOMAIN told.last = {}
  BY <1>1, EmptyMapType
<1>6. Settled
  BY <1>1, <1>5 DEF Settled, SettledFor, Works, Holding
<1> QED
  BY <1>2, <1>4, <1>6 DEF IInv

LEMMA NextIInv == ASSUME IInv, [Next]_vars PROVE IInv'
<1>1. CASE UNCHANGED vars
  BY <1>1 DEF vars, store, IInv, Requests, Tables, Settled, Kept
<1>2. ASSUME NEW s \in Slot, Request(s)
      PROVE  IInv'
  BY <1>2, RequestsBegin
<1>3. ASSUME NEW s \in Slot, Step(s)
      PROVE  IInv'
  BY <1>3, ValidateStep, LookupStep, GetSessionStep, AnswerRefusedStep, CreateSessionStep,
     SetexStep, ClearOthersStep, SetProfileStep, AnswerStep, CallTimesOutStep, CallFailsStep
     DEF Step
<1>4. ASSUME NEW l \in Lkey, Expire(l)
      PROVE  IInv'
  BY <1>4, ExpireStep
<1>5. CASE Cleanup \/ RedisStops \/ RedisOffline \/ RedisReturns \/ RedisOnline
           \/ (\E c \in Conn : Reconnect(c))
  BY <1>5, AroundStep
<1> QED
  BY <1>1, <1>2, <1>3, <1>4, <1>5 DEF Next

LEMMA InvariantHolds == Spec => []IInv
BY InitIInv, NextIInv, PTL DEF Spec

\* A key that a client was given is kept in Redis or in memory until its time
\* is over, whatever Redis did while it was stored (RedisSessionStore).
THEOREM IssuedKeysResolve == Spec => []IssuedResolves
<1>1. ASSUME IInv PROVE IssuedResolves
  BY <1>1 DEF IInv, Tables, Kept, IssuedResolves
<1> QED
  BY <1>1, InvariantHolds, PTL

\* No request is refused for a key that is still good, unless Redis was away at
\* some time while the request ran.
THEOREM RefusedForCause == Spec => []NullMeansGone
<1>1. ASSUME IInv PROVE NullMeansGone
  BY <1>1 DEF IInv, Requests, Sound, NullMeansGone
<1> QED
  BY <1>1, InvariantHolds, PTL

\* When nothing of a user is under way, the user's GameSpy profile is that of
\* the persona last logged in with and of no other, unless a call to the API
\* failed or two persona logins of the user overlapped.
THEOREM ProfileFollowsLogin == Spec => []ResolvesToPersona
<1>1. ASSUME IInv PROVE ResolvesToPersona
  <2>1. ASSUME NEW u, u \in DOMAIN told.last \ told.unsure,
               \A s \in DOMAIN reqs : reqs[s].user = u => reqs[s].pc \notin {"clear", "set", "answer"}
        PROVE  Holders(u) = {told.last[u]}
    <3>1. SettledFor(reqs, profile, told.last, u)
      BY <1>1, <2>1 DEF IInv, Settled
    <3>2. \A s : ~Works(reqs, s, u)
      BY <2>1 DEF Works, Busy
    <3> QED
      BY <2>1, <3>1, <3>2 DEF SettledFor, Holding, Holders
  <2> QED
    BY <2>1 DEF ResolvesToPersona
<1> QED
  BY <1>1, InvariantHolds, PTL

-----------------------------------------------------------------------------
(* Types: no key is made twice, so what Redis drops or a client is given *)
(* is never a key that is still being stored.                          *)

\* Request s of R is storing the key l; it has made it, and may still use it.
Stores(R, s, l) == s \in DOMAIN R /\ R[s].pc = "setex" /\ R[s].lkey = l
Has(R, s, l) == s \in DOMAIN R /\ R[s].pc \in {"setex"} \cup Busy /\ R[s].lkey = l

Fresh(R, issued) ==
  \A s, l : Stores(R, s, l) => l \notin issued /\ \A t : Has(R, t, l) => t = s

StoresKnown ==
  /\ redis \subseteq DOMAIN sessions /\ memory \subseteq DOMAIN sessions
  /\ expired \subseteq told.issued /\ redis \cap expired = {}

Attached == attached \in [Conn -> {0} \cup DOMAIN sessions]

TInv == StoresKnown /\ Attached /\ Fresh(reqs, told.issued)
        /\ IsMap(profile, Persona, User) /\ IsMap(told.last, User, Persona)

\* What request s does leaves the keys fresh: it stores none after it, and it
\* has none but one that it had; a key that it is answered was its own.
LEMMA FreshStays ==
  ASSUME NEW R, NEW S, NEW s, NEW issued, NEW issued2, NEW l, Fresh(R, issued),
         Rest(R, S, s),
         s \in DOMAIN S => /\ S[s].pc # "setex"
                           /\ S[s].pc \in Busy => S[s].lkey = l,
         issued2 \subseteq issued \cup {l},
         \A t : t # s => ~Stores(R, t, l)
  PROVE  Fresh(S, issued2)
<1>1. \A t, k : Stores(S, t, k) => t # s /\ Stores(R, t, k) /\ k # l
  BY DEF Rest, Stores
<1>2. \A t, k : Has(S, t, k) /\ k # l => Has(R, t, k)
  BY DEF Rest, Has
<1> QED
  BY <1>1, <1>2 DEF Fresh

\* A new key is stored.
LEMMA FreshNew ==
  ASSUME NEW R, NEW S, NEW s, NEW issued, NEW l, Fresh(R, issued), Rest(R, S, s),
         S[s].pc = "setex", S[s].lkey = l, l \notin issued, \A t : ~Has(R, t, l)
  PROVE  Fresh(S, issued)
<1>1. \A t, k : Stores(S, t, k) => (t = s /\ k = l) \/ (t # s /\ Stores(R, t, k) /\ k # l)
  BY DEF Rest, Stores, Has
<1>2. \A t, k : Has(S, t, k) => (t = s /\ k = l) \/ (t # s /\ Has(R, t, k) /\ k # l)
  BY DEF Rest, Has
<1> QED
  BY <1>1, <1>2 DEF Fresh

\* The keys that requests have are those of sessions.
LEMMA HasSession ==
  ASSUME IInv, NEW s, NEW l, Has(reqs, s, l)
  PROVE  l \in DOMAIN sessions
BY DEF IInv, Requests, Sound, Has

LEMMA StoresHas ==
  ASSUME NEW R, NEW s, NEW l, Stores(R, s, l)
  PROVE  Has(R, s, l)
BY DEF Stores, Has

LEMMA AttachTyped ==
  ASSUME IInv, TInv, NEW s, s \in DOMAIN reqs, NEW l, Attach(reqs[s].conn, l),
         l \in DOMAIN sessions', DOMAIN sessions \subseteq DOMAIN sessions'
  PROVE  Attached'
<1>1. reqs[s].conn \in Conn \cup {Gone}
  BY Known DEF Pending
<1>2. attached \in [Conn -> {0} \cup DOMAIN sessions']
  BY DEF TInv, Attached
<1>3. attached' \in [Conn -> {0} \cup DOMAIN sessions']
  BY <1>1, <1>2 DEF Attach
<1> QED
  BY <1>3 DEF Attached

\* A request that neither stores nor has a key begins, goes on or ends.
LEMMA QuietTyped ==
  ASSUME IInv, TInv, NEW s, Rest(reqs, reqs', s),
         s \in DOMAIN reqs' => reqs'[s].pc \notin {"setex"} \cup Busy,
         UNCHANGED <<store, profile, told>>, Attached'
  PROVE  TInv'
<1>1. \A t, k : Stores(reqs', t, k) => Stores(reqs, t, k)
  BY DEF Rest, Stores
<1>2. \A t, k : Has(reqs', t, k) => Has(reqs, t, k)
  BY DEF Rest, Has
<1>3. Fresh(reqs', told.issued)
  BY <1>1, <1>2 DEF Fresh, TInv
<1> QED
  BY <1>3 DEF TInv, StoresKnown, store

LEMMA RequestTyped == ASSUME IInv, TInv, NEW s \in Slot, Request(s) PROVE TInv'
<1>1. PICK q : /\ reqs' = Put(reqs, s, q) /\ q.pc \notin {"setex"} \cup Busy
               /\ UNCHANGED <<store, profile, told, attached>>
  BY DEF Request, Login, GetPersonas, LoginPersona, Connect, Begin, Busy
<1>2. Rest(reqs, reqs', s) /\ reqs'[s] = q
  BY <1>1 DEF Rest, Put
<1>3. Attached'
  BY <1>1 DEF Attached, TInv, store
<1> QED
  BY <1>1, <1>2, <1>3, QuietTyped

LEMMA BeforeTyped ==
  ASSUME IInv, TInv, NEW s \in Slot,
         Validate(s) \/ Lookup(s) \/ AnswerRefused(s) \/ GetSession(s)
  PROVE  TInv'
<1> DEFINE r == reqs[s]
<1>1. /\ s \in DOMAIN reqs
      /\ UNCHANGED <<store, profile, told>>
      /\ \/ End(s)
         \/ \E pc : pc \notin {"setex"} \cup Busy /\ reqs' = [reqs EXCEPT ![s] = [r EXCEPT !.pc = pc]]
         \/ reqs' = [reqs EXCEPT ![s] = [r EXCEPT !.pc = "lookup", !.user = AskedUser(r.lkey)]]
      /\ UNCHANGED attached \/ (r.pc = "get" /\ Attach(r.conn, r.lkey))
  BY DEF Validate, Lookup, AnswerRefused, GetSession, Found, Refused, At, Goto, Busy
<1>2. /\ Sound(r, up /\ online, told.issued, Kept, expired, sessions) /\ r \in Pending
      /\ IsMap(reqs, Slot, Pending)
  BY <1>1, Known
<1>3. Rest(reqs, reqs', s) /\ (s \in DOMAIN reqs' => reqs'[s].pc \notin {"setex"} \cup Busy)
  <2>1. CASE End(s)
    BY <1>1, <1>2, <2>1, EndsHere
  <2>2. ASSUME NEW pc, pc \notin {"setex"} \cup Busy,
               reqs' = [reqs EXCEPT ![s] = [r EXCEPT !.pc = pc]]
        PROVE  Rest(reqs, reqs', s) /\ reqs'[s].pc = pc
    BY <1>1, <1>2, <2>2 DEF Rest, Pending, IsMap
  <2>3. CASE reqs' = [reqs EXCEPT ![s] = [r EXCEPT !.pc = "lookup", !.user = AskedUser(r.lkey)]]
    BY <1>1, <1>2, <2>3 DEF Rest, Pending, IsMap, Busy
  <2> QED
    BY <1>1, <2>1, <2>2, <2>3
<1>4. Attached'
  <2>1. CASE UNCHANGED attached
    BY <1>1, <2>1 DEF Attached, TInv, store
  <2>2. CASE r.pc = "get" /\ Attach(r.conn, r.lkey)
    <3>1. r.lkey \in DOMAIN sessions
      BY <1>2, <2>2 DEF Sound, IInv, Tables
    <3> QED
      BY <1>1, <2>2, <3>1, AttachTyped DEF store
  <2> QED
    BY <1>1, <2>1, <2>2
<1> QED
  BY <1>1, <1>3, <1>4, QuietTyped

LEMMA CreatedTyped ==
  ASSUME IInv, TInv, NEW s, s \in DOMAIN reqs, reqs[s].pc \in {"create", "setex"},
         NEW l, Created(s, l), l \in DOMAIN sessions', Grown, profile' = profile,
         redis' \subseteq DOMAIN sessions', memory' \subseteq DOMAIN sessions',
         redis' \cap expired' = {},
         Stores(reqs, s, l) \/ l \notin DOMAIN sessions
  PROVE  TInv'
<1> DEFINE r == reqs[s]
           q == [r EXCEPT !.pc = "clear", !.lkey = l]
<1>1. r \in Pending /\ IsMap(reqs, Slot, Pending)
  BY Known
<1>2. Attached'
  BY AttachTyped DEF Created, Grown
<1>3. told = [issued |-> told.issued, last |-> told.last, unsure |-> told.unsure]
  BY DEF IInv, Tables
<1>4. /\ \/ reqs' = Delete(reqs, s) /\ told' = [told EXCEPT !.issued = @ \cup {l}]
         \/ reqs' = [reqs EXCEPT ![s] = q]
            /\ (told' = told \/ told' = [told EXCEPT !.unsure = @ \cup {r.user}])
  BY DEF Created, End
<1>5. /\ told'.issued \subseteq told.issued \cup {l} /\ told.issued \subseteq told'.issued
      /\ told'.last = told.last
  BY <1>3, <1>4
<1>6. /\ Rest(reqs, reqs', s)
      /\ s \in DOMAIN reqs' => reqs'[s].pc = "clear" /\ reqs'[s].lkey = l
  <2>1. CASE reqs' = Delete(reqs, s)
    BY <1>1, <2>1, EndsHere DEF End
  <2>2. CASE reqs' = [reqs EXCEPT ![s] = q]
    BY <1>1, <2>2 DEF Rest, Pending, IsMap
  <2> QED
    BY <1>4, <2>1, <2>2
<1>7. \A t : t # s => ~Stores(reqs, t, l)
  BY HasSession, StoresHas DEF TInv, Fresh
<1>8. Fresh(reqs', told'.issued)
  BY <1>5, <1>6, <1>7, FreshStays DEF TInv
<1>9. StoresKnown'
  BY <1>5 DEF StoresKnown, TInv, Grown
<1> QED
  BY <1>2, <1>5, <1>8, <1>9 DEF TInv

LEMMA CreateSessionTyped == ASSUME IInv, TInv, NEW s \in Slot, CreateSession(s) PROVE TInv'
<1> DEFINE r == reqs[s]
           l == Len(sessions) + 1
           e == [user |-> r.user, persona |-> r.persona]
           q == [r EXCEPT !.pc = "setex", !.lkey = l]
<1>1. /\ s \in DOMAIN reqs /\ r.pc = "create"
      /\ sessions' = Append(sessions, e)
      /\ up' = up /\ online' = online /\ redis' = redis /\ expired' = expired
      /\ profile' = profile
  BY DEF CreateSession, At
<1>2. Sound(r, up /\ online, told.issued, Kept, expired, sessions) /\ r \in Pending
      /\ IsMap(reqs, Slot, Pending)
  BY <1>1, Known
<1>3. r.op \in {"login", "persona"} /\ e \in Session
  BY <1>1, <1>2, LoginAssumption DEF Sound, Pending, Busy, Session
<1>4. sessions \in Seq(Session)
  BY DEF IInv, Tables
<1> HIDE DEF e
<1>5. /\ sessions' \in Seq(Session) /\ l \in DOMAIN sessions' /\ l \notin DOMAIN sessions
      /\ DOMAIN sessions \subseteq DOMAIN sessions'
      /\ \A x \in DOMAIN sessions : sessions'[x] = sessions[x]
  BY <1>1, <1>3, <1>4
<1> HIDE DEF l
<1>6. CASE online
  <2>1. /\ reqs' = [reqs EXCEPT ![s] = q]
        /\ memory' = memory /\ attached' = attached /\ told' = told
    BY <1>6 DEF CreateSession, l
  <2>2. Rest(reqs, reqs', s) /\ reqs'[s].pc = "setex" /\ reqs'[s].lkey = l
    BY <1>1, <1>2, <2>1 DEF Rest, Pending, IsMap
  <2>3. \A t : ~Has(reqs, t, l)
    BY <1>5, HasSession
  <2>4. l \notin told.issued
    BY <1>5 DEF IInv, Tables
  <2>5. Fresh(reqs', told'.issued)
    BY <2>1, <2>2, <2>3, <2>4, FreshNew DEF TInv
  <2>6. Attached'
    BY <1>5, <2>1 DEF TInv, Attached
  <2>7. StoresKnown'
    BY <1>1, <1>5, <2>1 DEF TInv, StoresKnown
  <2> QED
    BY <1>1, <2>1, <2>5, <2>6, <2>7 DEF TInv
<1>7. CASE ~online
  <2>1. memory' = memory \cup {l} /\ Created(s, l)
    BY <1>7 DEF CreateSession, l
  <2>2. Grown
    BY <1>1, <1>5, <2>1 DEF Kept, Grown
  <2>3. /\ redis' \subseteq DOMAIN sessions' /\ memory' \subseteq DOMAIN sessions'
        /\ redis' \cap expired' = {}
    BY <1>1, <1>5, <2>1 DEF TInv, StoresKnown
  <2> QED
    BY <1>1, <1>5, <2>1, <2>2, <2>3, CreatedTyped
<1> QED
  BY <1>6, <1>7

LEMMA SetexTyped ==
  ASSUME IInv, TInv, NEW s \in Slot, SetexDone(s) \/ SetexFails(s)
  PROVE  TInv'
<1> DEFINE l == reqs[s].lkey
<1>1. /\ s \in DOMAIN reqs /\ reqs[s].pc = "setex" /\ Created(s, l)
      /\ up' = up /\ online' = online /\ expired' = expired /\ sessions' = sessions
      /\ profile' = profile
      /\ redis \subseteq redis' /\ memory \subseteq memory'
      /\ redis' \subseteq redis \cup {l} /\ memory' \subseteq memory \cup {l}
  BY DEF SetexDone, SetexFails, At
<1>2. Stores(reqs, s, l)
  BY <1>1 DEF Stores
<1>3. l \in DOMAIN sessions
  BY <1>2, StoresHas, HasSession
<1>4. l \notin expired
  BY <1>2 DEF TInv, Fresh, StoresKnown
<1>5. Grown
  BY <1>1 DEF Grown, Kept, IInv, Tables
<1>6. /\ redis' \subseteq DOMAIN sessions' /\ memory' \subseteq DOMAIN sessions'
      /\ redis' \cap expired' = {}
  BY <1>1, <1>3, <1>4 DEF TInv, StoresKnown
<1> QED
  BY <1>1, <1>2, <1>3, <1>5, <1>6, CreatedTyped

\* The work on a profile, and the answer that gives its key away.
LEMMA BusyTyped ==
  ASSUME IInv, TInv, NEW s, s \in DOMAIN reqs, reqs[s].pc \in Busy,
         Rest(reqs, reqs', s),
         s \in DOMAIN reqs' => reqs'[s].pc \in Busy /\ reqs'[s].lkey = reqs[s].lkey,
         UNCHANGED <<store, attached>>, IsMap(profile', Persona, User),
         \/ told' = told
         \/ told'.issued = told.issued /\ told'.last = told.last
         \/ Tells(told', s)
  PROVE  TInv'
<1> DEFINE l == reqs[s].lkey
<1>1. reqs[s].persona \in Persona /\ reqs[s].user \in User
  BY KnownBusy, LoginAssumption
<1>2. /\ told'.issued \subseteq told.issued \cup {l} /\ told.issued \subseteq told'.issued
      /\ told'.last \in {told.last, Put(told.last, reqs[s].user, reqs[s].persona)}
  BY DEF Tells
<1>3. IsMap(told'.last, User, Persona)
  BY <1>1, <1>2, PutType DEF TInv
<1>4. Has(reqs, s, l) /\ \A t : t # s => ~Stores(reqs, t, l)
  BY DEF TInv, Fresh, Has
<1>5. s \in DOMAIN reqs' => reqs'[s].pc # "setex" /\ reqs'[s].lkey = l
  BY DEF Busy
<1>6. Fresh(reqs', told'.issued)
  BY <1>2, <1>4, <1>5, FreshStays DEF TInv
<1>7. StoresKnown'
  BY <1>2 DEF TInv, StoresKnown, store
<1>8. Attached'
  BY DEF TInv, Attached, store
<1> QED
  BY <1>3, <1>6, <1>7, <1>8 DEF TInv

LEMMA ProfileTyped ==
  ASSUME IInv, TInv, NEW s \in Slot,
         ClearOthers(s) \/ SetProfile(s) \/ Answer(s) \/ CallTimesOut(s) \/ CallFails(s)
  PROVE  TInv'
<1> DEFINE r == reqs[s]
<1>1. /\ s \in DOMAIN reqs /\ r.pc \in Busy /\ UNCHANGED <<store, attached>>
      /\ \/ End(s)
         \/ \E pc \in Busy : reqs' = [reqs EXCEPT ![s] = [r EXCEPT !.pc = pc]]
         \/ reqs' = [reqs EXCEPT ![s] = [r EXCEPT !.op = "late"]]
      /\ \/ UNCHANGED profile
         \/ profile' = OthersCleared(r.user, r.persona)
         \/ profile' = Put(profile, r.persona, r.user)
      /\ \/ told' = told
         \/ told' = Answered(r)
         \/ told' = [told EXCEPT !.unsure = @ \cup {r.user}]
         \/ told' = [Answered(r) EXCEPT !.unsure = @ \cup {r.user}]
  BY DEF ClearOthers, SetProfile, Answer, CallTimesOut, CallFails, At, Goto, Busy
<1>2. r \in Pending /\ IsMap(reqs, Slot, Pending)
  BY <1>1, KnownBusy
<1>3. r.persona \in Persona /\ r.user \in User
  BY <1>1, KnownBusy, LoginAssumption
<1>4. Rest(reqs, reqs', s) /\ (s \in DOMAIN reqs' => reqs'[s].pc \in Busy /\ reqs'[s].lkey = r.lkey)
  <2>1. CASE End(s)
    BY <1>1, <1>2, <2>1, EndsHere
  <2>2. ASSUME NEW pc \in Busy, reqs' = [reqs EXCEPT ![s] = [r EXCEPT !.pc = pc]]
        PROVE  Rest(reqs, reqs', s) /\ reqs'[s].pc = pc /\ reqs'[s].lkey = r.lkey
    BY <1>1, <1>2, <2>2 DEF Rest, Pending, IsMap
  <2>3. CASE reqs' = [reqs EXCEPT ![s] = [r EXCEPT !.op = "late"]]
    BY <1>1, <1>2, <2>3 DEF Rest, Pending, IsMap
  <2> QED
    BY <1>1, <2>1, <2>2, <2>3
<1>5. IsMap(profile', Persona, User)
  BY <1>1, <1>3, PutType, WithoutType DEF OthersCleared, TInv
<1>6. /\ told = [issued |-> told.issued, last |-> told.last, unsure |-> told.unsure]
      /\ Tells(Answered(r), s)
  BY AnswerTells DEF IInv, Tables
<1>7. \/ told' = told
      \/ told'.issued = told.issued /\ told'.last = told.last
      \/ Tells(told', s)
  BY <1>1, <1>6 DEF Tells
<1> QED
  BY <1>1, <1>4, <1>5, <1>7, BusyTyped

LEMMA AroundTyped ==
  ASSUME IInv, TInv,
         \/ \E l \in Lkey : Expire(l)
         \/ Cleanup \/ RedisStops \/ RedisOffline \/ RedisReturns \/ RedisOnline
         \/ \E c \in Conn : Reconnect(c)
  PROVE  TInv'
<1>1. /\ DOMAIN reqs' = DOMAIN reqs
      /\ \A s \in DOMAIN reqs : reqs'[s].pc = reqs[s].pc /\ reqs'[s].lkey = reqs[s].lkey
  <2>1. IsMap(reqs, Slot, Pending)
    BY DEF IInv, Requests
  <2>2. \A s \in DOMAIN reqs :
          /\ [reqs[s] EXCEPT !.lost = TRUE].pc = reqs[s].pc
          /\ [reqs[s] EXCEPT !.lost = TRUE].lkey = reqs[s].lkey
          /\ [reqs[s] EXCEPT !.conn = Gone].pc = reqs[s].pc
          /\ [reqs[s] EXCEPT !.conn = Gone].lkey = reqs[s].lkey
    BY <2>1 DEF IsMap, Pending
  <2>3. \/ reqs' = reqs
        \/ reqs' = [s \in DOMAIN reqs |-> [reqs[s] EXCEPT !.lost = TRUE]]
        \/ \E c \in Conn : reqs' = [s \in DOMAIN reqs |->
              IF reqs[s].conn = c THEN [reqs[s] EXCEPT !.conn = Gone] ELSE reqs[s]]
    BY DEF Expire, Cleanup, RedisStops, RedisOffline, RedisReturns, RedisOnline, Reconnect
  <2> QED
    BY <2>2, <2>3
<1>2. told' = told /\ profile' = profile /\ sessions' = sessions
  BY DEF Expire, Cleanup, RedisStops, RedisOffline, RedisReturns, RedisOnline, Reconnect, store
<1>3. Fresh(reqs', told'.issued)
  <2>1. \A s, l : Stores(reqs', s, l) <=> Stores(reqs, s, l)
    BY <1>1 DEF Stores
  <2>2. \A s, l : Has(reqs', s, l) <=> Has(reqs, s, l)
    BY <1>1 DEF Has
  <2> QED
    BY <1>2, <2>1, <2>2 DEF Fresh, TInv
<1>4. StoresKnown'
  BY <1>2 DEF StoresKnown, TInv, Expire, Cleanup, RedisStops, RedisOffline, RedisReturns,
     RedisOnline, Reconnect, store
<1>5. Attached'
  BY <1>2 DEF Attached, TInv, Expire, Cleanup, RedisStops, RedisOffline, RedisReturns,
     RedisOnline, Reconnect, store
<1> QED
  BY <1>2, <1>3, <1>4, <1>5 DEF TInv

LEMMA TypesHold == Spec => []TInv
<1>1. ASSUME Init PROVE TInv
  <2>1. /\ DOMAIN reqs = {} /\ IsMap(profile, Persona, User) /\ IsMap(told.last, User, Persona)
    BY <1>1, EmptyMapType DEF Init
  <2> QED
    BY <1>1, <2>1 DEF Init, TInv, StoresKnown, Attached, Fresh, Stores
<1>2. ASSUME IInv, TInv, [Next]_vars PROVE TInv'
  <2>1. CASE UNCHANGED vars
    BY <1>2, <2>1 DEF vars, store, TInv, StoresKnown, Attached, Fresh
  <2>2. ASSUME NEW s \in Slot, Request(s) PROVE TInv'
    BY <1>2, <2>2, RequestTyped
  <2>3. ASSUME NEW s \in Slot, Step(s) PROVE TInv'
    BY <1>2, <2>3, BeforeTyped, CreateSessionTyped, SetexTyped, ProfileTyped DEF Step
  <2>4. CASE \/ \E l \in Lkey : Expire(l)
             \/ Cleanup \/ RedisStops \/ RedisOffline \/ RedisReturns \/ RedisOnline
             \/ \E c \in Conn : Reconnect(c)
    BY <1>2, <2>4, AroundTyped
  <2> QED
    BY <1>2, <2>1, <2>2, <2>3, <2>4 DEF Next
<1> QED
  BY <1>1, <1>2, InvariantHolds, PTL DEF Spec

\* Every variable of the login keeps its type: the stores hold sessions that
\* were made, and Redis none whose time is over.
THEOREM LoginTypeCorrect == Spec => []TypeOK
<1>1. ASSUME IInv, TInv PROVE TypeOK
  <2>1. /\ sessions \in Seq(Session) /\ up \in BOOLEAN /\ online \in BOOLEAN
        /\ DOMAIN reqs \subseteq Slot /\ told.issued \subseteq DOMAIN sessions
    BY <1>1 DEF IInv, Tables, Requests, IsMap
  <2>2. DOMAIN sessions = 1..Len(sessions) /\ Len(sessions) \in Nat
    BY <2>1
  <2>3. \A l \in DOMAIN sessions : sessions[l].user \in User
    <3>1. \A l \in DOMAIN sessions : sessions[l] \in Session
      BY <2>1, ElementOfSeq, LenProperties
    <3> QED
      BY <3>1 DEF Session
  <2>4. attached \in [Conn -> 0..Len(sessions)]
    BY <1>1, <2>2 DEF TInv, Attached
  <2> QED
    BY <1>1, <2>1, <2>2, <2>3, <2>4 DEF TInv, StoresKnown, TypeOK
<1> QED
  BY <1>1, InvariantHolds, TypesHold, PTL


=============================================================================
