--------------------------- MODULE GameSpyStreams ---------------------------
(***************************************************************************)
(* The TCP services of GameSpy: the server browser (browser), the master   *)
(* server (master), presence (gpcm), search (gpsp) and chat.  Connections  *)
(* share nothing with each other, so one is followed at a time.            *)
(*                                                                         *)
(* A frame has two halves (of the browser: its length and the rest), and a *)
(* chunk may end after either.  A client of chat that asks for CRYPT waits *)
(* for the keys before it writes on, as the game does.                     *)
(***************************************************************************)
EXTENDS Naturals, Sequences, FiniteSets

\* list, bare: list requests, bare with NO_SERVER_LIST; other: not understood;
\* bad: a length below 3 or above 4096; login, stale: with a ticket that
\* GameSpyPreAuth saved, or not; ka: ka or
\* getprofile; ask: USRIP, JOIN, GETCKEY, LOGIN or PING.
FrameKind ==
  [browser |-> {"list", "bare", "other", "bad"},
   master  |-> {"list"},
   gpsp    |-> {"search"},
   gpcm    |-> {"login", "stale", "ka", "status", "logout"},
   chat    |-> {"CRYPT", "NICK", "USER", "ask", "QUIT"}]
Service == DOMAIN FrameKind

CONSTANT MaxFrames      \* bound on the frames of a connection, by service

ASSUME StreamsAssumption == MaxFrames \in [Service -> Nat]

\* sent: what the client has written; got: halves that have arrived; done: frames
\* handled; open: the socket is not destroyed; ended: socket.end() was called,
\* what is written then is lost; key: CRYPTs the server has carried out; clear:
\* all that either side read was enciphered with the key that it held; nick,
\* user, welcomed: of chat.
NewConnection(s) ==
  [service |-> s, sent |-> <<>>, got |-> 0, done |-> 0, open |-> TRUE, ended |-> FALSE,
   answers |-> <<>>, key |-> 0, clear |-> TRUE, nick |-> FALSE, user |-> FALSE, welcomed |-> FALSE]

-----------------------------------------------------------------------------
(* Answers *)

\* How many of the first n of s are a CRYPT, or its answer 705.
Crypts(s, n) == Cardinality({i \in 1..n : s[i] = "CRYPT"})

\* The client reads with the keys of the 705s it has been sent.
Held(c) == Crypts(c.answers, Len(c.answers))

\* socket.write, for chat under the current key.
Write(c, a) ==
  IF c.ended THEN c
  ELSE [c EXCEPT !.answers = Append(@, a), !.clear = @ /\ c.key = Held(c)]

EndSocket(c) == [c EXCEPT !.ended = TRUE]

Rekey(c) == [Write(c, "CRYPT") EXCEPT !.key = @ + 1]

Welcome(c) ==
  IF c.nick /\ c.user /\ ~c.welcomed THEN [Write(c, "welcome") EXCEPT !.welcomed = TRUE] ELSE c

Browser(c, f) == IF f \in {"list", "bare"} THEN Write(c, f) ELSE c

Gpsp(c, f) == Write(c, f)

\* handlePacket and handleLogin: a login is told in, or refused and closed.
Gpcm(c, f) ==
  CASE f \in {"login", "ka"} -> Write(c, f)
    [] f = "stale"           -> EndSocket(Write(c, f))
    [] f = "logout"          -> EndSocket(c)
    [] OTHER                 -> c

Chat(c, f) ==
  CASE f = "CRYPT" -> Rekey(c)
    [] f = "NICK"  -> Welcome([c EXCEPT !.nick = TRUE])
    [] f = "USER"  -> Welcome([c EXCEPT !.user = TRUE])
    [] f = "ask"   -> Write(c, f)
    [] f = "QUIT"  -> EndSocket(c)

Handle(c, f) ==
  CASE c.service = "browser" -> Browser(c, f)
    [] c.service = "gpsp"    -> Gpsp(c, f)
    [] c.service = "gpcm"    -> Gpcm(c, f)
    [] c.service = "chat"    -> Chat(c, f)

-----------------------------------------------------------------------------
(* Chunks *)

BadLength(c) == c.done < Len(c.sent) /\ c.got > 2 * c.done /\ c.sent[c.done + 1] = "bad"
WholeFrame(c) == c.got >= 2 * c.done + 2 /\ ~BadLength(c)
TakeFrame(c) == Handle([c EXCEPT !.done = @ + 1], c.sent[c.done + 1])

\* A turn of the loop of a 'data' listener takes a whole frame from the buffer;
\* the server browser destroys the socket at a length that cannot be.
LoopTurn(c) ==
  CASE BadLength(c)  -> [c EXCEPT !.open = FALSE]
    [] WholeFrame(c) -> TakeFrame(c)
    [] OTHER         -> c

\* Mutant: one frame is taken from a chunk.
TakenOnce(c) == LoopTurn(c)

\* The loop: more turns than frames were written change nothing.
Taken(c) ==
  LET after[k \in 0..(Len(c.sent) + 1)] == IF k = 0 THEN c ELSE LoopTurn(after[k - 1])
  IN after[Len(c.sent) + 1]

\* The master server keeps nothing of an earlier chunk: it answers, once, a
\* chunk in which it finds \list\ or \final\.  A whole request has them; whether
\* a torn one does depends on the cut (seen).
Finish(c) == IF c.answers = <<>> THEN Write(c, "list") ELSE c
MasterChunk(c, n, seen) ==
  LET d == [c EXCEPT !.got = n] IN
  IF seen \/ \E i \in 1..n : c.got < 2 * i - 1 /\ 2 * i <= n THEN Finish(d) ELSE d

\* What a client writes after CRYPT it enciphers with the keys of the answer.
ClientKey(c, half) == Crypts(c.sent, (half - 1) \div 2)

\* A chunk is deciphered as a whole when it arrives, with the key of that time.
Chunk(c, n, seen) ==
  IF c.service = "master" THEN MasterChunk(c, n, seen)
  ELSE Taken([c EXCEPT !.got = n,
                !.clear = @ /\ \A h \in (c.got + 1)..n : ClientKey(c, h) = c.key])

MayWrite(c) ==
  /\ Len(c.sent) < MaxFrames[c.service] /\ c.open /\ ~c.ended
  /\ Crypts(c.sent, Len(c.sent)) = c.key

-----------------------------------------------------------------------------
(* Properties of a connection *)

\* The answers that frames ask for: each one up to the frame that ends the
\* connection has its own, and chat welcomes when it first has NICK and USER.
Ending == {"bad", "stale", "logout", "QUIT"}
Asking == {"list", "bare", "search", "login", "stale", "ka", "CRYPT", "ask"}
WelcomeAt(fs, i) ==
  /\ fs[i] \in {"NICK", "USER"} /\ \A j \in 1..(i - 1) : fs[j] # fs[i]
  /\ \E j \in 1..(i - 1) : {fs[i], fs[j]} = {"NICK", "USER"}
AnswerTo(fs, i) ==
  IF \E j \in 1..(i - 1) : fs[j] \in Ending THEN "none"
  ELSE CASE fs[i] \in Asking -> fs[i]
         [] WelcomeAt(fs, i) -> "welcome"
         [] OTHER            -> "none"

\* The answers to the first n frames of fs.
Expected(fs, n) ==
  LET upTo[i \in 0..n] ==
        IF i = 0 THEN <<>>
        ELSE IF AnswerTo(fs, i) = "none" THEN upTo[i - 1]
        ELSE Append(upTo[i - 1], AnswerTo(fs, i))
  IN upTo[n]

=============================================================================
