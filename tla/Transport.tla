----------------------------- MODULE Transport -----------------------------
(***************************************************************************)
(* One connection to the FESL port of the game, from the bytes of the      *)
(* socket to the packets of the handlers and back: the choice between      *)
(* SSL 2.0 and plain TCP by the first chunk, the SSL 2.0 handshake and its *)
(* records, the framing of packets, and the ways a connection ends.        *)
(*                                                                         *)
(* A packet is a sequence of units, the first two of which are its header. *)
(* An SSL record is two units of header and its body.  TCP cuts what one   *)
(* side writes into chunks anywhere between two units.  Keys, MACs and RC4 *)
(* are what their agreement depends on: a record carries the direction of  *)
(* its key, its sequence number and the position of the cipher, and the    *)
(* receiver can read it when these are its own.  The client is a correct   *)
(* one, as in ssl2-e2e.test.ts, whose last packet may announce a length    *)
(* that is out of range.                                                   *)
(***************************************************************************)
EXTENDS Naturals, Sequences

CONSTANTS
  Packets, Replies,  \* number of packets sent by the client and by the server
  BodyUnits,         \* units of a packet after its header
  MaxRecord,         \* units of the largest record written (16384 bytes)
  WholeHello         \* whether the first chunk reaches the type of CLIENT_HELLO

ASSUME TransportAssumption ==
  /\ {Packets, Replies, BodyUnits} \subseteq Nat
  /\ MaxRecord \in Nat \ {0}
  /\ WholeHello \in BOOLEAN

VARIABLES
  client,    \* the client's side of the connection
  sent,      \* units of its packets that the client has written
  malformed, \* whether its last packet announces an invalid length
  up, held,  \* records not yet handled, and how many of their units arrived
  srv,       \* the server's socket and its FeslConnection
  handled,   \* the packets emitted to the handlers
  answered,  \* number of packets the server has sent
  down,      \* records on their way to the client
  received   \* units the client has read

vars == <<client, sent, malformed, up, held, srv, handled, answered, down, received>>

HeaderUnits == 2
PacketUnits == HeaderUnits + BodyUnits
\* The units of packet i of one side, and the n units after the first m units
\* of all its packets.
PacketOf(i) == [u \in 1..PacketUnits |-> <<i, u>>]
Slice(m, n) == [u \in 1..n |-> <<((m + u - 1) \div PacketUnits) + 1,
                                 ((m + u - 1) % PacketUnits) + 1>>]
\* What the client sends: a malformed packet is a header alone.
Total == Packets * PacketUnits - IF malformed THEN BodyUnits ELSE 0

\* A record; key is "none" for one in clear, and for the pieces of plain TCP.
Record(type, body, key, seq, pos) ==
  [type |-> type, body |-> body, key |-> key, seq |-> seq, pos |-> pos]
Clear(type) == Record(type, <<>>, "none", 0, 0)

\* The length of a record on the wire: a handshake record has a type and more.
Units(r) == CASE r.type = "plain" -> Len(r.body)
              [] r.type = "application" -> 2 + Len(r.body)
              [] OTHER -> 4

\* The cipher advances by the MAC and the body.
Advance(pos, body) == pos + 1 + Len(body)

Init ==
  /\ client \in [kind: {"ssl2", "plain"}, stage: {"connected"},
                 readSeq: {1}, writeSeq: {2}, readPos: {0}, writePos: {0}]
  /\ malformed \in {FALSE, Packets > 0}
  /\ srv = [mode |-> "detect", state |-> "WAIT_CLIENT_HELLO", readSeq |-> 0, writeSeq |-> 0,
            readPos |-> 0, writePos |-> 0, buffer |-> <<>>, closed |-> FALSE, fin |-> FALSE]
  /\ sent = 0 /\ up = <<>> /\ held = 0 /\ handled = <<>>
  /\ answered = 0 /\ down = <<>> /\ received = <<>>

-----------------------------------------------------------------------------
(* The server: SSL 2.0 *)

\* The state of the socket while it handles one chunk: srv, what it writes and
\* what it pushes to its reader.
Working == [srv |-> srv, out |-> <<>>, pushed |-> <<>>]

\* An error: the raw socket is destroyed.
Fail(w) == [w EXCEPT !.srv.mode = "dead", !.srv.closed = TRUE, !.srv.buffer = <<>>]

\* Mutant: the number of the record is not counted.
WriteUncounted(w, type, body) ==
  [w EXCEPT !.srv.writePos = Advance(@, body),
            !.out = Append(@, Record(type, body, "s2c", w.srv.writeSeq, w.srv.writePos))]

\* One encrypted record with its MAC.
WriteRecord(w, type, body) ==
  [w EXCEPT !.srv.writeSeq = @ + 1, !.srv.writePos = Advance(@, body),
            !.out = Append(@, Record(type, body, "s2c", w.srv.writeSeq, w.srv.writePos))]

\* Decryption: the MAC verifies, and the key, number and position move on.
Verifies(w, r) == r.key = "c2s" /\ r.seq = w.srv.readSeq /\ r.pos = w.srv.readPos
Decrypted(w, r) ==
  [w EXCEPT !.srv.readSeq = @ + 1, !.srv.readPos = Advance(@, r.body)]

HandleClientHello(w, r) ==
  IF r.type # "CLIENT_HELLO" THEN Fail(w)
  ELSE [w EXCEPT !.srv.state = "WAIT_CLIENT_MASTER_KEY", !.out = Append(@, Clear("SERVER_HELLO"))]

\* Records are counted from the start of the connection: SERVER_VERIFY is the
\* server's record 1, and CLIENT_FINISHED will be the client's record 2.
HandleClientMasterKey(w, r) ==
  IF r.type # "CLIENT_MASTER_KEY" THEN Fail(w)
  ELSE WriteRecord([w EXCEPT !.srv.state = "WAIT_CLIENT_FINISHED",
                             !.srv.writeSeq = 1, !.srv.readSeq = 2,
                             !.srv.writePos = 0, !.srv.readPos = 0], "SERVER_VERIFY", <<>>)

HandleClientFinished(w, r) ==
  IF r.type # "CLIENT_FINISHED" \/ ~Verifies(w, r) THEN Fail(w)
  ELSE WriteRecord([Decrypted(w, r) EXCEPT !.srv.state = "ESTABLISHED"], "SERVER_FINISHED", <<>>)

HandleApplicationRecord(w, r) ==
  IF ~Verifies(w, r) THEN Fail(w)
  ELSE [Decrypted(w, r) EXCEPT !.pushed = @ \o r.body]

HandleRecord(w, r) ==
  IF w.srv.mode = "dead" THEN w
  ELSE IF w.srv.mode # "ssl2" THEN [w EXCEPT !.pushed = @ \o r.body]
  ELSE CASE w.srv.state = "WAIT_CLIENT_HELLO"      -> HandleClientHello(w, r)
         [] w.srv.state = "WAIT_CLIENT_MASTER_KEY" -> HandleClientMasterKey(w, r)
         [] w.srv.state = "WAIT_CLIENT_FINISHED"   -> HandleClientFinished(w, r)
         [] w.srv.state = "ESTABLISHED"            -> HandleApplicationRecord(w, r)

\* The loop of processIncomingBuffer over the first k records of rs.
ReadRecords(w, rs, k) ==
  LET after[i \in 0..k] == IF i = 0 THEN w ELSE HandleRecord(after[i - 1], rs[i])
  IN after[k]

\* The units of the first k records of rs, and whether these are the records
\* that are whole in the first n units.
Extent(rs, k) ==
  LET upTo[i \in 0..k] == IF i = 0 THEN 0 ELSE upTo[i - 1] + Units(rs[i])
  IN upTo[k]
Whole(rs, k, n) == Extent(rs, k) <= n /\ (k < Len(rs) => n < Extent(rs, k + 1))

-----------------------------------------------------------------------------
(* The server: packets *)

\* The packet whose header is at the start of the buffer.  A header that is not
\* one, read after the buffer was reset in the middle of a packet, announces
\* anything: `junk` says whether it is out of range or more than will come.
HeaderAt(b) == b[1][2] = 1 /\ b[2] = <<b[1][1], 2>>
Announced(b) == IF HeaderAt(b) THEN PacketUnits ELSE Len(b) + 1
Invalid(b, junk) == IF HeaderAt(b) THEN malformed /\ b[1][1] = Packets ELSE junk = "reset"

\* A turn of the loop of processIncomingChunk: of what was in the buffer, the
\* packets that were read and what is left, and whether the connection is closed.
Framed(f, junk) ==
  LET b == f.buffer IN
  IF Len(b) < HeaderUnits THEN f
  ELSE IF Invalid(b, junk) THEN [f EXCEPT !.buffer = <<>>, !.close = TRUE]
  ELSE IF Len(b) < Announced(b) THEN f
  ELSE [f EXCEPT !.packets = Append(@, SubSeq(b, 1, Announced(b))),
                 !.buffer = SubSeq(b, Announced(b) + 1, Len(b))]

Unframed(b) == [packets |-> <<>>, buffer |-> b, close |-> FALSE]

\* Mutant: one packet is read per chunk.
FirstPacket(b, junk) == Framed(Unframed(b), junk)

\* Mutant: the packet handled stays at the start of the buffer.
KeepPacket(b, junk) ==
  LET f == FirstPacket(b, junk) IN IF f.packets = <<>> THEN f ELSE [f EXCEPT !.buffer = b]

\* The loop: every turn but the last takes a header at least.
Frames(b, junk) ==
  LET n == Len(b) \div HeaderUnits
      after[i \in 0..n] == IF i = 0 THEN Unframed(b) ELSE Framed(after[i - 1], junk)
  IN after[n]

\* FeslConnection.close: end() reaches a plain socket; that of the SSL wrapper
\* ends the wrapper and leaves the raw socket as it is.
Close(s) == IF s.closed THEN s
            ELSE [s EXCEPT !.closed = TRUE, !.buffer = <<>>, !.fin = (s.mode = "plain")]

InFlight == Extent(up, Len(up)) - held

\* Mutant: the whole CLIENT_HELLO has to be in the first chunk.
DetectedWhole(n) == IF client.kind = "ssl2" /\ n >= 4 THEN "ssl2" ELSE "plain"

\* The first chunk decides: a header with its top bit set, and the type of a
\* CLIENT_HELLO in the third byte.
Detected(n) == IF client.kind = "ssl2" /\ n >= 3 THEN "ssl2" ELSE "plain"

\* An SSL client taken for a plain one: its hello reads as the header of a
\* packet of 4097 bytes, which never come.
Misread == srv.mode = "plain" /\ client.kind = "ssl2"

Chunk(n, junk) ==
  /\ srv.mode # "dead"
  /\ (srv.mode = "detect" /\ client.kind = "ssl2" /\ WholeHello) => n >= 3
  /\ \E k \in 0..Len(up) :
       /\ Whole(up, k, held + n)
       /\ up' = SubSeq(up, k + 1, Len(up)) /\ held' = held + n - Extent(up, k)
       /\ LET mode == IF srv.mode = "detect" THEN Detected(n) ELSE srv.mode
              read == ReadRecords([Working EXCEPT !.srv.mode = mode], up, k)
              pushed == IF mode = "plain" /\ client.kind = "ssl2" THEN <<>> ELSE read.pushed
              f == Frames(read.srv.buffer \o pushed, junk)
              framed == [read.srv EXCEPT !.buffer = f.buffer]
          IN /\ down' = down \o read.out
             /\ handled' = handled \o f.packets
             /\ srv' = IF f.close THEN Close(framed) ELSE framed
  /\ UNCHANGED <<client, sent, malformed, answered, received>>

-----------------------------------------------------------------------------
(* The server: answers and the end of the connection *)

Established == \/ srv.mode = "plain" /\ ~Misread
               \/ srv.mode = "ssl2" /\ srv.state = "ESTABLISHED"

\* Mutant: what does not fill a record is not written.
WholePieces(p) ==
  [k \in 1..(Len(p) \div MaxRecord) |-> SubSeq(p, (k - 1) * MaxRecord + 1, k * MaxRecord)]

\* The pieces in which a payload is written.
Pieces(p) ==
  [k \in 1..((Len(p) + MaxRecord - 1) \div MaxRecord) |->
     SubSeq(p, (k - 1) * MaxRecord + 1,
            IF k * MaxRecord < Len(p) THEN k * MaxRecord ELSE Len(p))]

WriteRecords(w, pieces) ==
  LET after[i \in 0..Len(pieces)] ==
        IF i = 0 THEN w ELSE WriteRecord(after[i - 1], "application", pieces[i])
  IN after[Len(pieces)]

\* sendPacket: a write is cut into records.
SendPacket ==
  /\ Established /\ ~srv.closed /\ answered < Replies
  /\ answered' = answered + 1
  /\ LET p == PacketOf(answered + 1)
         w == WriteRecords(Working, Pieces(p))
     IN IF srv.mode = "ssl2" THEN srv' = w.srv /\ down' = down \o w.out
        ELSE srv' = srv /\ down' = Append(down, Record("plain", p, "none", 0, 0))
  /\ UNCHANGED <<client, sent, malformed, up, held, handled, received>>

\* The activity monitor, a handler or the shutdown closes the connection.
ServerClose ==
  /\ srv.mode = "plain" \/ Established
  /\ ~srv.closed
  /\ srv' = Close(srv)
  /\ UNCHANGED <<client, sent, malformed, up, held, handled, answered, down, received>>

\* 'close' or 'error' of the raw socket.
RawClosed ==
  /\ client.stage = "gone" /\ srv.mode # "dead"
  /\ srv' = [srv EXCEPT !.mode = "dead", !.closed = TRUE, !.buffer = <<>>]
  /\ UNCHANGED <<client, sent, malformed, up, held, handled, answered, down, received>>

-----------------------------------------------------------------------------
(* The client *)

ClientSays(stage, r) ==
  /\ client' = [client EXCEPT !.stage = stage,
                  !.writeSeq = IF r.key = "c2s" THEN @ + 1 ELSE @,
                  !.writePos = IF r.key = "c2s" THEN Advance(@, r.body) ELSE @]
  /\ up' = Append(up, r)

Encrypted(type, body) == Record(type, body, "c2s", client.writeSeq, client.writePos)

ClientStart ==
  /\ client.stage = "connected"
  /\ IF client.kind = "ssl2" THEN ClientSays("wait SERVER_HELLO", Clear("CLIENT_HELLO"))
     ELSE client' = [client EXCEPT !.stage = "open"] /\ up' = up
  /\ UNCHANGED <<sent, malformed, held, srv, handled, answered, down, received>>

\* The client writes some more of its packets.
ClientWrite ==
  /\ client.stage = "open" /\ sent < Total
  /\ \E n \in 1..MaxRecord :
       /\ sent + n <= Total
       /\ LET body == Slice(sent, n) IN
          ClientSays("open", IF client.kind = "ssl2" THEN Encrypted("application", body)
                             ELSE Record("plain", body, "none", 0, 0))
       /\ sent' = sent + n
  /\ UNCHANGED <<malformed, held, srv, handled, answered, down, received>>

CanRead(r) == \/ r.key = "none"
              \/ r.key = "s2c" /\ r.seq = client.readSeq /\ r.pos = client.readPos

AfterReading(r) == [client EXCEPT !.readSeq = IF r.key = "s2c" THEN @ + 1 ELSE @,
                                  !.readPos = IF r.key = "s2c" THEN Advance(@, r.body) ELSE @]

\* The client reads a record, and goes on with the handshake.
ClientRead ==
  /\ client.stage # "gone" /\ down # <<>>
  /\ down' = Tail(down)
  /\ LET r == Head(down) IN
     IF ~CanRead(r) THEN /\ client' = [client EXCEPT !.stage = "gone"]
                         /\ UNCHANGED <<up, received>>
     ELSE /\ received' = received \o r.body
          /\ CASE r.type = "SERVER_HELLO" ->
                    /\ client' = [client EXCEPT !.stage = "wait SERVER_VERIFY"]
                    /\ up' = Append(up, Clear("CLIENT_MASTER_KEY"))
               [] r.type = "SERVER_VERIFY" ->
                    /\ client' = [AfterReading(r) EXCEPT !.stage = "wait SERVER_FINISHED",
                                    !.writeSeq = @ + 1, !.writePos = Advance(@, <<>>)]
                    /\ up' = Append(up, Encrypted("CLIENT_FINISHED", <<>>))
               [] r.type = "SERVER_FINISHED" ->
                    /\ client' = [AfterReading(r) EXCEPT !.stage = "open"]
                    /\ up' = up
               [] OTHER -> client' = AfterReading(r) /\ up' = up
  /\ UNCHANGED <<sent, malformed, held, srv, handled, answered>>

\* The client refuses the server's certificate.
ClientRefuses ==
  /\ client.stage = "wait SERVER_VERIFY" /\ down # <<>>
  /\ ClientSays("gone", Clear("ERROR"))
  /\ UNCHANGED <<sent, malformed, held, srv, handled, answered, down, received>>

\* The server's end of the stream, or a lost connection.
ClientSeesEnd ==
  /\ client.stage # "gone"
  /\ srv.fin \/ srv.mode = "dead"
  /\ client' = [client EXCEPT !.stage = "gone"]
  /\ UNCHANGED <<sent, malformed, up, held, srv, handled, answered, down, received>>

ClientLeaves ==
  /\ client.stage \notin {"connected", "gone"}
  /\ client' = [client EXCEPT !.stage = "gone"]
  /\ UNCHANGED <<sent, malformed, up, held, srv, handled, answered, down, received>>

Arrives == \E n \in 1..InFlight, junk \in {"reset", "waits"} : Chunk(n, junk)

Next ==
  \/ Arrives \/ SendPacket \/ ServerClose \/ RawClosed
  \/ ClientStart \/ ClientWrite \/ ClientRead \/ ClientRefuses
  \/ ClientSeesEnd \/ ClientLeaves

\* The network delivers, and the client does what its protocol asks of it.
Fairness == /\ WF_vars(Arrives) /\ WF_vars(RawClosed)
            /\ WF_vars(ClientStart) /\ WF_vars(ClientRead) /\ WF_vars(ClientSeesEnd)

Spec == Init /\ [][Next]_vars /\ Fairness

-----------------------------------------------------------------------------
(* Properties *)

Stage == {"connected", "wait SERVER_HELLO", "wait SERVER_VERIFY", "wait SERVER_FINISHED",
          "open", "gone"}

\* The connection's types; what is held is less than the next record.
TypeOK ==
  /\ client.stage \in Stage /\ sent \in 0..Total
  /\ srv.mode \in {"detect", "plain", "ssl2", "dead"}
  /\ held \in Nat /\ (up # <<>> => held < Units(up[1]))
  /\ answered \in 0..Replies

\* The number of a packet that was put together right.
NumberOf(p) == IF p = PacketOf(p[1][1]) THEN p[1][1] ELSE 0
Numbers(packets) == [k \in DOMAIN packets |-> NumberOf(packets[k])]
AskedPackets == sent \div PacketUnits
ReceivedPackets ==
  [k \in 1..Len(received) \div PacketUnits |->
     SubSeq(received, (k - 1) * PacketUnits + 1, k * PacketUnits)]

\* Cut into records and chunks, encrypted and put together again, the packets
\* of each side reach the other whole, once and in order.
Link == INSTANCE PacketLink WITH
          asked <- AskedPackets, handled <- Numbers(handled),
          received <- Numbers(ReceivedPackets), ended <- srv.closed
LinkSpec == Link!Spec

\* With a correct client no MAC ever fails: both ends agree on the number and
\* the cipher position of every record, through the handshake and after, with
\* records of any size written by either side.  So a connection ends only
\* because one of the sides ends it.
MacsVerify ==
  (srv.mode = "ssl2" /\ srv.state = "ESTABLISHED") =>
    /\ \A i \in DOMAIN up : up[i].key = "c2s" /\ up[i].seq = srv.readSeq + i - 1
    /\ up # <<>> => up[1].pos = srv.readPos
    /\ client.stage # "gone" =>
         /\ srv.writeSeq = client.readSeq + Len(down)
         /\ down # <<>> => CanRead(down[1])

\* However TCP cuts the stream, a client's handshake comes to its end: the
\* connection is open, unless the client leaves it.
HandshakeEnds ==
  client.stage = "wait SERVER_HELLO" ~> client.stage \in {"open", "gone"}

\* What the client has sent on a connection nobody ends reaches the handlers:
\* nothing stays in a buffer.
AskedIsHandled ==
  \A i \in 1..Packets :
    AskedPackets >= i ~> Len(handled) >= i \/ srv.closed \/ client.stage = "gone"

\* "Closes the underlying socket gracefully.": a connection that the server
\* closes comes to its end for the client too.
CloseEnds == srv.closed ~> client.stage = "gone"

=============================================================================
