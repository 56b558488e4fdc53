-------------------------- MODULE TransportProofs --------------------------
(***************************************************************************)
(* A connection keeps its types, no MAC ever fails, and the packets of     *)
(* both sides arrive as PacketLink promises: for packets and records of    *)
(* any size, however TCP cuts the stream and however the connection ends.  *)
(*                                                                         *)
(* Each direction of the connection is one stream of units.  The records   *)
(* on their way carry a part of it, each from where the one before ends,   *)
(* with the numbers and cipher positions that belong there; behind it is   *)
(* what the reader's buffer holds, and behind that are the packets that    *)
(* were handed on.  The invariant says this of both directions, together   *)
(* with how far the handshake has come on the two sides.                   *)
(***************************************************************************)
EXTENDS Transport, MapLemmas, SequenceTheorems

-----------------------------------------------------------------------------
(* Slices of the stream of one side *)

Unit == Nat \X Nat

\* A packet has its header at least.
LEMMA PacketUnitsType == PacketUnits \in Nat /\ PacketUnits >= 2
BY TransportAssumption DEF PacketUnits, HeaderUnits

\* A sequence is the function of its elements.
LEMMA SeqIs ==
  ASSUME NEW T, NEW s \in Seq(T)
  PROVE  s = [x \in DOMAIN s |-> s[x]]
OBVIOUS

\* The units of a slice.
LEMMA SliceType ==
  ASSUME NEW m \in Nat, NEW n \in Nat
  PROVE  /\ Slice(m, n) \in Seq(Unit) /\ Len(Slice(m, n)) = n /\ DOMAIN Slice(m, n) = 1..n
         /\ \A u \in 1..n : Slice(m, n)[u] = <<((m + u - 1) \div PacketUnits) + 1,
                                               ((m + u - 1) % PacketUnits) + 1>>
<1>1. PacketUnits \in Nat /\ PacketUnits > 0
  BY PacketUnitsType
<1>2. ASSUME NEW u \in 1..n
      PROVE  /\ ((m + u - 1) \div PacketUnits) + 1 \in Nat
             /\ ((m + u - 1) % PacketUnits) + 1 \in Nat
  BY <1>1
<1> DEFINE F(u) == <<((m + u - 1) \div PacketUnits) + 1, ((m + u - 1) % PacketUnits) + 1>>
<1>3. \A u \in 1..n : F(u) \in Unit
  BY <1>2 DEF Unit
<1>4. Slice(m, n) = [u \in 1..n |-> F(u)]
  BY DEF Slice
<1>5. \A u \in 1..n : Slice(m, n)[u] = F(u)
  BY <1>4
<1> HIDE DEF F
<1>6. [u \in 1..n |-> F(u)] \in [1..n -> Unit]
  BY <1>3
<1>7. Slice(m, n) \in Seq(Unit) /\ Len(Slice(m, n)) = n /\ DOMAIN Slice(m, n) = 1..n
  BY <1>4, <1>6
<1> QED
  BY <1>5, <1>7 DEF F

\* A sequence of n units is a slice when its units are.
LEMMA IsSlice ==
  ASSUME NEW m \in Nat, NEW n \in Nat, NEW s \in Seq(Unit), Len(s) = n,
         \A u \in 1..n : s[u] = <<((m + u - 1) \div PacketUnits) + 1,
                                  ((m + u - 1) % PacketUnits) + 1>>
  PROVE  s = Slice(m, n)
<1>1. Slice(m, n) \in Seq(Unit) /\ Len(Slice(m, n)) = n
      /\ \A u \in 1..n : Slice(m, n)[u] = s[u]
  BY SliceType, Zenon
<1> HIDE DEF Slice
<1> QED
  BY <1>1, SeqEqual

\* The parts of a concatenation.
LEMMA Joined ==
  ASSUME NEW T, NEW a \in Seq(T), NEW b \in Seq(T)
  PROVE  /\ a \o b \in Seq(T) /\ Len(a \o b) = Len(a) + Len(b)
         /\ \A u \in 1..Len(a) : (a \o b)[u] = a[u]
         /\ \A u \in 1..(Len(a) + Len(b)) : u > Len(a) => (a \o b)[u] = b[u - Len(a)]
OBVIOUS

\* Two slices that follow on from each other are one.
LEMMA SliceJoin ==
  ASSUME NEW m \in Nat, NEW n \in Nat, NEW k \in Nat
  PROVE  Slice(m, n) \o Slice(m + n, k) = Slice(m, n + k)
<1> DEFINE a == Slice(m, n)
           b == Slice(m + n, k)
           s == a \o b
<1>1. m + n \in Nat /\ n + k \in Nat
  OBVIOUS
<1>2. a \in Seq(Unit) /\ Len(a) = n
      /\ \A u \in 1..n : a[u] = <<((m + u - 1) \div PacketUnits) + 1,
                                  ((m + u - 1) % PacketUnits) + 1>>
  BY SliceType, Zenon
<1>3. b \in Seq(Unit) /\ Len(b) = k
      /\ \A u \in 1..k : b[u] = <<((m + n + u - 1) \div PacketUnits) + 1,
                                  ((m + n + u - 1) % PacketUnits) + 1>>
  BY <1>1, SliceType, Zenon
<1> HIDE DEF a, b
<1>4. /\ s \in Seq(Unit) /\ Len(s) = n + k
      /\ \A u \in 1..n : s[u] = a[u]
      /\ \A u \in 1..(n + k) : u > n => s[u] = b[u - n]
  <2>1. /\ s \in Seq(Unit) /\ Len(s) = Len(a) + Len(b)
        /\ \A u \in 1..Len(a) : s[u] = a[u]
        /\ \A u \in 1..(Len(a) + Len(b)) : u > Len(a) => s[u] = b[u - Len(a)]
    BY <1>2, <1>3, Joined, Zenon DEF s
  <2> HIDE DEF s
  <2> QED
    BY ONLY <1>2, <1>3, <2>1
<1> HIDE DEF s
<1>5. ASSUME NEW u \in 1..(n + k)
      PROVE  s[u] = <<((m + u - 1) \div PacketUnits) + 1,
                      ((m + u - 1) % PacketUnits) + 1>>
  <2>1. CASE u \in 1..n
    BY <1>2, <1>4, <2>1
  <2>2. CASE u \notin 1..n
    <3>1. u - n \in 1..k /\ m + n + (u - n) - 1 = m + u - 1
      BY <2>2
    <3>2. s[u] = b[u - n]
      BY <1>4, <2>2
    <3>3. b[u - n] = <<((m + n + (u - n) - 1) \div PacketUnits) + 1,
                       ((m + n + (u - n) - 1) % PacketUnits) + 1>>
      BY ONLY <1>3, <3>1
    <3> QED
      BY ONLY <3>1, <3>2, <3>3
  <2> QED
    BY <2>1, <2>2
<1> QED
  BY <1>1, <1>4, <1>5, IsSlice DEF s, a, b

\* A part of a slice is a slice.
Parted(m, n, x, l) == SubSeq(Slice(m, n), x, l) = Slice(m + (x - 1), l - (x - 1))

\* Every part of a slice is one, its first units and the rest of them.
LEMMA SlicePart ==
  ASSUME NEW m \in Nat, NEW n \in Nat, NEW x \in Nat \ {0}, NEW l \in Nat, x <= l + 1, l <= n
  PROVE  Parted(m, n, x, l)
<1> DEFINE a == Slice(m, n)
           s == SubSeq(a, x, l)
           k == x - 1
<1>0. k \in Nat /\ x = k + 1 /\ k <= l
  OBVIOUS
<1> HIDE DEF k
<1>1. m + k \in Nat /\ l - k \in Nat
  BY <1>0
<1>2. a \in Seq(Unit) /\ Len(a) = n
      /\ \A u \in 1..n : a[u] = <<((m + u - 1) \div PacketUnits) + 1,
                                  ((m + u - 1) % PacketUnits) + 1>>
  BY SliceType, Zenon
<1> HIDE DEF a
<1>3. s \in Seq(Unit) /\ Len(s) = l - k
      /\ \A u \in 1..(l - k) : k + u \in 1..n /\ s[u] = a[k + u] /\ m + (k + u) - 1 = m + k + u - 1
  BY <1>0, <1>2
<1> HIDE DEF s
<1>4. ASSUME NEW u \in 1..(l - k)
      PROVE  s[u] = <<((m + k + u - 1) \div PacketUnits) + 1,
                      ((m + k + u - 1) % PacketUnits) + 1>>
  <2>1. a[k + u] = <<((m + (k + u) - 1) \div PacketUnits) + 1,
                     ((m + (k + u) - 1) % PacketUnits) + 1>>
    BY ONLY <1>2, <1>3
  <2> QED
    BY ONLY <1>3, <2>1
<1> QED
  BY <1>1, <1>3, <1>4, IsSlice DEF Parted, s, a, k

\* The first k units of a slice.
LEMMA SliceFirst ==
  ASSUME NEW m \in Nat, NEW n \in Nat, NEW k \in Nat, k <= n
  PROVE  SubSeq(Slice(m, n), 1, k) = Slice(m, k)
<1> DEFINE x == 1
<1>1. x \in Nat \ {0} /\ x <= k + 1
  OBVIOUS
<1>2. m + (x - 1) = m /\ k - (x - 1) = k
  OBVIOUS
<1> HIDE DEF x
<1>3. Parted(m, n, x, k)
  BY <1>1, SlicePart
<1> QED
  BY <1>2, <1>3 DEF Parted, x

\* What is left of a slice after its first k units.
LEMMA SliceRest ==
  ASSUME NEW m \in Nat, NEW n \in Nat, NEW k \in Nat, k <= n
  PROVE  SubSeq(Slice(m, n), k + 1, n) = Slice(m + k, n - k)
<1> DEFINE x == k + 1
<1>1. x \in Nat \ {0} /\ x <= n + 1 /\ n <= n
  OBVIOUS
<1>2. x - 1 = k
  OBVIOUS
<1> HIDE DEF x
<1>3. Parted(m, n, x, n)
  BY <1>1, SlicePart
<1> QED
  BY <1>2, <1>3 DEF Parted, x

\* The slice of one packet's units.
LEMMA SlicePacket ==
  ASSUME NEW i \in Nat \ {0}, NEW m \in Nat, m = (i - 1) * PacketUnits
  PROVE  /\ Slice(m, PacketUnits) = PacketOf(i)
         /\ PacketOf(i) \in Seq(Unit) /\ Len(PacketOf(i)) = PacketUnits
<1>1. PacketUnits \in Nat /\ PacketUnits >= 2
  BY PacketUnitsType
<1>2. PacketOf(i) \in Seq(Unit) /\ Len(PacketOf(i)) = PacketUnits
      /\ \A u \in 1..PacketUnits : PacketOf(i)[u] = <<i, u>>
  BY <1>1 DEF PacketOf, Unit
<1>3. ASSUME NEW u \in 1..PacketUnits
      PROVE  /\ ((m + u - 1) \div PacketUnits) + 1 = i
             /\ ((m + u - 1) % PacketUnits) + 1 = u
  <2>1. i - 1 \in Nat /\ u - 1 \in 0..(PacketUnits - 1) /\ PacketUnits \in Nat \ {0}
    BY <1>1
  <2>2. ((i - 1) * PacketUnits + (u - 1)) \div PacketUnits = i - 1
        /\ ((i - 1) * PacketUnits + (u - 1)) % PacketUnits = u - 1
    BY ONLY <2>1, DivMod
  <2>3. m + u - 1 = (i - 1) * PacketUnits + (u - 1)
    BY <1>1
  <2> QED
    BY <2>2, <2>3, <2>1
<1>4. \A u \in 1..PacketUnits : PacketOf(i)[u] = <<((m + u - 1) \div PacketUnits) + 1,
                                                   ((m + u - 1) % PacketUnits) + 1>>
  BY <1>2, <1>3
<1> QED
  BY <1>1, <1>2, <1>4, IsSlice

\* A packet has its number.
LEMMA NumberIs ==
  ASSUME NEW i \in Nat
  PROVE  NumberOf(PacketOf(i)) = i
BY PacketUnitsType DEF NumberOf, PacketOf

-----------------------------------------------------------------------------
(* Packets *)

FrameType == [packets : Seq(Seq(Unit)), buffer : Seq(Unit), close : BOOLEAN]

\* f has read j packets from the n units after the first o.
Read(f, o, n, j) ==
  /\ f.packets = [x \in 1..j |-> PacketOf((o \div PacketUnits) + x)]
  /\ j # 0 => o % PacketUnits = 0
  /\ j * PacketUnits <= n
  /\ f.buffer = IF f.close THEN <<>> ELSE Slice(o + j * PacketUnits, n - j * PacketUnits)

\* What reads as a header in the stream of the client is at the start of a packet.
LEMMA HeaderIs ==
  ASSUME NEW m \in Nat, NEW n \in Nat, n >= 1, HeaderAt(Slice(m, n))
  PROVE  m % PacketUnits = 0
<1>1. Slice(m, n)[1] = <<((m + 1 - 1) \div PacketUnits) + 1, ((m + 1 - 1) % PacketUnits) + 1>>
  <2>1. 1 \in 1..n
    OBVIOUS
  <2> QED
    BY <2>1, SliceType, Zenon
<1>2. m + 1 - 1 = m
  OBVIOUS
<1>3. m % PacketUnits \in Nat
  BY PacketUnitsType
<1> HIDE DEF Slice
<1>4. (m % PacketUnits) + 1 = 1
  BY <1>1, <1>2 DEF HeaderAt
<1> QED
  BY <1>3, <1>4

\* Whole packets are read from a place where one begins.
LEMMA Multiples ==
  ASSUME NEW o \in Nat, NEW j \in Nat, NEW n \in Nat, j * PacketUnits <= n,
         j # 0 => o % PacketUnits = 0, (o + j * PacketUnits) % PacketUnits = 0
  PROVE  /\ o % PacketUnits = 0
         /\ o = (o \div PacketUnits) * PacketUnits
         /\ (o \div PacketUnits) \in Nat
         /\ o + j * PacketUnits = ((o \div PacketUnits) + j) * PacketUnits
<1> DEFINE P == PacketUnits
<1>1. P \in Nat \ {0}
  BY PacketUnitsType
<1> HIDE DEF P
<1>2. o % P = 0
  <2>1. CASE j = 0
    BY <1>1, <2>1 DEF P
  <2>2. CASE j # 0
    BY <2>2 DEF P
  <2> QED
    BY <2>1, <2>2
<1>3. o \div P \in Nat /\ o = ((o \div P) * P) + (o % P)
  BY <1>1, DivIs
<1> DEFINE q == o \div P
<1> HIDE DEF q
<1>4. q \in Nat /\ o = q * P
  BY <1>1, <1>2, <1>3 DEF q
<1>5. q * P + j * P = (q + j) * P
  BY <1>1, <1>4
<1> QED
  BY <1>2, <1>4, <1>5 DEF q, P

\* A turn of the framing loop reads one more packet, or none, and loses no unit
\* unless it closes the connection.
LEMMA FramedReads ==
  ASSUME NEW f \in FrameType, NEW o \in Nat, NEW n \in Nat, NEW j \in Nat, Read(f, o, n, j), NEW junk
  PROVE  /\ Framed(f, junk) \in FrameType
         /\ \E i \in Nat : Read(Framed(f, junk), o, n, i)
<1> DEFINE P == PacketUnits
           b == f.buffer
           m == o + j * P
           l == n - j * P
           q == o \div P
           a == Announced(b)
           g == [f EXCEPT !.packets = Append(@, SubSeq(b, 1, a)),
                          !.buffer = SubSeq(b, a + 1, Len(b))]
           h == [f EXCEPT !.buffer = <<>>, !.close = TRUE]
<1>1. P \in Nat /\ P >= 2 /\ j * P \in Nat
  BY PacketUnitsType
<1>2. \/ Framed(f, junk) = f
      \/ Framed(f, junk) = h
      \/ Framed(f, junk) = g /\ ~(Len(b) < HeaderUnits) /\ ~(Len(b) < a)
  BY Zenon DEF Framed
<1>3. CASE Framed(f, junk) = f
  BY <1>3
<1>4. CASE Framed(f, junk) = h
  <2>1. h \in FrameType /\ h.packets = f.packets /\ h.buffer = <<>> /\ h.close
    <3>1. <<>> \in Seq(Unit)
      OBVIOUS
    <3> QED
      BY <3>1 DEF FrameType
  <2> HIDE DEF h
  <2> QED
    BY <1>4, <2>1 DEF Read
<1>5. CASE Framed(f, junk) = g /\ ~(Len(b) < HeaderUnits) /\ ~(Len(b) < a)
  <2>1. b \in Seq(Unit) /\ Len(b) >= 2 /\ ~(Len(b) < a)
    BY <1>2, <1>5 DEF HeaderUnits, FrameType
  <2>2. HeaderAt(b) /\ a = P
    <3>1. Len(b) \in Nat
      BY <2>1
    <3> QED
      BY <2>1, <3>1 DEF Announced
  <2>3. ~f.close /\ b = Slice(m, l)
    <3>1. CASE f.close
      <4>1. b = <<>>
        BY <3>1 DEF Read
      <4> QED
        BY <2>1, <4>1
    <3> QED
      BY <3>1 DEF Read, FrameType
  <2>4. m \in Nat /\ l \in Nat
    BY <1>1 DEF Read
  <2> HIDE DEF m, l, b
  <2>5. Len(b) = l /\ P <= l
    <3>1. Len(Slice(m, l)) = l
      BY <2>4, SliceType, Zenon
    <3> QED
      BY <1>1, <2>1, <2>2, <2>3, <2>4, <3>1
  <2>6. m % P = 0
    <3>1. l >= 1 /\ HeaderAt(Slice(m, l))
      BY <1>1, <2>2, <2>3, <2>4, <2>5
    <3> QED
      BY <2>4, <3>1, HeaderIs
  <2>7. o % P = 0 /\ q \in Nat /\ m = (q + j) * P
    <3>1. (j # 0 => o % P = 0) /\ j * P <= n
      BY DEF Read
    <3>2. (o + j * P) % P = 0
      BY <2>6 DEF m
    <3> QED
      BY <3>1, <3>2, Multiples DEF m
  <2> HIDE DEF q, P, a
  <2>8. SubSeq(b, 1, a) = PacketOf(q + (j + 1))
    <3>1. SubSeq(b, 1, P) = Slice(m, P)
      BY <1>1, <2>3, <2>4, <2>5, SliceFirst
    <3>2. q + (j + 1) \in Nat \ {0} /\ (q + (j + 1)) - 1 = q + j
      BY <2>7
    <3>3. Slice(m, PacketUnits) = PacketOf(q + (j + 1))
      BY <2>4, <2>7, <3>2, SlicePacket, SMTT(30) DEF P
    <3> QED
      BY <2>2, <3>1, <3>3 DEF P
  <2>9. SubSeq(b, a + 1, Len(b)) = Slice(m + P, l - P) /\ m + P \in Nat /\ l - P \in Nat
    <3>1. P \in Nat /\ P <= l
      BY <1>1, <2>5
    <3>2. SubSeq(Slice(m, l), P + 1, l) = Slice(m + P, l - P)
      BY ONLY <2>4, <3>1, SliceRest, ZenonT(30)
    <3> QED
      BY <1>1, <2>2, <2>3, <2>4, <2>5, <3>2
  <2>10. (j + 1) * P = j * P + P
    BY <1>1
  <2>11. m + P = o + (j + 1) * P /\ l - P = n - (j + 1) * P /\ (j + 1) * P <= n
    BY <1>1, <2>4, <2>5, <2>10 DEF m, l
  <2>12. PacketOf(q + (j + 1)) \in Seq(Unit)
    <3>1. q + (j + 1) \in Nat \ {0}
      BY <2>7
    <3>2. ((q + (j + 1)) - 1) * PacketUnits \in Nat
      BY <1>1, <2>7 DEF P
    <3> QED
      BY <3>1, <3>2, SlicePacket
  <2>13. /\ g \in FrameType
         /\ g.packets = Append(f.packets, PacketOf(q + (j + 1)))
         /\ g.buffer = Slice(m + P, l - P) /\ g.close = f.close
    <3>1. Slice(m + P, l - P) \in Seq(Unit)
      BY <2>9, SliceType
    <3> DEFINE w == Append(f.packets, SubSeq(b, 1, a))
               e == [f EXCEPT !.packets = w]
    <3>4. w \in Seq(Seq(Unit)) /\ w = Append(f.packets, PacketOf(q + (j + 1)))
      <4>1. f.packets \in Seq(Seq(Unit))
        BY DEF FrameType
      <4> QED
        BY <2>8, <2>12, <4>1, AppendProperties
    <3>5. g = [e EXCEPT !.buffer = Slice(m + P, l - P)]
      BY <2>9 DEF FrameType
    <3> HIDE DEF w
    <3>2. /\ e \in FrameType /\ e.packets = Append(f.packets, PacketOf(q + (j + 1)))
          /\ e.close = f.close
      BY <3>4 DEF FrameType
    <3> HIDE DEF e, g
    <3> QED
      BY <3>1, <3>2, <3>5 DEF FrameType
  <2>14. g.packets = [x \in 1..(j + 1) |-> PacketOf(q + x)]
    <3>1. f.packets = [x \in 1..j |-> PacketOf(q + x)]
      BY DEF Read, q, P
    <3> HIDE DEF g
    <3>2. f.packets \in Seq(Seq(Unit))
      BY DEF FrameType
    <3>3. Len(f.packets) = j
      BY <3>1, <3>2
    <3>4. DOMAIN g.packets = 1..(j + 1) /\ g.packets \in Seq(Seq(Unit))
      BY <2>12, <2>13, <3>2, <3>3
    <3>5. ASSUME NEW x \in 1..(j + 1)
          PROVE  g.packets[x] = PacketOf(q + x)
      <4>1. CASE x = j + 1
        BY <2>12, <2>13, <3>2, <3>3, <4>1
      <4>2. CASE x # j + 1
        <5>1. x \in 1..j
          BY <4>2
        <5>2. g.packets[x] = f.packets[x]
          BY <2>12, <2>13, <3>2, <3>3, <5>1
        <5> QED
          BY <3>1, <5>1, <5>2
      <4> QED
        BY <4>1, <4>2
    <3>6. g.packets = [x \in 1..(j + 1) |-> g.packets[x]]
      BY <3>4, SeqIs, Zenon
    <3> QED
      BY <3>5, <3>6
  <2> HIDE DEF g
  <2>15. Read(g, o, n, j + 1)
    BY <2>3, <2>7, <2>11, <2>13, <2>14 DEF Read, q, P
  <2> QED
    BY <1>5, <2>13, <2>15
<1> QED
  BY <1>2, <1>3, <1>4, <1>5

\* So does the whole loop: from a slice of the stream it reads whole packets, in
\* their order, and leaves the rest.
LEMMA FramesRead ==
  ASSUME NEW o \in Nat, NEW m \in Nat, NEW junk
  PROVE  /\ Frames(Slice(o, m), junk) \in FrameType
         /\ \E j \in Nat : Read(Frames(Slice(o, m), junk), o, m, j)
<1> DEFINE b == Slice(o, m)
           n == Len(b) \div HeaderUnits
           S == {f \in FrameType : \E j \in Nat : Read(f, o, m, j)}
           G == [k \in 1..n |-> [f \in S |-> Framed(f, junk)]]
           Turns(g) == g = [k \in 0..n |-> IF k = 0 THEN Unframed(b) ELSE Framed(g[k - 1], junk)]
<1>1. b \in Seq(Unit) /\ Len(b) = m
  BY SliceType, Zenon
<1>2. n \in Nat
  <2> HIDE DEF b
  <2> QED
    BY <1>1 DEF HeaderUnits
<1>3. Unframed(b) \in S
  <2>1. Unframed(b) \in FrameType
    <3> HIDE DEF b
    <3>1. <<>> \in Seq(Seq(Unit))
      OBVIOUS
    <3> QED
      BY <1>1, <3>1 DEF Unframed, FrameType
  <2>2. Read(Unframed(b), o, m, 0)
    <3>1. 0 * PacketUnits = 0 /\ o + 0 = o /\ m - 0 = m /\ 0 <= m
      BY PacketUnitsType
    <3>2. [x \in 1..0 |-> PacketOf((o \div PacketUnits) + x)] = <<>>
      OBVIOUS
    <3> HIDE DEF b
    <3>3. /\ Unframed(b).packets = <<>> /\ Unframed(b).close = FALSE
          /\ Unframed(b).buffer = b
      BY DEF Unframed
    <3> QED
      BY <3>1, <3>2, <3>3 DEF Read, b
  <2> QED
    BY <2>1, <2>2
<1>4. ASSUME NEW f \in S
      PROVE  Framed(f, junk) \in S
  BY FramedReads
<1> HIDE DEF S, n, b
<1>5. G \in [1..n -> [S -> S]]
  BY <1>4
<1>6. PICK g \in [0..n -> S] : Iterates(g, n, Unframed(b), G)
  <2> HIDE DEF G
  <2> QED
    BY <1>2, <1>3, <1>5, Recursion
<1>7. ASSUME NEW k \in 0..n
      PROVE  g[k] = IF k = 0 THEN Unframed(b) ELSE Framed(g[k - 1], junk)
  <2>1. CASE k = 0
    BY <1>6, <2>1 DEF Iterates
  <2>2. CASE k # 0
    <3>1. k \in 1..n /\ k - 1 \in 0..n
      BY <1>2, <2>2
    <3>2. g[k - 1] \in S
      BY <1>6, <3>1
    <3> QED
      BY <1>6, <2>2, <3>1, <3>2 DEF Iterates
  <2> QED
    BY <2>1, <2>2
<1> HIDE DEF G
<1>8. \E h : Turns(h)
  <2> DEFINE e == [k \in 0..n |-> IF k = 0 THEN Unframed(b) ELSE Framed(g[k - 1], junk)]
  <2>1. g = [k \in 0..n |-> g[k]] /\ e = [k \in 0..n |-> e[k]] /\ \A k \in 0..n : g[k] = e[k]
    BY <1>6, <1>7
  <2>2. g = e
    <3> HIDE DEF e
    <3> QED
      BY <2>1
  <2> QED
    BY <2>2
<1> DEFINE f == CHOOSE h : Turns(h)
<1>9. Frames(b, junk) = f[n]
  BY Zenon DEF Frames, n
<1>10. Turns(f)
  BY <1>8
<1> HIDE DEF f
<1>11. f[0] = Unframed(b) /\ \A k \in 1..n : f[k] = Framed(f[k - 1], junk)
  <2>1. 0 \in 0..n /\ \A k \in 1..n : k \in 0..n /\ k # 0
    BY <1>2
  <2> QED
    BY <1>10, <2>1
<1> HIDE DEF Turns
<1> DEFINE Q == {k \in 0..n : f[k] \in S}
<1>12. 0 \in Q
  BY <1>2, <1>3, <1>11
<1>13. ASSUME NEW k \in 1..n, k - 1 \in Q
       PROVE  k \in Q
  BY <1>2, <1>4, <1>11, <1>13
<1>14. f[n] \in S
  <2> HIDE DEF Q
  <2>1. \A k \in 0..n : k \in Q
    BY <1>2, <1>12, <1>13, UpTo
  <2> QED
    BY <1>2, <2>1 DEF Q
<1> QED
  BY <1>9, <1>14 DEF S, b

-----------------------------------------------------------------------------
(* Records *)

RecordKind == {"plain", "application", "CLIENT_HELLO", "CLIENT_MASTER_KEY", "CLIENT_FINISHED",
               "ERROR", "SERVER_HELLO", "SERVER_VERIFY", "SERVER_FINISHED"}
RecordType == [type : RecordKind, body : Seq(Unit), key : {"none", "c2s", "s2c"},
               seq : Nat, pos : Nat]
SocketState == {"WAIT_CLIENT_HELLO", "WAIT_CLIENT_MASTER_KEY", "WAIT_CLIENT_FINISHED",
                "ESTABLISHED"}
SrvType == [mode : {"detect", "plain", "ssl2", "dead"}, state : SocketState,
            readSeq : Nat, writeSeq : Nat, readPos : Nat, writePos : Nat,
            buffer : Seq(Unit), closed : BOOLEAN, fin : BOOLEAN]
WorkType == [srv : SrvType, out : Seq(RecordType), pushed : Seq(Unit)]

\* Types of records, and their lengths on the wire.
LEMMA RecordTypes ==
  /\ \A r \in RecordType : Units(r) \in Nat /\ (r.type # "plain" => Units(r) > 0)
  /\ \A r \in RecordType : r.type = "plain" => Units(r) = Len(r.body)
  /\ \A t \in RecordKind : Clear(t) \in RecordType
  /\ \A t \in RecordKind, b \in Seq(Unit), key \in {"none", "c2s", "s2c"}, seq, pos \in Nat :
       Record(t, b, key, seq, pos) \in RecordType
<1>1. \A t \in RecordKind, b \in Seq(Unit), key \in {"none", "c2s", "s2c"}, seq, pos \in Nat :
       Record(t, b, key, seq, pos) \in RecordType
  BY DEF Record, RecordType
<1>2. \A t \in RecordKind : Clear(t) \in RecordType
  <2>1. <<>> \in Seq(Unit)
    OBVIOUS
  <2> QED
    BY <1>1, <2>1 DEF Clear
<1>3. ASSUME NEW r \in RecordType
      PROVE  /\ Units(r) \in Nat /\ (r.type # "plain" => Units(r) > 0)
             /\ r.type = "plain" => Units(r) = Len(r.body)
  <2>1. Len(r.body) \in Nat
    BY DEF RecordType
  <2> QED
    BY <2>1 DEF Units
<1> QED
  BY <1>1, <1>2, <1>3

\* What one side keeps of its srv when another part of it changes.
SameReading(s, t) == t.readSeq = s.readSeq /\ t.readPos = s.readPos
SameWriting(s, t) == t.writeSeq = s.writeSeq /\ t.writePos = s.writePos
SameMode(s, t) == t.mode = s.mode /\ t.closed = s.closed /\ t.fin = s.fin
SameBuffer(s, t) == t.buffer = s.buffer

\* What a socket that has failed is.
Failed(s, t) ==
  /\ t.mode = "dead" /\ t.closed /\ t.buffer = <<>> /\ t.fin = s.fin /\ t.state = s.state
  /\ SameReading(s, t) /\ SameWriting(s, t)

\* An error writes and pushes nothing.
LEMMA Failing ==
  ASSUME NEW w \in WorkType
  PROVE  /\ Fail(w) \in WorkType /\ Failed(w.srv, Fail(w).srv)
         /\ Fail(w).out = w.out /\ Fail(w).pushed = w.pushed
<1> DEFINE s == w.srv
           t == [s EXCEPT !.mode = "dead", !.closed = TRUE, !.buffer = <<>>]
<1>1. s \in SrvType /\ <<>> \in Seq(Unit)
  BY DEF WorkType
<1>2. Fail(w) = [w EXCEPT !.srv = t]
  BY DEF Fail, WorkType, SrvType
<1> HIDE DEF s
<1>3. t \in SrvType /\ Failed(s, t)
  BY <1>1 DEF SrvType, Failed, SameReading, SameWriting
<1> HIDE DEF t
<1> QED
  BY <1>2, <1>3 DEF WorkType, s

\* What one encrypted record changes on the side that writes it, ...
LEMMA WritingRecord ==
  ASSUME NEW w \in WorkType, NEW type \in RecordKind, NEW body \in Seq(Unit)
  PROVE  LET d == WriteRecord(w, type, body) IN
         /\ d \in WorkType
         /\ d.srv.writeSeq = w.srv.writeSeq + 1
         /\ d.srv.writePos = w.srv.writePos + 1 + Len(body)
         /\ SameReading(w.srv, d.srv) /\ SameMode(w.srv, d.srv) /\ SameBuffer(w.srv, d.srv)
         /\ d.srv.state = w.srv.state /\ d.pushed = w.pushed
         /\ d.out = Append(w.out, Record(type, body, "s2c", w.srv.writeSeq, w.srv.writePos))
<1> DEFINE s == w.srv
           q == s.writeSeq + 1
           p == s.writePos + 1 + Len(body)
           t == [s EXCEPT !.writeSeq = q, !.writePos = p]
           o == Append(w.out, Record(type, body, "s2c", s.writeSeq, s.writePos))
           e == [w EXCEPT !.srv = t]
<1>1. s \in SrvType /\ Len(body) \in Nat
  BY DEF WorkType
<1>2. WriteRecord(w, type, body) = [e EXCEPT !.out = o]
  BY DEF WriteRecord, WorkType, SrvType, Advance
<1>3. o \in Seq(RecordType)
  <2>1. Record(type, body, "s2c", s.writeSeq, s.writePos) \in RecordType
    BY <1>1, RecordTypes DEF SrvType
  <2> QED
    BY <2>1 DEF WorkType
<1> HIDE DEF s
<1>4. /\ t \in SrvType
      /\ t.writeSeq = q /\ t.writePos = p
      /\ SameReading(s, t) /\ SameMode(s, t) /\ SameBuffer(s, t) /\ t.state = s.state
  <2>1. q \in Nat /\ p \in Nat
    BY <1>1 DEF SrvType
  <2> HIDE DEF q, p
  <2> QED
    BY <1>1, <2>1 DEF SrvType, SameReading, SameMode, SameBuffer
<1> HIDE DEF t, o
<1>5. e \in WorkType /\ e.srv = t /\ e.out = w.out /\ e.pushed = w.pushed
  BY <1>4 DEF WorkType
<1> HIDE DEF e
<1>6. /\ [e EXCEPT !.out = o] \in WorkType /\ [e EXCEPT !.out = o].srv = t
      /\ [e EXCEPT !.out = o].out = o /\ [e EXCEPT !.out = o].pushed = w.pushed
  BY <1>3, <1>5 DEF WorkType
<1> QED
  BY <1>2, <1>4, <1>6 DEF s, o

\* ... and on the side that reads it.
LEMMA Decrypting ==
  ASSUME NEW w \in WorkType, NEW r \in RecordType
  PROVE  LET d == Decrypted(w, r) IN
         /\ d \in WorkType
         /\ d.srv.readSeq = w.srv.readSeq + 1
         /\ d.srv.readPos = w.srv.readPos + 1 + Len(r.body)
         /\ SameWriting(w.srv, d.srv) /\ SameMode(w.srv, d.srv) /\ SameBuffer(w.srv, d.srv)
         /\ d.srv.state = w.srv.state /\ d.pushed = w.pushed /\ d.out = w.out
<1> DEFINE s == w.srv
           q == s.readSeq + 1
           p == s.readPos + 1 + Len(r.body)
           t == [s EXCEPT !.readSeq = q, !.readPos = p]
<1>1. s \in SrvType /\ Len(r.body) \in Nat
  BY DEF WorkType, RecordType
<1>2. Decrypted(w, r) = [w EXCEPT !.srv = t]
  BY DEF Decrypted, WorkType, SrvType, Advance
<1> HIDE DEF s
<1>3. /\ t \in SrvType
      /\ t.readSeq = q /\ t.readPos = p
      /\ SameWriting(s, t) /\ SameMode(s, t) /\ SameBuffer(s, t) /\ t.state = s.state
  <2>1. q \in Nat /\ p \in Nat
    BY <1>1 DEF SrvType
  <2> HIDE DEF q, p
  <2> QED
    BY <1>1, <2>1 DEF SrvType, SameWriting, SameMode, SameBuffer
<1> HIDE DEF t
<1> QED
  BY <1>2, <1>3 DEF WorkType, s

\* What a socket makes of its state.
LEMMA NewState ==
  ASSUME NEW w \in WorkType, NEW state \in SocketState
  PROVE  LET d == [w EXCEPT !.srv.state = state] IN
         /\ d \in WorkType /\ d.srv.state = state /\ d.pushed = w.pushed /\ d.out = w.out
         /\ SameReading(w.srv, d.srv) /\ SameWriting(w.srv, d.srv)
         /\ SameMode(w.srv, d.srv) /\ SameBuffer(w.srv, d.srv)
<1> DEFINE s == w.srv
           t == [s EXCEPT !.state = state]
<1>1. s \in SrvType
  BY DEF WorkType
<1>2. [w EXCEPT !.srv.state = state] = [w EXCEPT !.srv = t]
  BY DEF WorkType, SrvType
<1> HIDE DEF s
<1>3. /\ t \in SrvType /\ t.state = state /\ SameReading(s, t) /\ SameWriting(s, t)
      /\ SameMode(s, t) /\ SameBuffer(s, t)
  BY <1>1 DEF SrvType, SameReading, SameWriting, SameMode, SameBuffer
<1> HIDE DEF t
<1> QED
  BY <1>2, <1>3 DEF WorkType, s

\* What is pushed changes nothing of the socket.
LEMMA Push ==
  ASSUME NEW w \in WorkType, NEW body \in Seq(Unit)
  PROVE  LET d == [w EXCEPT !.pushed = @ \o body] IN
         d \in WorkType /\ d.srv = w.srv /\ d.out = w.out /\ d.pushed = w.pushed \o body
<1>1. w.pushed \o body \in Seq(Unit)
  BY Joined DEF WorkType
<1> QED
  BY <1>1 DEF WorkType

\* What the socket does with a record, state by state.
LEMMA PlainRecord ==
  ASSUME NEW w \in WorkType, w.srv.mode \notin {"dead", "ssl2"}, NEW r \in RecordType
  PROVE  LET d == HandleRecord(w, r) IN
         d \in WorkType /\ d.srv = w.srv /\ d.out = w.out /\ d.pushed = w.pushed \o r.body
<1>1. HandleRecord(w, r) = [w EXCEPT !.pushed = @ \o r.body]
  BY DEF HandleRecord
<1>2. r.body \in Seq(Unit)
  BY DEF RecordType
<1> QED
  BY <1>1, <1>2, Push, ZenonT(30)

\* CLIENT_HELLO is answered, anything else fails the socket.
LEMMA HelloRecord ==
  ASSUME NEW w \in WorkType, w.srv.mode = "ssl2", w.srv.state = "WAIT_CLIENT_HELLO",
         NEW r \in RecordType
  PROVE  LET d == HandleRecord(w, r) IN
         /\ d \in WorkType
         /\ r.type = "CLIENT_HELLO" =>
              /\ d.srv.state = "WAIT_CLIENT_MASTER_KEY" /\ d.pushed = w.pushed
              /\ SameReading(w.srv, d.srv) /\ SameWriting(w.srv, d.srv)
              /\ SameMode(w.srv, d.srv) /\ SameBuffer(w.srv, d.srv)
              /\ d.out = Append(w.out, Clear("SERVER_HELLO"))
<1> DEFINE e == [w EXCEPT !.srv.state = "WAIT_CLIENT_MASTER_KEY"]
           o == Append(w.out, Clear("SERVER_HELLO"))
<1>1. HandleRecord(w, r) = IF r.type # "CLIENT_HELLO" THEN Fail(w) ELSE [e EXCEPT !.out = o]
  BY DEF HandleRecord, HandleClientHello, WorkType
<1>2. "WAIT_CLIENT_MASTER_KEY" \in SocketState
  BY DEF SocketState
<1>3. /\ e \in WorkType /\ e.srv.state = "WAIT_CLIENT_MASTER_KEY"
      /\ e.pushed = w.pushed /\ e.out = w.out
      /\ SameReading(w.srv, e.srv) /\ SameWriting(w.srv, e.srv)
      /\ SameMode(w.srv, e.srv) /\ SameBuffer(w.srv, e.srv)
  BY <1>2, NewState
<1>4. o \in Seq(RecordType)
  <2>1. Clear("SERVER_HELLO") \in RecordType
    BY RecordTypes DEF RecordKind
  <2> QED
    BY <2>1 DEF WorkType
<1> HIDE DEF e, o
<1>5. /\ [e EXCEPT !.out = o] \in WorkType /\ [e EXCEPT !.out = o].srv = e.srv
      /\ [e EXCEPT !.out = o].out = o /\ [e EXCEPT !.out = o].pushed = e.pushed
  BY <1>3, <1>4 DEF WorkType
<1> QED
  BY <1>1, <1>3, <1>5, Failing DEF o

\* CLIENT_MASTER_KEY starts the counts and is answered with SERVER_VERIFY.
LEMMA MasterKeyRecord ==
  ASSUME NEW w \in WorkType, w.srv.mode = "ssl2", w.srv.state = "WAIT_CLIENT_MASTER_KEY",
         NEW r \in RecordType
  PROVE  LET d == HandleRecord(w, r) IN
         /\ d \in WorkType
         /\ r.type = "CLIENT_MASTER_KEY" =>
              /\ d.srv.state = "WAIT_CLIENT_FINISHED" /\ d.pushed = w.pushed
              /\ d.srv.readSeq = 2 /\ d.srv.readPos = 0
              /\ d.srv.writeSeq = 2 /\ d.srv.writePos = 1
              /\ SameMode(w.srv, d.srv) /\ SameBuffer(w.srv, d.srv)
              /\ d.out = Append(w.out, Record("SERVER_VERIFY", <<>>, "s2c", 1, 0))
<1> DEFINE s == w.srv
           t1 == [s EXCEPT !.state = "WAIT_CLIENT_FINISHED", !.writeSeq = 1]
           t2 == [t1 EXCEPT !.readSeq = 2, !.writePos = 0]
           t == [t2 EXCEPT !.readPos = 0]
           e == [w EXCEPT !.srv = t]
           d == WriteRecord(e, "SERVER_VERIFY", <<>>)
<1>1. HandleRecord(w, r) = IF r.type # "CLIENT_MASTER_KEY" THEN Fail(w) ELSE d
  <2>1. [w EXCEPT !.srv.state = "WAIT_CLIENT_FINISHED", !.srv.writeSeq = 1, !.srv.readSeq = 2,
                  !.srv.writePos = 0, !.srv.readPos = 0] = e
    BY DEF WorkType, SrvType
  <2> HIDE DEF e
  <2> QED
    BY <2>1 DEF HandleRecord, HandleClientMasterKey
<1>2. s \in SrvType
  BY DEF WorkType
<1> HIDE DEF s
<1>3. /\ t1 \in SrvType /\ t1.state = "WAIT_CLIENT_FINISHED" /\ t1.writeSeq = 1
      /\ SameMode(s, t1) /\ SameBuffer(s, t1)
  BY <1>2 DEF SrvType, SocketState, SameMode, SameBuffer
<1> HIDE DEF t1
<1>4. /\ t2 \in SrvType /\ t2.state = "WAIT_CLIENT_FINISHED" /\ t2.writeSeq = 1
      /\ t2.readSeq = 2 /\ t2.writePos = 0 /\ SameMode(s, t2) /\ SameBuffer(s, t2)
  BY <1>3 DEF SrvType, SameMode, SameBuffer
<1> HIDE DEF t2
<1>5. /\ t \in SrvType /\ t.state = "WAIT_CLIENT_FINISHED" /\ t.writeSeq = 1 /\ t.readPos = 0
      /\ t.readSeq = 2 /\ t.writePos = 0 /\ SameMode(s, t) /\ SameBuffer(s, t)
  BY <1>4 DEF SrvType, SameMode, SameBuffer
<1> HIDE DEF t
<1>6. e \in WorkType /\ e.srv = t /\ e.pushed = w.pushed /\ e.out = w.out
  BY <1>5 DEF WorkType
<1> HIDE DEF e
<1>7. /\ d \in WorkType
      /\ d.srv.writeSeq = e.srv.writeSeq + 1
      /\ d.srv.writePos = e.srv.writePos + 1 + Len(<<>>)
      /\ SameReading(e.srv, d.srv) /\ SameMode(e.srv, d.srv) /\ SameBuffer(e.srv, d.srv)
      /\ d.srv.state = e.srv.state /\ d.pushed = e.pushed
      /\ d.out = Append(e.out, Record("SERVER_VERIFY", <<>>, "s2c", e.srv.writeSeq, e.srv.writePos))
  <2>1. "SERVER_VERIFY" \in RecordKind /\ <<>> \in Seq(Unit)
    BY DEF RecordKind
  <2> QED
    BY <1>6, <2>1, WritingRecord
<1> HIDE DEF d
<1>8. /\ d.srv.writeSeq = 2 /\ d.srv.writePos = 1 /\ d.srv.readSeq = 2 /\ d.srv.readPos = 0
      /\ d.out = Append(w.out, Record("SERVER_VERIFY", <<>>, "s2c", 1, 0))
  BY <1>5, <1>6, <1>7 DEF SameReading
<1>9. d.srv.state = "WAIT_CLIENT_FINISHED" /\ SameMode(s, d.srv) /\ SameBuffer(s, d.srv)
  BY <1>5, <1>6, <1>7 DEF SameMode, SameBuffer
<1> QED
  BY <1>1, <1>6, <1>7, <1>8, <1>9, Failing DEF s

\* CLIENT_FINISHED is verified and answered with SERVER_FINISHED.
LEMMA FinishedRecord ==
  ASSUME NEW w \in WorkType, w.srv.mode = "ssl2", w.srv.state = "WAIT_CLIENT_FINISHED",
         NEW r \in RecordType
  PROVE  LET d == HandleRecord(w, r) IN
         /\ d \in WorkType
         /\ r.type # "CLIENT_FINISHED" =>
              Failed(w.srv, d.srv) /\ d.out = w.out /\ d.pushed = w.pushed
         /\ r.type = "CLIENT_FINISHED" /\ Verifies(w, r) /\ r.body = <<>> =>
              /\ d.srv.state = "ESTABLISHED" /\ d.pushed = w.pushed
              /\ d.srv.readSeq = w.srv.readSeq + 1 /\ d.srv.readPos = w.srv.readPos + 1
              /\ d.srv.writeSeq = w.srv.writeSeq + 1 /\ d.srv.writePos = w.srv.writePos + 1
              /\ SameMode(w.srv, d.srv) /\ SameBuffer(w.srv, d.srv)
              /\ d.out = Append(w.out, Record("SERVER_FINISHED", <<>>, "s2c",
                                              w.srv.writeSeq, w.srv.writePos))
<1> DEFINE c == Decrypted(w, r)
           e == [c EXCEPT !.srv.state = "ESTABLISHED"]
           d == WriteRecord(e, "SERVER_FINISHED", <<>>)
<1>1. HandleRecord(w, r) = IF r.type # "CLIENT_FINISHED" \/ ~Verifies(w, r) THEN Fail(w) ELSE d
  BY DEF HandleRecord, HandleClientFinished
<1>2. /\ c \in WorkType /\ c.srv.readSeq = w.srv.readSeq + 1
      /\ c.srv.readPos = w.srv.readPos + 1 + Len(r.body)
      /\ SameWriting(w.srv, c.srv) /\ SameMode(w.srv, c.srv) /\ SameBuffer(w.srv, c.srv)
      /\ c.pushed = w.pushed /\ c.out = w.out
  BY Decrypting
<1> HIDE DEF c
<1>3. /\ e \in WorkType /\ e.srv.state = "ESTABLISHED" /\ e.pushed = c.pushed /\ e.out = c.out
      /\ SameReading(c.srv, e.srv) /\ SameWriting(c.srv, e.srv)
      /\ SameMode(c.srv, e.srv) /\ SameBuffer(c.srv, e.srv)
  <2>1. "ESTABLISHED" \in SocketState
    BY DEF SocketState
  <2> QED
    BY <1>2, <2>1, NewState
<1> HIDE DEF e
<1>4. /\ d \in WorkType
      /\ d.srv.writeSeq = e.srv.writeSeq + 1
      /\ d.srv.writePos = e.srv.writePos + 1 + Len(<<>>)
      /\ SameReading(e.srv, d.srv) /\ SameMode(e.srv, d.srv) /\ SameBuffer(e.srv, d.srv)
      /\ d.srv.state = e.srv.state /\ d.pushed = e.pushed
      /\ d.out = Append(e.out, Record("SERVER_FINISHED", <<>>, "s2c", e.srv.writeSeq, e.srv.writePos))
  <2>1. "SERVER_FINISHED" \in RecordKind /\ <<>> \in Seq(Unit)
    BY DEF RecordKind
  <2> QED
    BY <1>3, <2>1, WritingRecord
<1> HIDE DEF d
<1>5. /\ d.srv.state = "ESTABLISHED" /\ d.pushed = w.pushed
      /\ SameMode(w.srv, d.srv) /\ SameBuffer(w.srv, d.srv)
  BY <1>2, <1>3, <1>4 DEF SameMode, SameBuffer
<1>6. /\ d.srv.readSeq = w.srv.readSeq + 1
      /\ d.srv.readPos = w.srv.readPos + 1 + Len(r.body)
      /\ d.srv.writeSeq = w.srv.writeSeq + 1
      /\ d.srv.writePos = w.srv.writePos + 1 + Len(<<>>)
      /\ d.out = Append(w.out, Record("SERVER_FINISHED", <<>>, "s2c",
                                      w.srv.writeSeq, w.srv.writePos))
  BY <1>2, <1>3, <1>4 DEF SameReading, SameWriting
<1>7. Len(<<>>) = 0 /\ w.srv.readPos \in Nat /\ w.srv.writePos \in Nat
  BY DEF WorkType, SrvType
<1>8. r.body = <<>> => d.srv.readPos = w.srv.readPos + 1 /\ d.srv.writePos = w.srv.writePos + 1
  BY <1>6, <1>7
<1> QED
  BY <1>1, <1>4, <1>5, <1>6, <1>8, Failing

\* An application record is verified and its body pushed.
LEMMA ApplicationRecord ==
  ASSUME NEW w \in WorkType, w.srv.mode = "ssl2", w.srv.state = "ESTABLISHED",
         NEW r \in RecordType
  PROVE  LET d == HandleRecord(w, r) IN
         /\ d \in WorkType
         /\ Verifies(w, r) =>
              /\ d.srv.readSeq = w.srv.readSeq + 1
              /\ d.srv.readPos = w.srv.readPos + 1 + Len(r.body)
              /\ d.srv.state = "ESTABLISHED" /\ SameWriting(w.srv, d.srv)
              /\ SameMode(w.srv, d.srv) /\ SameBuffer(w.srv, d.srv)
              /\ d.out = w.out /\ d.pushed = w.pushed \o r.body
<1> DEFINE c == Decrypted(w, r)
           d == [c EXCEPT !.pushed = @ \o r.body]
<1>1. HandleRecord(w, r) = IF ~Verifies(w, r) THEN Fail(w) ELSE d
  BY DEF HandleRecord, HandleApplicationRecord
<1>2. /\ c \in WorkType /\ c.srv.readSeq = w.srv.readSeq + 1
      /\ c.srv.readPos = w.srv.readPos + 1 + Len(r.body)
      /\ SameWriting(w.srv, c.srv) /\ SameMode(w.srv, c.srv) /\ SameBuffer(w.srv, c.srv)
      /\ c.srv.state = w.srv.state /\ c.pushed = w.pushed /\ c.out = w.out
  BY Decrypting
<1> HIDE DEF c
<1>3. d \in WorkType /\ d.srv = c.srv /\ d.out = c.out /\ d.pushed = c.pushed \o r.body
  <2>1. r.body \in Seq(Unit)
    BY DEF RecordType
  <2> QED
    BY <1>2, <2>1, Push
<1> HIDE DEF d
<1> QED
  BY <1>1, <1>2, <1>3, Failing

\* Any record leaves the types as they were.
LEMMA HandleRecordType ==
  ASSUME NEW w \in WorkType, NEW r \in RecordType
  PROVE  HandleRecord(w, r) \in WorkType
<1>1. w.srv.mode = "dead" => HandleRecord(w, r) = w
  BY DEF HandleRecord
<1>2. w.srv.state \in SocketState
  BY DEF WorkType, SrvType
<1>3. w.srv.mode \notin {"dead", "ssl2"} => HandleRecord(w, r) \in WorkType
  BY PlainRecord
<1>4. w.srv.mode = "ssl2" /\ w.srv.state = "WAIT_CLIENT_HELLO" => HandleRecord(w, r) \in WorkType
  BY HelloRecord
<1>5. w.srv.mode = "ssl2" /\ w.srv.state = "WAIT_CLIENT_MASTER_KEY" => HandleRecord(w, r) \in WorkType
  BY MasterKeyRecord
<1>6. w.srv.mode = "ssl2" /\ w.srv.state = "WAIT_CLIENT_FINISHED" => HandleRecord(w, r) \in WorkType
  BY FinishedRecord
<1>7. w.srv.mode = "ssl2" /\ w.srv.state = "ESTABLISHED" => HandleRecord(w, r) \in WorkType
  BY ApplicationRecord
<1> QED
  BY <1>1, <1>2, <1>3, <1>4, <1>5, <1>6, <1>7 DEF SocketState

\* f[i] is what the socket is after the first i records.
Runs(f, w, rs, k) ==
  /\ f \in [0..k -> WorkType] /\ f[0] = w
  /\ \A i \in 1..k : f[i] = HandleRecord(f[i - 1], rs[i])

\* The loop over records is a run of its turns.
LEMMA ReadRecordsRuns ==
  ASSUME NEW w \in WorkType, NEW rs \in Seq(RecordType), NEW k \in 0..Len(rs)
  PROVE  \E f : Runs(f, w, rs, k) /\ ReadRecords(w, rs, k) = f[k]
<1> DEFINE S == WorkType
           G == [i \in 1..k |-> [v \in S |-> HandleRecord(v, rs[i])]]
           Turns(g) == g = [i \in 0..k |-> IF i = 0 THEN w ELSE HandleRecord(g[i - 1], rs[i])]
<1>1. k \in Nat /\ \A i \in 1..k : rs[i] \in RecordType
  OBVIOUS
<1>2. G \in [1..k -> [S -> S]]
  BY <1>1, HandleRecordType
<1>3. PICK g \in [0..k -> S] : Iterates(g, k, w, G)
  <2> HIDE DEF G, S
  <2>1. w \in S
    BY DEF S
  <2> QED
    BY <1>1, <1>2, <2>1, Recursion
<1> HIDE DEF S
<1>4. ASSUME NEW i \in 0..k
      PROVE  g[i] = IF i = 0 THEN w ELSE HandleRecord(g[i - 1], rs[i])
  <2>1. CASE i = 0
    BY <1>3, <2>1 DEF Iterates
  <2>2. CASE i # 0
    <3>1. i \in 1..k /\ i - 1 \in 0..k
      BY <1>1, <2>2
    <3>2. g[i - 1] \in S
      BY <1>3, <3>1
    <3> QED
      BY <1>3, <2>2, <3>1, <3>2 DEF Iterates
  <2> QED
    BY <2>1, <2>2
<1> HIDE DEF G
<1>5. Turns(g)
  <2> DEFINE e == [i \in 0..k |-> IF i = 0 THEN w ELSE HandleRecord(g[i - 1], rs[i])]
  <2>1. g = [i \in 0..k |-> g[i]] /\ e = [i \in 0..k |-> e[i]] /\ \A i \in 0..k : g[i] = e[i]
    BY <1>3, <1>4
  <2>2. g = e
    <3> HIDE DEF e
    <3> QED
      BY <2>1
  <2> QED
    BY <2>2
<1> DEFINE f == CHOOSE h : Turns(h)
<1>6. ReadRecords(w, rs, k) = f[k]
  BY Zenon DEF ReadRecords
<1>7. Turns(f)
  BY <1>5
<1> HIDE DEF f
<1>8. /\ DOMAIN f = 0..k /\ f = [i \in DOMAIN f |-> f[i]]
      /\ f[0] = w /\ \A i \in 1..k : f[i] = HandleRecord(f[i - 1], rs[i])
  <2>1. 0 \in 0..k /\ \A i \in 1..k : i \in 0..k /\ i # 0
    BY <1>1
  <2> QED
    BY <1>7, <2>1
<1> HIDE DEF Turns
<1> DEFINE Q == {i \in 0..k : f[i] \in WorkType}
<1>9. 0 \in Q
  BY <1>1, <1>8
<1>10. ASSUME NEW i \in 1..k, i - 1 \in Q
       PROVE  i \in Q
  BY <1>1, <1>8, <1>10, HandleRecordType
<1>11. \A i \in 0..k : f[i] \in WorkType
  <2> HIDE DEF Q
  <2>1. \A i \in 0..k : i \in Q
    BY <1>1, <1>9, <1>10, UpTo
  <2> QED
    BY <2>1 DEF Q
<1>12. Runs(f, w, rs, k)
  BY <1>8, <1>11 DEF Runs
<1> QED
  BY <1>6, <1>12

\* The units of the first records: one record more adds its units.
Extents(f, rs, k) == f = [i \in 0..k |-> IF i = 0 THEN 0 ELSE f[i - 1] + Units(rs[i])]

\* So is the sum of their lengths, ...
LEMMA ExtentsIs ==
  ASSUME NEW rs \in Seq(RecordType), NEW k \in 0..Len(rs)
  PROVE  \E f : Extents(f, rs, k) /\ Extent(rs, k) = f[k]
<1> DEFINE G == [i \in 1..k |-> [v \in Nat |-> v + Units(rs[i])]]
<1>1. k \in Nat /\ \A i \in 1..k : Units(rs[i]) \in Nat
  BY RecordTypes
<1>2. G \in [1..k -> [Nat -> Nat]]
  BY <1>1
<1>3. PICK g \in [0..k -> Nat] : Iterates(g, k, 0, G)
  <2> HIDE DEF G
  <2> QED
    BY <1>1, <1>2, Recursion
<1>4. ASSUME NEW i \in 0..k
      PROVE  g[i] = IF i = 0 THEN 0 ELSE g[i - 1] + Units(rs[i])
  <2>1. CASE i = 0
    BY <1>3, <2>1 DEF Iterates
  <2>2. CASE i # 0
    <3>1. i \in 1..k /\ i - 1 \in 0..k
      BY <1>1, <2>2
    <3>2. g[i - 1] \in Nat
      BY <1>3, <3>1
    <3> QED
      BY <1>3, <2>2, <3>1, <3>2 DEF Iterates
  <2> QED
    BY <2>1, <2>2
<1> HIDE DEF G
<1>5. Extents(g, rs, k)
  <2> DEFINE e == [i \in 0..k |-> IF i = 0 THEN 0 ELSE g[i - 1] + Units(rs[i])]
  <2>1. g = [i \in 0..k |-> g[i]] /\ e = [i \in 0..k |-> e[i]] /\ \A i \in 0..k : g[i] = e[i]
    BY <1>3, <1>4
  <2>2. g = e
    <3> HIDE DEF e
    <3> QED
      BY <2>1
  <2> QED
    BY <2>2 DEF Extents
<1> DEFINE f == CHOOSE h : Extents(h, rs, k)
<1>6. Extent(rs, k) = f[k]
  BY Zenon DEF Extent, Extents
<1>7. Extents(f, rs, k)
  BY <1>5
<1> QED
  BY <1>6, <1>7

\* ... to which each record adds its own.
LEMMA ExtentStep ==
  ASSUME NEW rs \in Seq(RecordType), NEW k \in 0..Len(rs)
  PROVE  /\ Extent(rs, 0) = 0 /\ Extent(rs, k) \in Nat
         /\ k < Len(rs) => Extent(rs, k + 1) = Extent(rs, k) + Units(rs[k + 1])
<1>1. ASSUME NEW j \in 0..Len(rs), NEW f, Extents(f, rs, j)
      PROVE  f[0] = 0 /\ \A i \in 1..j : f[i] = f[i - 1] + Units(rs[i])
  <2>1. j \in Nat /\ 0 \in 0..j /\ \A i \in 1..j : i \in 0..j /\ i # 0
    OBVIOUS
  <2> QED
    BY <1>1, <2>1 DEF Extents
<1>2. 0 \in 0..Len(rs)
  OBVIOUS
<1>3. Extent(rs, 0) = 0
  BY <1>1, <1>2, ExtentsIs
<1>4. PICK f : Extents(f, rs, k) /\ Extent(rs, k) = f[k]
  BY ExtentsIs
<1>5. f[0] = 0 /\ \A i \in 1..k : f[i] = f[i - 1] + Units(rs[i])
  BY <1>1, <1>4
<1>6. Extent(rs, k) \in Nat
  <2> DEFINE Q == {i \in 0..k : f[i] \in Nat}
  <2>1. k \in Nat /\ 0 \in Q
    BY <1>5
  <2>2. ASSUME NEW i \in 1..k, i - 1 \in Q
        PROVE  i \in Q
    <3>1. Units(rs[i]) \in Nat
      BY RecordTypes
    <3> QED
      BY <1>5, <2>2, <3>1
  <2>3. \A i \in 0..k : i \in Q
    <3> HIDE DEF Q
    <3> QED
      BY <2>1, <2>2, UpTo
  <2> QED
    BY <1>4, <2>1, <2>3
<1>7. CASE k < Len(rs)
  <2>1. k + 1 \in 0..Len(rs) /\ k \in Nat
    BY <1>7
  <2>2. PICK g : Extents(g, rs, k + 1) /\ Extent(rs, k + 1) = g[k + 1]
    BY <2>1, ExtentsIs
  <2>3. g[0] = 0 /\ \A i \in 1..(k + 1) : g[i] = g[i - 1] + Units(rs[i])
    BY <1>1, <2>1, <2>2
  <2> DEFINE Q == {i \in 0..k : f[i] = g[i]}
  <2>4. 0 \in Q
    BY <1>5, <2>1, <2>3
  <2>5. ASSUME NEW i \in 1..k, i - 1 \in Q
        PROVE  i \in Q
    <3>1. i \in 1..(k + 1)
      BY <2>1
    <3> QED
      BY <1>5, <2>3, <2>5, <3>1
  <2>6. \A i \in 0..k : i \in Q
    <3> HIDE DEF Q
    <3> QED
      BY <2>1, <2>4, <2>5, UpTo
  <2>7. f[k] = g[k] /\ k + 1 \in 1..(k + 1) /\ (k + 1) - 1 = k
    BY <2>1, <2>6
  <2> QED
    BY <1>3, <1>4, <1>6, <2>2, <2>3, <2>7
<1> QED
  BY <1>3, <1>6, <1>7

-----------------------------------------------------------------------------
(* Streams: what the records on their way carry *)

\* The bodies of rs are the units from the first a up to the first z of the
\* packets of a side; S[i] is where record i begins.
Carries(rs, S, a, z) ==
  /\ S \in [1..(Len(rs) + 1) -> Nat] /\ S[1] = a /\ S[Len(rs) + 1] = z
  /\ \A i \in 1..Len(rs) : S[i] <= S[i + 1] /\ rs[i].body = Slice(S[i], S[i + 1] - S[i])

\* Their keys, numbers and positions follow on from seq and pos.
Chained(rs, S, key, seq, pos) ==
  \A i \in 1..Len(rs) : /\ rs[i].key = key /\ rs[i].seq = seq + (i - 1)
                        /\ rs[i].pos = pos + (i - 1) + (S[i] - S[1])

\* All of them are of one type.
AllOf(rs, type) == \A i \in 1..Len(rs) : rs[i].type = type

\* A stream only goes forward.
LEMMA StreamGrows ==
  ASSUME NEW rs \in Seq(RecordType), NEW S, NEW a, NEW z, Carries(rs, S, a, z)
  PROVE  /\ a \in Nat /\ z \in Nat /\ a <= z
         /\ \A k \in 1..(Len(rs) + 1) : S[k] \in Nat /\ a <= S[k] /\ S[k] <= z
<1> DEFINE n == Len(rs)
<1>1. n \in Nat
  OBVIOUS
<1> HIDE DEF n
<1>2. /\ S \in [1..(n + 1) -> Nat] /\ S[1] = a /\ S[n + 1] = z
      /\ \A i \in 1..n : S[i] <= S[i + 1]
  BY DEF Carries, n
<1>3. \A i \in 1..(n + 1) : S[i] \in Nat
  BY <1>2
<1> DEFINE P == {k \in 0..n : S[1] <= S[k + 1]}
           Q == {k \in 0..n : S[n - k + 1] <= S[n + 1]}
<1>4. 0 \in P /\ 0 \in Q
  <2>1. 0 \in 0..n /\ 1 \in 1..(n + 1) /\ n + 1 \in 1..(n + 1) /\ n - 0 + 1 = n + 1 /\ 0 + 1 = 1
    BY <1>1
  <2>2. S[1] <= S[1] /\ S[n + 1] <= S[n + 1]
    BY <1>3, <2>1
  <2> QED
    BY <2>1, <2>2
<1>5. ASSUME NEW k \in 1..n, k - 1 \in P
      PROVE  k \in P
  <2>1. k \in 0..n /\ k \in 1..(n + 1) /\ k + 1 \in 1..(n + 1) /\ (k - 1) + 1 = k /\ 1 \in 1..(n + 1)
    BY <1>1
  <2>2. S[1] <= S[k] /\ S[k] <= S[k + 1]
    BY <1>2, <1>5, <2>1
  <2>3. S[1] \in Nat /\ S[k] \in Nat /\ S[k + 1] \in Nat
    BY <1>3, <2>1
  <2> QED
    BY <2>1, <2>2, <2>3
<1>6. ASSUME NEW k \in 1..n, k - 1 \in Q
      PROVE  k \in Q
  <2> DEFINE m == n - k + 1
  <2>1. k \in 0..n /\ m \in 1..n /\ m \in 1..(n + 1) /\ m + 1 \in 1..(n + 1)
        /\ n - (k - 1) + 1 = m + 1 /\ n + 1 \in 1..(n + 1)
    BY <1>1
  <2>2. S[m + 1] <= S[n + 1]
    BY <1>6, <2>1
  <2> HIDE DEF m
  <2>3. S[m] <= S[m + 1] /\ S[m] \in Nat /\ S[m + 1] \in Nat /\ S[n + 1] \in Nat
    BY <1>2, <1>3, <2>1
  <2>4. S[m] <= S[n + 1]
    BY <2>2, <2>3
  <2> QED
    BY <2>1, <2>4 DEF m
<1>7. \A k \in 0..n : k \in P /\ k \in Q
  <2> HIDE DEF P, Q
  <2>1. \A k \in 0..n : k \in P
    BY <1>1, <1>4, <1>5, UpTo
  <2>2. \A k \in 0..n : k \in Q
    BY <1>1, <1>4, <1>6, UpTo
  <2> QED
    BY <2>1, <2>2
<1>8. ASSUME NEW k \in 1..(n + 1)
      PROVE  S[k] \in Nat /\ a <= S[k] /\ S[k] <= z
  <2>1. k - 1 \in 0..n /\ (k - 1) + 1 = k
    BY <1>1
  <2> DEFINE j == n + 1 - k
  <2>2. j \in 0..n /\ n - j + 1 = k
    BY <1>1
  <2> HIDE DEF j
  <2>3. S[k] <= S[n + 1]
    BY <1>7, <2>2
  <2> QED
    BY <1>2, <1>3, <1>7, <2>1, <2>3
<1>9. n + 1 \in 1..(n + 1) /\ 1 \in 1..(n + 1)
  BY <1>1
<1>10. a \in Nat /\ z \in Nat /\ a <= z
  BY <1>2, <1>8, <1>9
<1> QED
  BY <1>8, <1>10 DEF n

\* Of a stream the first k records were taken away.
Later(S, k, n) == [i \in 1..(n - k + 1) |-> S[i + k]]

\* What is left of a stream whose first records were taken away.
LEMMA StreamDrops ==
  ASSUME NEW rs \in Seq(RecordType), NEW S, NEW a, NEW z, Carries(rs, S, a, z),
         NEW k \in 0..Len(rs)
  PROVE  LET later == SubSeq(rs, k + 1, Len(rs))
             L == Later(S, k, Len(rs))
         IN /\ later \in Seq(RecordType) /\ Len(later) = Len(rs) - k
            /\ \A i \in 1..Len(later) : later[i] = rs[i + k]
            /\ Carries(later, L, S[k + 1], z)
            /\ \A key : \A seq, pos \in Nat : Chained(rs, S, key, seq, pos) =>
                 Chained(later, L, key, seq + k, pos + k + (S[k + 1] - a))
<1> DEFINE n == Len(rs)
           later == SubSeq(rs, k + 1, n)
           L == Later(S, k, n)
<1>1. n \in Nat /\ k \in Nat /\ n - k \in Nat /\ k <= n
  OBVIOUS
<1>2. /\ later \in Seq(RecordType) /\ Len(later) = n - k
      /\ \A i \in 1..(n - k) : later[i] = rs[i + k]
  OBVIOUS
<1>3. /\ S \in [1..(n + 1) -> Nat] /\ S[1] = a /\ S[n + 1] = z
      /\ \A i \in 1..n : S[i] <= S[i + 1] /\ rs[i].body = Slice(S[i], S[i + 1] - S[i])
  BY DEF Carries
<1> HIDE DEF later, n
<1>4. /\ L \in [1..((n - k) + 1) -> Nat]
      /\ \A i \in 1..((n - k) + 1) : L[i] = S[i + k]
  <2>1. \A i \in 1..(n - k + 1) : i + k \in 1..(n + 1)
    BY <1>1
  <2> QED
    BY <1>3, <2>1 DEF Later
<1> HIDE DEF L
<1>5. L[1] = S[k + 1] /\ L[(n - k) + 1] = z
  <2>1. 1 \in 1..((n - k) + 1) /\ (n - k) + 1 \in 1..((n - k) + 1)
        /\ 1 + k = k + 1 /\ ((n - k) + 1) + k = n + 1
    BY <1>1
  <2> QED
    BY <1>3, <1>4, <2>1
<1>6. ASSUME NEW i \in 1..(n - k)
      PROVE  /\ L[i] <= L[i + 1] /\ later[i].body = Slice(L[i], L[i + 1] - L[i])
             /\ L[i] = S[i + k] /\ later[i] = rs[i + k] /\ i + k \in 1..n
  <2>1. i \in 1..((n - k) + 1) /\ i + 1 \in 1..((n - k) + 1) /\ i + k \in 1..n
        /\ (i + 1) + k = (i + k) + 1
    BY <1>1
  <2>2. L[i] = S[i + k] /\ L[i + 1] = S[(i + k) + 1]
    BY <1>4, <2>1
  <2> QED
    BY <1>2, <1>3, <2>1, <2>2
<1>7. Carries(later, L, S[k + 1], z)
  BY <1>2, <1>4, <1>5, <1>6 DEF Carries
<1>8. ASSUME NEW key, NEW seq \in Nat, NEW pos \in Nat, Chained(rs, S, key, seq, pos)
      PROVE  Chained(later, L, key, seq + k, pos + k + (S[k + 1] - a))
  <2>1. ASSUME NEW i \in 1..(n - k)
        PROVE  /\ later[i].key = key /\ later[i].seq = (seq + k) + (i - 1)
               /\ later[i].pos = (pos + k + (S[k + 1] - a)) + (i - 1) + (L[i] - L[1])
    <3>1. i + k \in 1..n /\ later[i] = rs[i + k] /\ L[i] = S[i + k] /\ L[1] = S[k + 1]
      BY <1>5, <1>6
    <3>2. /\ rs[i + k].key = key /\ rs[i + k].seq = seq + ((i + k) - 1)
          /\ rs[i + k].pos = pos + ((i + k) - 1) + (S[i + k] - S[1])
      BY <1>8, <3>1 DEF Chained, n
    <3>3. S[i + k] \in Nat /\ S[k + 1] \in Nat /\ a \in Nat /\ S[1] = a
      <4>1. i + k \in 1..(n + 1) /\ k + 1 \in 1..(n + 1) /\ 1 \in 1..(n + 1)
        BY <1>1
      <4> QED
        BY <1>3, <4>1
    <3> DEFINE b == S[i + k]
               c == S[k + 1]
    <3>4. L[i] = b /\ L[1] = c /\ b \in Nat /\ c \in Nat /\ a \in Nat /\ i \in Nat
      BY <1>1, <3>1, <3>3
    <3>5. rs[i + k].pos = pos + ((i + k) - 1) + (b - a)
      BY <3>2, <3>3
    <3> HIDE DEF b, c
    <3>6. /\ seq + ((i + k) - 1) = (seq + k) + (i - 1)
          /\ pos + ((i + k) - 1) + (b - a) = (pos + k + (c - a)) + (i - 1) + (b - c)
      BY <1>1, <3>4
    <3>7. later[i].pos = (pos + k + (c - a)) + (i - 1) + (L[i] - L[1])
      BY <3>1, <3>4, <3>5, <3>6
    <3>8. later[i].key = key /\ later[i].seq = (seq + k) + (i - 1)
      BY <3>1, <3>2, <3>6
    <3> QED
      BY <3>7, <3>8 DEF c
  <2> QED
    BY <1>2, <2>1 DEF Chained
<1>9. Len(later) = n - k /\ \A i \in 1..Len(later) : later[i] = rs[i + k]
  BY <1>2
<1> QED
  BY <1>2, <1>7, <1>8, <1>9 DEF later, L, n

\* A stream and the one that follows on from it.
Joint(S, T, n, m) == [i \in 1..(n + m + 1) |-> IF i <= n THEN S[i] ELSE T[i - n]]

\* Streams that follow on from each other are one.
LEMMA StreamJoins ==
  ASSUME NEW rs \in Seq(RecordType), NEW S, NEW a, NEW z, Carries(rs, S, a, z),
         NEW qs \in Seq(RecordType), NEW T, NEW y, Carries(qs, T, z, y)
  PROVE  LET all == rs \o qs
             J == Joint(S, T, Len(rs), Len(qs))
         IN /\ all \in Seq(RecordType) /\ Len(all) = Len(rs) + Len(qs)
            /\ Carries(all, J, a, y)
            /\ \A key : \A seq, pos \in Nat :
                 Chained(rs, S, key, seq, pos)
                   /\ Chained(qs, T, key, seq + Len(rs), pos + Len(rs) + (z - a)) =>
                 Chained(all, J, key, seq, pos)
<1> DEFINE n == Len(rs)
           m == Len(qs)
           all == rs \o qs
           J == Joint(S, T, n, m)
<1>1. n \in Nat /\ m \in Nat /\ n + m \in Nat
  OBVIOUS
<1>2. /\ all \in Seq(RecordType) /\ Len(all) = n + m
      /\ \A i \in 1..n : all[i] = rs[i]
      /\ \A i \in 1..(n + m) : i > n => all[i] = qs[i - n]
  BY Joined, Zenon
<1>3. /\ S \in [1..(n + 1) -> Nat] /\ S[1] = a /\ S[n + 1] = z
      /\ \A i \in 1..n : S[i] <= S[i + 1] /\ rs[i].body = Slice(S[i], S[i + 1] - S[i])
  BY DEF Carries
<1>4. /\ T \in [1..(m + 1) -> Nat] /\ T[1] = z /\ T[m + 1] = y
      /\ \A i \in 1..m : T[i] <= T[i + 1] /\ qs[i].body = Slice(T[i], T[i + 1] - T[i])
  BY DEF Carries
<1> HIDE DEF n, m, all
<1>5. ASSUME NEW i \in 1..(n + 1)
      PROVE  i \in 1..(n + m + 1) /\ J[i] = S[i] /\ S[i] \in Nat
  <2>1. i \in 1..(n + m + 1) /\ (i <= n \/ i = n + 1) /\ (n + 1) - n = 1 /\ ~(n + 1 <= n)
    BY <1>1
  <2> QED
    BY <1>3, <1>4, <2>1 DEF Joint
<1>6. ASSUME NEW i \in 1..(m + 1)
      PROVE  i + n \in 1..(n + m + 1) /\ J[i + n] = T[i] /\ T[i] \in Nat
  <2>1. i + n \in 1..(n + m + 1) /\ (i + n) - n = i /\ ~(i + n <= n)
    BY <1>1
  <2> QED
    BY <1>4, <2>1 DEF Joint
<1>7. J \in [1..((n + m) + 1) -> Nat]
  <2>1. ASSUME NEW i \in 1..(n + m + 1)
        PROVE  J[i] \in Nat
    <3>1. i \in 1..(n + 1) \/ (i - n \in 1..(m + 1) /\ (i - n) + n = i)
      BY <1>1
    <3> QED
      BY <1>5, <1>6, <3>1
  <2>2. J = [i \in 1..(n + m + 1) |-> J[i]] /\ n + m + 1 = (n + m) + 1
    BY DEF Joint
  <2> HIDE DEF J
  <2> QED
    BY <2>1, <2>2
<1> HIDE DEF J
<1>8. J[1] = a /\ J[(n + m) + 1] = y
  <2>1. 1 \in 1..(n + 1) /\ m + 1 \in 1..(m + 1) /\ (m + 1) + n = (n + m) + 1
    BY <1>1
  <2> QED
    BY <1>3, <1>4, <1>5, <1>6, <2>1
<1>9. ASSUME NEW i \in 1..(n + m)
      PROVE  J[i] <= J[i + 1] /\ all[i].body = Slice(J[i], J[i + 1] - J[i])
  <2>1. CASE i <= n
    <3>1. i \in 1..n /\ i \in 1..(n + 1) /\ i + 1 \in 1..(n + 1)
      BY <1>1, <2>1
    <3>2. J[i] = S[i] /\ J[i + 1] = S[i + 1] /\ all[i] = rs[i]
      BY <1>2, <1>5, <3>1
    <3> QED
      BY <1>3, <3>1, <3>2
  <2>2. CASE ~(i <= n)
    <3> DEFINE j == i - n
    <3>1. j \in 1..m /\ j \in 1..(m + 1) /\ j + 1 \in 1..(m + 1) /\ j + n = i /\ (j + 1) + n = i + 1 /\ i > n
      BY <1>1, <2>2
    <3>2. all[i] = qs[j]
      BY <1>2, <3>1
    <3> HIDE DEF j
    <3>3. J[i] = T[j] /\ J[i + 1] = T[j + 1]
      BY <1>6, <3>1
    <3> QED
      BY <1>4, <3>1, <3>2, <3>3
  <2> QED
    BY <2>1, <2>2
<1>10. Carries(all, J, a, y)
  BY <1>2, <1>7, <1>8, <1>9 DEF Carries
<1>11. ASSUME NEW key, NEW seq \in Nat, NEW pos \in Nat, Chained(rs, S, key, seq, pos),
              Chained(qs, T, key, seq + n, pos + n + (z - a))
       PROVE  Chained(all, J, key, seq, pos)
  <2>1. ASSUME NEW i \in 1..(n + m)
        PROVE  /\ all[i].key = key /\ all[i].seq = seq + (i - 1)
               /\ all[i].pos = pos + (i - 1) + (J[i] - J[1])
    <3>1. CASE i <= n
      <4>1. i \in 1..n /\ i \in 1..(n + 1)
        BY <1>1, <3>1
      <4>2. J[i] = S[i] /\ all[i] = rs[i]
        BY <1>2, <1>5, <4>1
      <4>3. rs[i].key = key /\ rs[i].seq = seq + (i - 1) /\ rs[i].pos = pos + (i - 1) + (S[i] - S[1])
        BY <1>11, <4>1 DEF Chained, n
      <4> QED
        BY <1>3, <1>8, <4>2, <4>3
    <3>2. CASE ~(i <= n)
      <4> DEFINE j == i - n
      <4>1. j \in 1..m /\ j \in 1..(m + 1) /\ j + n = i /\ i > n /\ j \in Nat
        BY <1>1, <3>2
      <4>2. all[i] = qs[j]
        BY <1>2, <4>1
      <4> HIDE DEF j
      <4>3. J[i] = T[j] /\ T[j] \in Nat
        BY <1>6, <4>1
      <4>4. /\ qs[j].key = key /\ qs[j].seq = (seq + n) + (j - 1)
            /\ qs[j].pos = (pos + n + (z - a)) + (j - 1) + (T[j] - T[1])
        BY <1>11, <4>1 DEF Chained, m
      <4>5. T[1] = z /\ z \in Nat /\ a \in Nat
        <5>1. 1 \in 1..(m + 1) /\ 1 \in 1..(n + 1)
          BY <1>1
        <5> QED
          BY <1>3, <1>4, <5>1
      <4>6. /\ (seq + n) + (j - 1) = seq + (i - 1)
            /\ (pos + n + (z - a)) + (j - 1) + (T[j] - z) = pos + (i - 1) + (T[j] - a)
        <5> DEFINE t == T[j]
        <5>1. t \in Nat /\ n \in Nat /\ j \in Nat /\ j + n = i
          BY <1>1, <4>1, <4>3
        <5> HIDE DEF t
        <5>2. /\ (seq + n) + (j - 1) = seq + (i - 1)
              /\ (pos + n + (z - a)) + (j - 1) + (t - z) = pos + (i - 1) + (t - a)
          BY <4>5, <5>1
        <5> QED
          BY <5>2 DEF t
      <4>7. all[i].key = key /\ all[i].seq = seq + (i - 1)
        BY <4>2, <4>4, <4>6
      <4>8. all[i].pos = pos + (i - 1) + (T[j] - a)
        BY <4>2, <4>4, <4>5, <4>6
      <4> QED
        BY <1>8, <4>3, <4>7, <4>8
    <3> QED
      BY <3>1, <3>2
  <2> QED
    BY <1>2, <2>1 DEF Chained
<1> QED
  BY <1>2, <1>10, <1>11 DEF all, J, n, m

-----------------------------------------------------------------------------
(* The records of a chunk *)

\* What the socket is when it has read k records of the stream: what they carry
\* is pushed and, if they are enciphered, they are counted.
HasRead(w, d, S, a, k) ==
  /\ d \in WorkType /\ d.out = w.out /\ d.pushed = Slice(a, S[k + 1] - a)
  /\ SameMode(w.srv, d.srv) /\ SameBuffer(w.srv, d.srv) /\ SameWriting(w.srv, d.srv)
  /\ d.srv.state = w.srv.state
  /\ w.srv.mode # "ssl2" => SameReading(w.srv, d.srv)
  /\ w.srv.mode = "ssl2" => /\ d.srv.readSeq = w.srv.readSeq + k
                            /\ d.srv.readPos = w.srv.readPos + k + (S[k + 1] - a)

\* One more record of a stream is read, ...
LEMMA StreamStep ==
  ASSUME NEW w \in WorkType, NEW rs \in Seq(RecordType), NEW S, NEW a, NEW z,
         Carries(rs, S, a, z), NEW k \in 1..Len(rs),
         \/ w.srv.mode \notin {"dead", "ssl2"}
         \/ /\ w.srv.mode = "ssl2" /\ w.srv.state = "ESTABLISHED"
            /\ Chained(rs, S, "c2s", w.srv.readSeq, w.srv.readPos),
         NEW e, HasRead(w, e, S, a, k - 1)
  PROVE  HasRead(w, HandleRecord(e, rs[k]), S, a, k)
<1> DEFINE r == rs[k]
           d == HandleRecord(e, r)
           s == S[k]
           t == S[k + 1]
<1>1. r \in RecordType /\ e \in WorkType /\ k \in Nat /\ k - 1 \in Nat /\ (k - 1) + 1 = k
  BY DEF HasRead
<1>2. /\ a \in Nat /\ s \in Nat /\ t \in Nat /\ a <= s /\ s <= t /\ S[1] = a
      /\ r.body = Slice(s, t - s)
  <2>1. k \in 1..(Len(rs) + 1) /\ k + 1 \in 1..(Len(rs) + 1)
    OBVIOUS
  <2>2. a \in Nat /\ s \in Nat /\ t \in Nat /\ a <= s
    BY <2>1, StreamGrows
  <2> QED
    BY <2>2 DEF Carries
<1> HIDE DEF r, s, t
<1>3. e.pushed \o r.body = Slice(a, t - a) /\ Len(r.body) = t - s
  <2>1. a + (s - a) = s /\ s - a \in Nat /\ t - s \in Nat /\ (s - a) + (t - s) = t - a
    BY <1>2
  <2>2. e.pushed = Slice(a, s - a)
    BY <1>1 DEF HasRead, s
  <2>3. Slice(a, s - a) \o Slice(a + (s - a), t - s) = Slice(a, (s - a) + (t - s))
    BY ONLY <1>2, <2>1, SliceJoin, ZenonT(30)
  <2>4. Len(Slice(s, t - s)) = t - s
    BY <1>2, <2>1, SliceType, Zenon
  <2> QED
    BY <1>2, <2>1, <2>2, <2>3, <2>4
<1>4. /\ SameMode(w.srv, e.srv) /\ SameBuffer(w.srv, e.srv) /\ SameWriting(w.srv, e.srv)
      /\ e.srv.state = w.srv.state /\ e.out = w.out
  BY DEF HasRead
<1>5. CASE w.srv.mode \notin {"dead", "ssl2"}
  <2>1. e.srv.mode \notin {"dead", "ssl2"} /\ SameReading(w.srv, e.srv)
    BY <1>4, <1>5 DEF SameMode, HasRead
  <2>2. d \in WorkType /\ d.srv = e.srv /\ d.out = e.out /\ d.pushed = e.pushed \o r.body
    BY <1>1, <2>1, PlainRecord
  <2> HIDE DEF d
  <2>3. HasRead(w, d, S, a, k)
    BY <1>3, <1>4, <1>5, <2>1, <2>2
       DEF HasRead, t, SameMode, SameBuffer, SameReading, SameWriting
  <2> QED
    BY <2>3 DEF d, r
<1>6. CASE /\ w.srv.mode = "ssl2" /\ w.srv.state = "ESTABLISHED"
           /\ Chained(rs, S, "c2s", w.srv.readSeq, w.srv.readPos)
  <2>1. e.srv.mode = "ssl2" /\ e.srv.state = "ESTABLISHED"
    BY <1>4, <1>6 DEF SameMode
  <2>2. /\ e.srv.readSeq = w.srv.readSeq + (k - 1)
        /\ e.srv.readPos = w.srv.readPos + (k - 1) + (s - a)
    BY <1>1, <1>6 DEF HasRead, s
  <2>3. Verifies(e, r)
    <3>1. /\ r.key = "c2s" /\ r.seq = w.srv.readSeq + (k - 1)
          /\ r.pos = w.srv.readPos + (k - 1) + (s - a)
      BY <1>2, <1>6 DEF Chained, r, s
    <3> QED
      BY <2>2, <3>1 DEF Verifies
  <2>4. /\ d \in WorkType /\ d.srv.readSeq = e.srv.readSeq + 1
        /\ d.srv.readPos = e.srv.readPos + 1 + Len(r.body)
        /\ d.srv.state = "ESTABLISHED" /\ SameWriting(e.srv, d.srv)
        /\ SameMode(e.srv, d.srv) /\ SameBuffer(e.srv, d.srv)
        /\ d.out = e.out /\ d.pushed = e.pushed \o r.body
    BY <1>1, <2>1, <2>3, ApplicationRecord
  <2> HIDE DEF d
  <2>5. d.srv.readSeq = w.srv.readSeq + k /\ d.srv.readPos = w.srv.readPos + k + (t - a)
    <3> DEFINE p == w.srv.readPos
               q == w.srv.readSeq
    <3>1. q \in Nat /\ p \in Nat
      BY DEF WorkType, SrvType
    <3>2. d.srv.readSeq = (q + (k - 1)) + 1 /\ d.srv.readPos = (p + (k - 1) + (s - a)) + 1 + (t - s)
      BY <1>3, <2>2, <2>4
    <3> HIDE DEF p, q
    <3>3. (q + (k - 1)) + 1 = q + k /\ (p + (k - 1) + (s - a)) + 1 + (t - s) = p + k + (t - a)
      BY <1>1, <1>2, <3>1
    <3> QED
      BY <3>2, <3>3 DEF p, q
  <2>6. /\ SameMode(w.srv, d.srv) /\ SameBuffer(w.srv, d.srv) /\ SameWriting(w.srv, d.srv)
        /\ d.srv.state = w.srv.state /\ d.out = w.out
    BY <1>4, <1>6, <2>4 DEF SameMode, SameBuffer, SameWriting
  <2>7. HasRead(w, d, S, a, k)
    BY <1>3, <1>6, <2>4, <2>5, <2>6 DEF HasRead, t
  <2> QED
    BY <2>7 DEF d, r
<1> QED
  BY <1>5, <1>6

\* ... and so are the first k of them: what they carry is pushed, in order.
LEMMA StreamRead ==
  ASSUME NEW w \in WorkType, w.pushed = <<>>,
         NEW rs \in Seq(RecordType), NEW S, NEW a, NEW z,
         Carries(rs, S, a, z), NEW k \in 0..Len(rs),
         \/ w.srv.mode \notin {"dead", "ssl2"}
         \/ /\ w.srv.mode = "ssl2" /\ w.srv.state = "ESTABLISHED"
            /\ Chained(rs, S, "c2s", w.srv.readSeq, w.srv.readPos)
  PROVE  HasRead(w, ReadRecords(w, rs, k), S, a, k)
<1>1. PICK f : Runs(f, w, rs, k) /\ ReadRecords(w, rs, k) = f[k]
  BY ReadRecordsRuns
<1> DEFINE P == {i \in 0..k : HasRead(w, f[i], S, a, i)}
<1>2. 0 \in P
  <2>1. f[0] = w
    BY <1>1 DEF Runs
  <2>2. S[0 + 1] = a /\ a - a = 0 /\ a \in Nat
    BY StreamGrows DEF Carries
  <2>3. Slice(a, 0) = <<>>
    <3>1. Slice(a, 0) \in Seq(Unit) /\ Len(Slice(a, 0)) = 0
      BY <2>2, SliceType, Zenon
    <3> QED
      BY <3>1
  <2>4. w.srv.readSeq \in Nat /\ w.srv.readPos \in Nat
    BY DEF WorkType, SrvType
  <2>5. w.srv.readSeq = w.srv.readSeq + 0 /\ w.srv.readPos = w.srv.readPos + 0 + (a - a)
    BY <2>2, <2>4
  <2>6. HasRead(w, w, S, a, 0)
    BY <2>2, <2>3, <2>5 DEF HasRead, SameMode, SameBuffer, SameReading, SameWriting
  <2> QED
    BY <2>1, <2>6
<1>3. ASSUME NEW i \in 1..k, i - 1 \in P
      PROVE  i \in P
  <2>1. i \in 0..k /\ i \in 1..Len(rs) /\ f[i] = HandleRecord(f[i - 1], rs[i])
    BY <1>1 DEF Runs
  <2>2. HasRead(w, f[i - 1], S, a, i - 1)
    BY <1>3
  <2>3. HasRead(w, HandleRecord(f[i - 1], rs[i]), S, a, i)
    BY <2>1, <2>2, StreamStep
  <2> QED
    BY <2>1, <2>3
<1>4. k \in P
  <2> HIDE DEF P
  <2>1. k \in Nat
    OBVIOUS
  <2>2. \A i \in 0..k : i \in P
    BY <1>2, <1>3, <2>1, UpTo
  <2> QED
    BY <2>1, <2>2
<1> QED
  BY <1>1, <1>4

\* One record, in the handshake.
LEMMA OneRecord ==
  ASSUME NEW w \in WorkType, NEW rs \in Seq(RecordType)
  PROVE  /\ ReadRecords(w, rs, 0) = w
         /\ Len(rs) = 1 => ReadRecords(w, rs, 1) = HandleRecord(w, rs[1])
<1>1. ASSUME NEW k \in 0..Len(rs)
      PROVE  \E f : Runs(f, w, rs, k) /\ ReadRecords(w, rs, k) = f[k]
  BY ReadRecordsRuns
<1>2. 0 \in 0..Len(rs) /\ (Len(rs) = 1 => 1 \in 0..Len(rs) /\ 1 - 1 = 0 /\ 1 \in 1..1)
  OBVIOUS
<1> QED
  BY <1>1, <1>2 DEF Runs

-----------------------------------------------------------------------------
(* The records of an answer *)

\* Where the pieces of n units that begin at a are cut.
Cuts(a, n, number) ==
  [i \in 1..(number + 1) |-> a + IF (i - 1) * MaxRecord < n THEN (i - 1) * MaxRecord ELSE n]

\* The sequence p is cut into these pieces.
CutInto(p, T, a, z) ==
  /\ T \in [1..(Len(p) + 1) -> Nat] /\ T[1] = a /\ T[Len(p) + 1] = z
  /\ \A i \in 1..Len(p) : T[i] <= T[i + 1] /\ p[i] = Slice(T[i], T[i + 1] - T[i])

\* The pieces of a payload follow on from each other and leave nothing out.
LEMMA PiecesCut ==
  ASSUME NEW a \in Nat, NEW n \in Nat
  PROVE  LET p == Pieces(Slice(a, n)) IN
         p \in Seq(Seq(Unit)) /\ CutInto(p, Cuts(a, n, Len(p)), a, a + n)
<1> DEFINE M == MaxRecord
           s == Slice(a, n)
           N == (n + M - 1) \div M
           p == Pieces(s)
           T == Cuts(a, n, N)
           C(i) == IF i * M < n THEN i * M ELSE n
<1>1. M \in Nat \ {0}
  BY TransportAssumption
<1>2. s \in Seq(Unit) /\ Len(s) = n
  BY SliceType, Zenon
<1>3. N \in Nat /\ n <= N * M /\ N * M < n + M
  <2>1. n + M - 1 \in Nat
    BY <1>1
  <2> HIDE DEF M
  <2>2. /\ N \in Nat /\ (n + M - 1) % M \in 0..(M - 1)
        /\ n + M - 1 = (N * M) + ((n + M - 1) % M)
    BY <1>1, <2>1, DivIs
  <2> DEFINE x == N * M
             y == (n + M - 1) % M
  <2>3. x \in Nat
    BY <1>1, <2>2
  <2> HIDE DEF x, y
  <2>4. n <= x /\ x < n + M
    BY <1>1, <2>2, <2>3 DEF x, y
  <2> QED
    BY <2>2, <2>4 DEF x
<1> HIDE DEF N, M, s
<1>4. ASSUME NEW i \in 1..N
      PROVE  /\ (i - 1) * M \in Nat /\ i * M = (i - 1) * M + M
             /\ (i - 1) * M < n
  <2>1. (i - 1) * M \in Nat /\ i * M = (i - 1) * M + M
    BY <1>1
  <2>2. N - i \in Nat
    BY <1>3
  <2>3. (N - i) * M \in Nat
    BY <1>1, <2>2
  <2>4. (N - i) * M = N * M - i * M /\ N * M \in Nat /\ i * M \in Nat
    BY <1>1, <1>3
  <2> QED
    BY <1>1, <1>3, <2>1, <2>3, <2>4
<1>5. Pieces(s) = [k \in 1..N |-> SubSeq(s, (k - 1) * M + 1, C(k))]
  BY <1>2 DEF Pieces, N, M
<1>6. ASSUME NEW i \in 0..N
      PROVE  C(i) \in Nat /\ C(i) <= n
  <2>1. i * M \in Nat
    BY <1>1
  <2> QED
    BY <2>1
<1>7. ASSUME NEW i \in 1..N
      PROVE  /\ C(i - 1) = (i - 1) * M /\ C(i - 1) <= C(i)
             /\ SubSeq(s, (i - 1) * M + 1, C(i)) = Slice(a + C(i - 1), C(i) - C(i - 1))
  <2> DEFINE x == (i - 1) * M
             y == C(i)
  <2>1. x \in Nat /\ x < n /\ y = (IF x + M < n THEN x + M ELSE n)
    BY <1>4
  <2>2. C(i - 1) = x
    BY <2>1
  <2> HIDE DEF x, y
  <2>3. y \in Nat /\ x <= y /\ y <= n
    BY <1>1, <2>1
  <2>4. SubSeq(Slice(a, n), x + 1, y) = Slice(a + x, y - x)
    <3> DEFINE b == x + 1
    <3>1. b \in Nat \ {0} /\ b <= y + 1 /\ b - 1 = x
      BY <2>1, <2>3
    <3> HIDE DEF b
    <3>2. Parted(a, n, b, y)
      BY <2>3, <3>1, SlicePart
    <3> QED
      BY <3>1, <3>2 DEF Parted, b
  <2> HIDE DEF C
  <2> QED
    BY <2>2, <2>3, <2>4 DEF x, y, s
<1>8. /\ T \in [1..(N + 1) -> Nat]
      /\ \A i \in 0..N : T[i + 1] = a + C(i)
  <2>1. ASSUME NEW i \in 1..(N + 1)
        PROVE  T[i] = a + C(i - 1) /\ a + C(i - 1) \in Nat
    <3>1. i - 1 \in 0..N
      BY <1>3
    <3>2. C(i - 1) \in Nat
      BY <1>6, <3>1
    <3>3. T[i] = a + C(i - 1)
      BY DEF Cuts, M
    <3> HIDE DEF C
    <3> QED
      BY <3>2, <3>3
  <2>2. T = [i \in 1..(N + 1) |-> T[i]]
    BY DEF Cuts
  <2>3. \A i \in 0..N : i + 1 \in 1..(N + 1) /\ (i + 1) - 1 = i
    BY <1>3
  <2> HIDE DEF T, C
  <2> QED
    BY <2>1, <2>2, <2>3
<1> HIDE DEF T
<1>9. T[1] = a /\ T[N + 1] = a + n
  <2>1. C(0) = 0
    <3>1. 0 * M = 0
      BY <1>1
    <3> QED
      BY <3>1
  <2>2. C(N) = n
    <3>1. N * M \in Nat
      BY <1>1, <1>3
    <3> QED
      BY <1>3, <3>1
  <2>3. 0 \in 0..N /\ N \in 0..N /\ 0 + 1 = 1 /\ a + 0 = a
    BY <1>3
  <2> HIDE DEF C
  <2> QED
    BY <1>8, <2>1, <2>2, <2>3
<1> HIDE DEF C
<1>10. p \in Seq(Seq(Unit)) /\ Len(p) = N
  <2>1. ASSUME NEW i \in 1..N
        PROVE  SubSeq(s, (i - 1) * M + 1, C(i)) \in Seq(Unit)
    <3>1. i \in 0..N /\ i - 1 \in 0..N
      BY <1>3
    <3>2. a + C(i - 1) \in Nat /\ C(i) - C(i - 1) \in Nat
      BY <1>6, <1>7, <3>1
    <3> QED
      <4>1. Slice(a + C(i - 1), C(i) - C(i - 1)) \in Seq(Unit)
        <5> HIDE DEF C
        <5> QED
          BY <3>2, SliceType, Zenon
      <4> QED
        BY <1>7, <4>1
  <2>2. [k \in 1..N |-> SubSeq(s, (k - 1) * M + 1, C(k))] \in [1..N -> Seq(Unit)]
    BY <2>1
  <2> QED
    BY <1>3, <1>5, <2>2
<1>11. ASSUME NEW i \in 1..N
       PROVE  T[i] <= T[i + 1] /\ p[i] = Slice(T[i], T[i + 1] - T[i])
  <2>1. i - 1 \in 0..N /\ i \in 0..N /\ (i - 1) + 1 = i
    BY <1>3
  <2>2. T[i] = a + C(i - 1) /\ T[i + 1] = a + C(i)
    BY <1>8, <2>1
  <2>3. C(i - 1) \in Nat /\ C(i) \in Nat /\ C(i - 1) <= C(i)
    BY <1>6, <1>7, <2>1
  <2>4. p[i] = Slice(a + C(i - 1), C(i) - C(i - 1))
    BY <1>5, <1>7
  <2>5. T[i + 1] - T[i] = C(i) - C(i - 1) /\ T[i] <= T[i + 1]
    BY <2>2, <2>3
  <2> QED
    BY <2>2, <2>4, <2>5
<1> HIDE DEF p
<1> QED
  BY <1>8, <1>9, <1>10, <1>11 DEF CutInto, T, p, s

\* What the socket is when it has written the first i pieces, cut at T.
HasWritten(w, d, p, T, a, i) ==
  /\ d \in WorkType /\ Len(d.out) = i /\ d.pushed = w.pushed
  /\ SameMode(w.srv, d.srv) /\ SameBuffer(w.srv, d.srv) /\ SameReading(w.srv, d.srv)
  /\ d.srv.state = w.srv.state
  /\ d.srv.writeSeq = w.srv.writeSeq + i
  /\ d.srv.writePos = w.srv.writePos + i + (T[i + 1] - a)
  /\ \A x \in 1..i : d.out[x] = Record("application", p[x], "s2c", w.srv.writeSeq + (x - 1),
                                       w.srv.writePos + (x - 1) + (T[x] - a))

\* One more piece is written, ...
LEMMA WriteStep ==
  ASSUME NEW w \in WorkType, NEW p \in Seq(Seq(Unit)), NEW T, NEW a, NEW z, CutInto(p, T, a, z),
         NEW i \in 1..Len(p), NEW e, HasWritten(w, e, p, T, a, i - 1)
  PROVE  HasWritten(w, WriteRecord(e, "application", p[i]), p, T, a, i)
<1> DEFINE d == WriteRecord(e, "application", p[i])
           s == T[i]
           t == T[i + 1]
           q == w.srv.writePos
           n == w.srv.writeSeq
           r == Record("application", p[i], "s2c", e.srv.writeSeq, e.srv.writePos)
<1>1. /\ i \in Nat /\ i - 1 \in Nat /\ (i - 1) + 1 = i
      /\ n \in Nat /\ q \in Nat /\ e \in WorkType /\ p[i] \in Seq(Unit)
      /\ "application" \in RecordKind
  <2>1. i \in Nat /\ i - 1 \in Nat /\ (i - 1) + 1 = i /\ p[i] \in Seq(Unit)
    OBVIOUS
  <2>2. n \in Nat /\ q \in Nat
    BY DEF WorkType, SrvType
  <2>3. e \in WorkType /\ "application" \in RecordKind
    BY DEF HasWritten, RecordKind
  <2> QED
    BY <2>1, <2>2, <2>3
<1>2. /\ s \in Nat /\ t \in Nat /\ s <= t /\ p[i] = Slice(s, t - s) /\ a \in Nat
  <2>1. i \in 1..(Len(p) + 1) /\ i + 1 \in 1..(Len(p) + 1) /\ 1 \in 1..(Len(p) + 1)
    OBVIOUS
  <2> QED
    BY <2>1 DEF CutInto
<1>3. Len(p[i]) = t - s
  <2>1. t - s \in Nat
    BY <1>2
  <2> HIDE DEF s, t
  <2>2. Len(Slice(s, t - s)) = t - s
    BY <1>2, <2>1, SliceType, Zenon
  <2> QED
    BY <1>2, <2>2
<1>4. /\ d \in WorkType
      /\ d.srv.writeSeq = e.srv.writeSeq + 1
      /\ d.srv.writePos = e.srv.writePos + 1 + Len(p[i])
      /\ SameReading(e.srv, d.srv) /\ SameMode(e.srv, d.srv) /\ SameBuffer(e.srv, d.srv)
      /\ d.srv.state = e.srv.state /\ d.pushed = e.pushed
      /\ d.out = Append(e.out, r)
  BY <1>1, WritingRecord
<1>5. /\ Len(e.out) = i - 1 /\ e.pushed = w.pushed
      /\ SameMode(w.srv, e.srv) /\ SameBuffer(w.srv, e.srv) /\ SameReading(w.srv, e.srv)
      /\ e.srv.state = w.srv.state
      /\ e.srv.writeSeq = n + (i - 1) /\ e.srv.writePos = q + (i - 1) + (s - a)
  BY <1>1 DEF HasWritten
<1>6. \A x \in 1..(i - 1) : e.out[x] = Record("application", p[x], "s2c", n + (x - 1),
                                              q + (x - 1) + (T[x] - a))
  BY DEF HasWritten
<1> HIDE DEF d, s, t, q, n
<1>7. (n + (i - 1)) + 1 = n + i /\ (q + (i - 1) + (s - a)) + 1 + (t - s) = q + i + (t - a)
  BY <1>1, <1>2
<1>8. d.srv.writeSeq = n + i /\ d.srv.writePos = q + i + (t - a)
  BY <1>3, <1>4, <1>5, <1>7
<1>9. r = Record("application", p[i], "s2c", n + (i - 1), q + (i - 1) + (s - a))
  BY <1>5
<1>10. e.out \in Seq(RecordType) /\ r \in RecordType
  <2>1. e.srv.writeSeq \in Nat /\ e.srv.writePos \in Nat /\ e.out \in Seq(RecordType)
    BY <1>1 DEF WorkType, SrvType
  <2> QED
    BY <1>1, <2>1, RecordTypes
<1> HIDE DEF r
<1>11. /\ Len(d.out) = i /\ \A x \in 1..(i - 1) : d.out[x] = e.out[x]
       /\ d.out[i] = r
  <2>1. /\ Len(d.out) = Len(e.out) + 1 /\ d.out[Len(e.out) + 1] = r
        /\ \A x \in 1..Len(e.out) : d.out[x] = e.out[x]
    BY <1>4, <1>10, AppendProperties
  <2> QED
    BY <1>1, <1>5, <2>1
<1>12. ASSUME NEW x \in 1..i
       PROVE  d.out[x] = Record("application", p[x], "s2c", n + (x - 1), q + (x - 1) + (T[x] - a))
  <2>1. CASE x = i
    BY <1>9, <1>11, <2>1 DEF s
  <2>2. CASE x # i
    <3>1. x \in 1..(i - 1)
      BY <1>1, <2>2
    <3> QED
      BY <1>6, <1>11, <3>1
  <2> QED
    BY <2>1, <2>2
<1>13. /\ SameMode(w.srv, d.srv) /\ SameBuffer(w.srv, d.srv) /\ SameReading(w.srv, d.srv)
       /\ d.srv.state = w.srv.state /\ d.pushed = w.pushed
  BY <1>4, <1>5 DEF SameMode, SameBuffer, SameReading
<1>14. HasWritten(w, d, p, T, a, i)
  BY <1>4, <1>8, <1>11, <1>12, <1>13 DEF HasWritten, n, q, t
<1> QED
  BY <1>14 DEF d

\* f[i] is what the socket is after i pieces.
Writes(f, w, p) ==
  f = [i \in 0..Len(p) |-> IF i = 0 THEN w ELSE WriteRecord(f[i - 1], "application", p[i])]

\* ... turn by turn, ...
LEMMA WriteRecordsRuns ==
  ASSUME NEW w \in WorkType, NEW p \in Seq(Seq(Unit))
  PROVE  \E f : /\ f[0] = w /\ WriteRecords(w, p) = f[Len(p)]
                /\ \A i \in 1..Len(p) : f[i] = WriteRecord(f[i - 1], "application", p[i])
<1> DEFINE n == Len(p)
           G == [i \in 1..n |-> [v \in WorkType |-> WriteRecord(v, "application", p[i])]]
<1>1. n \in Nat
  OBVIOUS
<1>2. ASSUME NEW i \in 1..n, NEW v \in WorkType
      PROVE  WriteRecord(v, "application", p[i]) \in WorkType
  <2>1. p[i] \in Seq(Unit) /\ "application" \in RecordKind
    BY DEF RecordKind
  <2> QED
    BY <2>1, WritingRecord
<1> HIDE DEF n
<1>3. G \in [1..n -> [WorkType -> WorkType]]
  BY <1>2
<1>4. PICK g \in [0..n -> WorkType] : Iterates(g, n, w, G)
  <2> HIDE DEF G
  <2> QED
    BY <1>1, <1>3, Recursion
<1>5. ASSUME NEW i \in 0..n
      PROVE  g[i] = IF i = 0 THEN w ELSE WriteRecord(g[i - 1], "application", p[i])
  <2>1. CASE i = 0
    BY <1>4, <2>1 DEF Iterates
  <2>2. CASE i # 0
    <3>1. i \in 1..n /\ i - 1 \in 0..n
      BY <1>1, <2>2
    <3>2. g[i - 1] \in WorkType
      BY <1>4, <3>1
    <3> QED
      BY <1>4, <2>2, <3>1, <3>2 DEF Iterates
  <2> QED
    BY <2>1, <2>2
<1> HIDE DEF G
<1>6. Writes(g, w, p)
  <2> DEFINE e == [i \in 0..n |-> IF i = 0 THEN w ELSE WriteRecord(g[i - 1], "application", p[i])]
  <2>1. g = [i \in 0..n |-> g[i]] /\ e = [i \in 0..n |-> e[i]] /\ \A i \in 0..n : g[i] = e[i]
    BY <1>4, <1>5
  <2>2. g = e
    <3> HIDE DEF e
    <3> QED
      BY <2>1
  <2> QED
    BY <2>2 DEF Writes, n
<1> DEFINE f == CHOOSE h : Writes(h, w, p)
<1>7. WriteRecords(w, p) = f[n]
  BY Zenon DEF WriteRecords, Writes, n
<1>8. Writes(f, w, p)
  BY <1>6
<1> HIDE DEF f
<1>9. f[0] = w /\ \A i \in 1..n : f[i] = WriteRecord(f[i - 1], "application", p[i])
  <2>1. 0 \in 0..n /\ \A i \in 1..n : i \in 0..n /\ i # 0
    BY <1>1
  <2> QED
    BY <1>8, <2>1 DEF Writes, n
<1> QED
  BY <1>7, <1>9 DEF n

\* ... until all of them are.
LEMMA WriteRecordsIs ==
  ASSUME NEW w \in WorkType, w.out = <<>>, NEW p \in Seq(Seq(Unit)), NEW T, NEW a, NEW z,
         CutInto(p, T, a, z)
  PROVE  HasWritten(w, WriteRecords(w, p), p, T, a, Len(p))
<1>1. PICK f : /\ f[0] = w /\ WriteRecords(w, p) = f[Len(p)]
               /\ \A i \in 1..Len(p) : f[i] = WriteRecord(f[i - 1], "application", p[i])
  BY WriteRecordsRuns
<1> DEFINE n == Len(p)
           P == {i \in 0..n : HasWritten(w, f[i], p, T, a, i)}
<1>2. n \in Nat
  OBVIOUS
<1>3. 0 \in P
  <2>1. T[1] = a /\ a \in Nat
    <3>1. 1 \in 1..(Len(p) + 1)
      OBVIOUS
    <3> QED
      BY <3>1 DEF CutInto
  <2>2. w.srv.writeSeq \in Nat /\ w.srv.writePos \in Nat
    BY DEF WorkType, SrvType
  <2>3. /\ w.srv.writeSeq = w.srv.writeSeq + 0 /\ T[0 + 1] = a
        /\ w.srv.writePos = w.srv.writePos + 0 + (a - a)
    BY <2>1, <2>2
  <2>4. Len(w.out) = 0 /\ \A x \in 1..0 : FALSE
    OBVIOUS
  <2>5. HasWritten(w, w, p, T, a, 0)
    BY <2>3, <2>4 DEF HasWritten, SameMode, SameBuffer, SameReading
  <2> QED
    BY <1>1, <1>2, <2>5
<1>4. ASSUME NEW i \in 1..n, i - 1 \in P
      PROVE  i \in P
  <2>1. i \in 0..n /\ f[i] = WriteRecord(f[i - 1], "application", p[i])
    BY <1>1, <1>2
  <2>2. HasWritten(w, f[i - 1], p, T, a, i - 1)
    BY <1>4
  <2>3. HasWritten(w, WriteRecord(f[i - 1], "application", p[i]), p, T, a, i)
    BY <2>2, WriteStep
  <2> QED
    BY <2>1, <2>3
<1>5. n \in P
  <2> HIDE DEF P, n
  <2>1. \A i \in 0..n : i \in P
    BY <1>2, <1>3, <1>4, UpTo
  <2> QED
    BY <1>2, <2>1
<1> QED
  BY <1>1, <1>5

\* The records of an answer of n units follow on from a stream that ends at a.
LEMMA AnswerStream ==
  ASSUME NEW w \in WorkType, w.out = <<>>, NEW a \in Nat, NEW n \in Nat
  PROVE  \E T : LET d == WriteRecords(w, Pieces(Slice(a, n))) IN
           /\ d \in WorkType /\ d.pushed = w.pushed
           /\ SameMode(w.srv, d.srv) /\ SameBuffer(w.srv, d.srv) /\ SameReading(w.srv, d.srv)
           /\ d.srv.state = w.srv.state
           /\ d.srv.writeSeq = w.srv.writeSeq + Len(d.out)
           /\ d.srv.writePos = w.srv.writePos + Len(d.out) + n
           /\ Carries(d.out, T, a, a + n) /\ AllOf(d.out, "application")
           /\ Chained(d.out, T, "s2c", w.srv.writeSeq, w.srv.writePos)
<1> DEFINE p == Pieces(Slice(a, n))
           T == Cuts(a, n, Len(p))
           d == WriteRecords(w, p)
<1>1. p \in Seq(Seq(Unit)) /\ CutInto(p, T, a, a + n)
  BY PiecesCut
<1> HIDE DEF p, T
<1>2. HasWritten(w, d, p, T, a, Len(p))
  BY <1>1, WriteRecordsIs
<1> HIDE DEF d
<1>3. Len(d.out) = Len(p) /\ d \in WorkType
  BY <1>2 DEF HasWritten
<1>4. /\ T \in [1..(Len(p) + 1) -> Nat] /\ T[1] = a /\ T[Len(p) + 1] = a + n
      /\ \A i \in 1..Len(p) : T[i] <= T[i + 1] /\ p[i] = Slice(T[i], T[i + 1] - T[i])
  BY <1>1 DEF CutInto
<1>5. \A x \in 1..Len(p) :
        /\ d.out[x].type = "application" /\ d.out[x].body = p[x] /\ d.out[x].key = "s2c"
        /\ d.out[x].seq = w.srv.writeSeq + (x - 1)
        /\ d.out[x].pos = w.srv.writePos + (x - 1) + (T[x] - a)
  <2> SUFFICES ASSUME NEW x \in 1..Len(p)
               PROVE  /\ d.out[x].type = "application" /\ d.out[x].body = p[x]
                      /\ d.out[x].key = "s2c"
                      /\ d.out[x].seq = w.srv.writeSeq + (x - 1)
                      /\ d.out[x].pos = w.srv.writePos + (x - 1) + (T[x] - a)
    OBVIOUS
  <2> DEFINE r == d.out[x]
             b == p[x]
             m == w.srv.writeSeq + (x - 1)
             q == w.srv.writePos + (x - 1) + (T[x] - a)
  <2>1. r = Record("application", b, "s2c", m, q)
    BY <1>2 DEF HasWritten
  <2> HIDE DEF r, b, m, q
  <2>2. /\ r.type = "application" /\ r.body = b /\ r.key = "s2c" /\ r.seq = m /\ r.pos = q
    BY <2>1 DEF Record
  <2> QED
    BY <2>2 DEF r, b, m, q
<1>6. Carries(d.out, T, a, a + n) /\ AllOf(d.out, "application")
      /\ Chained(d.out, T, "s2c", w.srv.writeSeq, w.srv.writePos)
  BY <1>3, <1>4, <1>5 DEF Carries, AllOf, Chained
<1>7. (a + n) - a = n
  OBVIOUS
<1>8. /\ d.pushed = w.pushed
      /\ SameMode(w.srv, d.srv) /\ SameBuffer(w.srv, d.srv) /\ SameReading(w.srv, d.srv)
      /\ d.srv.state = w.srv.state
      /\ d.srv.writeSeq = w.srv.writeSeq + Len(d.out)
      /\ d.srv.writePos = w.srv.writePos + Len(d.out) + n
  BY <1>2, <1>3, <1>4, <1>7 DEF HasWritten
<1> QED
  BY <1>3, <1>6, <1>8 DEF d, p

-----------------------------------------------------------------------------
(* The packets that reached the handlers *)

\* Their numbers increase and are of packets within the first o units; as long
\* as the connection lasts none is missing.
Arrived(h, o, closed) ==
  /\ \A k \in 1..Len(h) : /\ Numbers(h)[k] \in Nat /\ Numbers(h)[k] > 0
                          /\ Numbers(h)[k] * PacketUnits <= o
  /\ \A j, k \in 1..Len(h) : j < k => Numbers(h)[j] < Numbers(h)[k]
  /\ ~closed => /\ o = Len(h) * PacketUnits
                /\ \A k \in 1..Len(h) : Numbers(h)[k] = k

\* What arrived has arrived however the connection ends.
LEMMA ArrivedClosed ==
  ASSUME NEW h \in Seq(Seq(Unit)), NEW o \in Nat, NEW closed, Arrived(h, o, closed),
         NEW p \in Nat, o <= p
  PROVE  Arrived(h, p, TRUE)
<1>1. ASSUME NEW k \in 1..Len(h)
      PROVE  Numbers(h)[k] * PacketUnits <= p
  <2> DEFINE x == Numbers(h)[k] * PacketUnits
  <2>1. x \in Nat /\ x <= o
    BY PacketUnitsType DEF Arrived
  <2> HIDE DEF x
  <2>2. x <= p
    BY <2>1
  <2> QED
    BY <2>2 DEF x
<1> QED
  BY <1>1 DEF Arrived

\* Some more were read.
LEMMA NumbersJoin ==
  ASSUME NEW h \in Seq(Seq(Unit)), NEW p \in Seq(Seq(Unit))
  PROVE  /\ Len(h \o p) = Len(h) + Len(p)
         /\ DOMAIN Numbers(h \o p) = 1..(Len(h) + Len(p))
         /\ \A k \in 1..Len(h) : Numbers(h \o p)[k] = Numbers(h)[k]
         /\ \A k \in 1..(Len(h) + Len(p)) : k > Len(h) =>
              Numbers(h \o p)[k] = NumberOf(p[k - Len(h)])
<1> DEFINE g == h \o p
<1>1. /\ Len(g) = Len(h) + Len(p) /\ g \in Seq(Seq(Unit))
      /\ \A k \in 1..Len(h) : g[k] = h[k]
      /\ \A k \in 1..(Len(h) + Len(p)) : k > Len(h) => g[k] = p[k - Len(h)]
  BY Joined, Zenon
<1>2. DOMAIN g = 1..(Len(h) + Len(p)) /\ DOMAIN h = 1..Len(h)
      /\ \A k \in 1..Len(h) : k \in 1..(Len(h) + Len(p))
  <2> HIDE DEF g
  <2> QED
    BY <1>1
<1> HIDE DEF g
<1>3. \A k \in DOMAIN g : Numbers(g)[k] = NumberOf(g[k])
  BY DEF Numbers
<1>4. \A k \in DOMAIN h : Numbers(h)[k] = NumberOf(h[k])
  BY DEF Numbers
<1>5. DOMAIN Numbers(g) = DOMAIN g
  BY DEF Numbers
<1>6. \A k \in 1..Len(h) : Numbers(g)[k] = Numbers(h)[k]
  BY <1>1, <1>2, <1>3, <1>4
<1>7. \A k \in 1..(Len(h) + Len(p)) : k > Len(h) => Numbers(g)[k] = NumberOf(p[k - Len(h)])
  BY <1>1, <1>2, <1>3
<1> QED
  BY <1>1, <1>2, <1>5, <1>6, <1>7 DEF g

\* The packets of the next frames follow on from those that arrived.
LEMMA ArrivedMore ==
  ASSUME NEW h \in Seq(Seq(Unit)), NEW o \in Nat, NEW closed \in BOOLEAN, Arrived(h, o, closed),
         NEW f \in FrameType, NEW n \in Nat, NEW j \in Nat, Read(f, o, n, j)
  PROVE  LET g == h \o f.packets IN
         /\ Arrived(g, o + j * PacketUnits, closed)
         /\ Len(g) = Len(h) + j /\ (j = 0 => g = h)
         /\ \A k \in 1..Len(h) : Numbers(g)[k] = Numbers(h)[k]
         /\ DOMAIN Numbers(g) = 1..Len(g)
<1> DEFINE P == PacketUnits
           p == f.packets
           q == o \div P
           g == h \o p
           m == Len(h)
           z == o + j * P
<1>1. P \in Nat \ {0} /\ m \in Nat
  BY PacketUnitsType
<1>2. p \in Seq(Seq(Unit)) /\ p = [x \in 1..j |-> PacketOf(q + x)]
      /\ (j # 0 => o % P = 0)
  BY DEF FrameType, Read
<1>3. Len(p) = j /\ \A x \in 1..j : p[x] = PacketOf(q + x)
  BY <1>2
<1>4. /\ Len(g) = m + j
      /\ DOMAIN Numbers(g) = 1..(m + j)
      /\ \A k \in 1..m : Numbers(g)[k] = Numbers(h)[k]
      /\ \A k \in 1..(m + j) : k > m => Numbers(g)[k] = NumberOf(p[k - m])
  BY <1>2, <1>3, NumbersJoin
<1>5. j = 0 => g = h
  <2>1. CASE j = 0
    <3>1. Len(p) = 0
      BY <1>3, <2>1
    <3>2. p = <<>>
      BY <1>2, <3>1
    <3> QED
      BY <3>2
  <2> QED
    BY <2>1
<1>6. q \in Nat /\ o = (q * P) + (o % P) /\ (j # 0 => o = q * P)
  <2> HIDE DEF P
  <2>1. q \in Nat /\ o % P \in 0..(P - 1) /\ o = (q * P) + (o % P)
    BY <1>1, DivIs
  <2>2. q * P \in Nat
    BY <1>1, <2>1
  <2> HIDE DEF q
  <2> QED
    BY <1>2, <2>1, <2>2
<1> HIDE DEF g, m, p, q
<1>7. \A k \in 1..(m + j) : k > m => Numbers(g)[k] = q + (k - m)
  <2>1. ASSUME NEW k \in 1..(m + j), k > m
        PROVE  Numbers(g)[k] = q + (k - m)
    <3>1. k - m \in 1..j /\ q + (k - m) \in Nat
      BY <1>1, <1>6, <2>1
    <3>2. p[k - m] = PacketOf(q + (k - m))
      BY <1>3, <3>1
    <3>3. NumberOf(PacketOf(q + (k - m))) = q + (k - m)
      BY <3>1, NumberIs
    <3> QED
      BY <1>4, <2>1, <3>2, <3>3
  <2> QED
    BY <2>1
<1>8. /\ \A k \in 1..m : /\ Numbers(h)[k] \in Nat /\ Numbers(h)[k] > 0
                         /\ Numbers(h)[k] * P <= o
      /\ \A i, k \in 1..m : i < k => Numbers(h)[i] < Numbers(h)[k]
      /\ ~closed => o = m * P /\ \A k \in 1..m : Numbers(h)[k] = k
  BY DEF Arrived, m
<1> HIDE DEF P
<1>9. j * P \in Nat /\ z \in Nat /\ o <= z
  BY <1>1
<1>10. ASSUME NEW k \in 1..(m + j)
       PROVE  Numbers(g)[k] \in Nat /\ Numbers(g)[k] > 0 /\ Numbers(g)[k] * P <= z
  <2>1. CASE k \in 1..m
    <3> DEFINE x == Numbers(h)[k] * P
    <3>1. Numbers(h)[k] \in Nat /\ Numbers(h)[k] > 0 /\ x <= o
      BY <1>8, <2>1
    <3>2. x \in Nat
      BY <1>1, <3>1
    <3> HIDE DEF x
    <3>3. x <= z
      BY <1>9, <3>1, <3>2
    <3> QED
      BY <1>4, <2>1, <3>1, <3>3 DEF x
  <2>2. CASE k \notin 1..m
    <3> DEFINE x == k - m
    <3>1. k > m /\ x \in 1..j /\ j # 0 /\ j - x \in Nat
      BY <1>1, <2>2
    <3>2. Numbers(g)[k] = q + x
      BY <1>7, <3>1
    <3> HIDE DEF x
    <3>3. (q + x) * P = q * P + x * P /\ (j - x) * P \in Nat /\ (j - x) * P = j * P - x * P
          /\ x * P \in Nat
      BY <1>1, <1>6, <3>1
    <3>4. (q + x) * P <= z
      BY <1>6, <1>9, <3>1, <3>3, SMTT(30)
    <3> QED
      BY <1>6, <3>1, <3>2, <3>4
  <2> QED
    BY <2>1, <2>2
<1>11. ASSUME NEW i \in 1..(m + j), NEW k \in 1..(m + j), i < k
       PROVE  Numbers(g)[i] < Numbers(g)[k]
  <2>1. CASE k \in 1..m
    <3>1. i \in 1..m
      BY <1>1, <1>11, <2>1
    <3> QED
      BY <1>4, <1>8, <1>11, <2>1, <3>1
  <2>2. CASE k \notin 1..m
    <3>1. k > m /\ j # 0
      BY <1>1, <2>2
    <3>2. Numbers(g)[k] = q + (k - m)
      BY <1>7, <3>1
    <3>3. CASE i \in 1..m
      <4> DEFINE x == Numbers(h)[i]
      <4>1. x \in Nat /\ x * P <= q * P
        BY <1>6, <1>8, <3>1, <3>3
      <4>2. Numbers(g)[i] = x
        BY <1>4, <3>3
      <4> HIDE DEF x
      <4>3. ASSUME x > q
            PROVE  FALSE
        <5>1. x - q - 1 \in Nat
          BY <1>6, <4>1, <4>3
        <5>2. (x - q - 1) * P \in Nat /\ (x - q - 1) * P = x * P - q * P - P
              /\ x * P \in Nat /\ q * P \in Nat
          BY <1>1, <1>6, <4>1, <5>1
        <5> QED
          BY <1>1, <4>1, <5>2
      <4>4. x <= q
        BY <1>6, <4>1, <4>3
      <4> QED
        BY <1>1, <1>6, <3>1, <3>2, <4>1, <4>2, <4>4
    <3>4. CASE i \notin 1..m
      <4>1. i > m
        BY <1>1, <3>4
      <4>2. Numbers(g)[i] = q + (i - m)
        BY <1>7, <4>1
      <4> QED
        BY <1>1, <1>6, <1>11, <3>2, <4>2
    <3> QED
      BY <3>3, <3>4
  <2> QED
    BY <2>1, <2>2
<1>12. ASSUME ~closed
       PROVE  z = (m + j) * P /\ \A k \in 1..(m + j) : Numbers(g)[k] = k
  <2>1. o = m * P /\ \A k \in 1..m : Numbers(h)[k] = k
    BY <1>8, <1>12
  <2>2. (m + j) * P = m * P + j * P
    BY <1>1
  <2>3. q = m
    <3>1. m * P + 0 = m * P /\ 0 \in 0..(P - 1)
      BY <1>1
    <3>2. (m * P + 0) \div P = m
      BY <1>1, <3>1, DivMod
    <3> QED
      BY <2>1, <3>1, <3>2 DEF q
  <2>4. ASSUME NEW k \in 1..(m + j)
        PROVE  Numbers(g)[k] = k
    <3>1. CASE k \in 1..m
      BY <1>4, <2>1, <3>1
    <3>2. CASE k \notin 1..m
      <4>1. k > m /\ m + (k - m) = k
        BY <1>1, <3>2
      <4> QED
        BY <1>7, <2>3, <4>1
    <3> QED
      BY <3>1, <3>2
  <2> QED
    BY <2>1, <2>2, <2>4
<1>13. Arrived(g, z, closed)
  BY <1>4, <1>10, <1>11, <1>12 DEF Arrived, P
<1> QED
  BY <1>4, <1>5, <1>13 DEF g, m, p, P

-----------------------------------------------------------------------------
(* The inductive invariant *)

ClientType == [kind : {"ssl2", "plain"}, stage : Stage, readSeq : Nat, writeSeq : Nat,
               readPos : Nat, writePos : Nat]

\* The types, with what is held of the records on their way.
Shape ==
  /\ client \in ClientType /\ srv \in SrvType
  /\ malformed \in BOOLEAN /\ (malformed => Packets > 0)
  /\ sent \in Nat /\ (sent = 0 \/ sent <= Total)
  /\ up \in Seq(RecordType) /\ held \in Nat
  /\ (up = <<>> => held = 0) /\ (up # <<>> => held < Units(up[1]))
  /\ handled \in Seq(Seq(Unit)) /\ answered \in 0..Replies
  /\ down \in Seq(RecordType) /\ received \in Seq(Unit)

\* From the packets handled to the last unit written by the client: what is in
\* the buffer and on its way follows on without a gap.
Incoming(s, u, n, h, S, a, o) ==
  /\ Carries(u, S, a, n)
  /\ o \in Nat /\ o + Len(s.buffer) = a /\ s.buffer = Slice(o, Len(s.buffer))
  /\ Arrived(h, o, s.closed)
\* Both ends agree on the records on their way to the server, ...
Agreed(c, s, u, n, S, a) ==
  (c.kind = "ssl2" /\ s.mode = "ssl2" /\ s.state = "ESTABLISHED") =>
    /\ Chained(u, S, "c2s", s.readSeq, s.readPos) /\ AllOf(u, "application")
    /\ c.stage # "gone" => /\ c.writeSeq = s.readSeq + Len(u)
                           /\ c.writePos = s.readPos + Len(u) + (n - a)
UpSide(c, s, u, n, h) ==
  \E S, a, o : Incoming(s, u, n, h, S, a, o) /\ Agreed(c, s, u, n, S, a)

\* ... and on those on their way to the client.
Outgoing(d, m, v, S) ==
  Carries(d, S, Len(v), m * PacketUnits) /\ v = Slice(0, Len(v))
AgreedBack(c, s, d, m, v, S) ==
  (c.kind = "ssl2" /\ s.state \in {"WAIT_CLIENT_FINISHED", "ESTABLISHED"} /\ c.stage # "gone") =>
    /\ Chained(d, S, "s2c", c.readSeq, c.readPos)
    /\ s.writeSeq = c.readSeq + Len(d)
    /\ s.writePos = c.readPos + Len(d) + (m * PacketUnits - Len(v))
DownSide(c, s, d, m, v) == \E S : Outgoing(d, m, v, S) /\ AgreedBack(c, s, d, m, v, S)

\* A plain connection, and an SSL one that was taken for one.
PlainSide(c, s, u, d, n) ==
  c.kind = "plain" =>
    /\ s.mode # "ssl2" /\ s.state = "WAIT_CLIENT_HELLO"
    /\ c.stage \in {"connected", "open", "gone"}
    /\ AllOf(u, "plain") /\ AllOf(d, "plain") /\ \A i \in 1..Len(d) : d[i].key = "none"
    /\ c.stage = "connected" => u = <<>> /\ n = 0

Only(u, r) == Len(u) = 1 /\ u[1] = r
Finished == Record("CLIENT_FINISHED", <<>>, "c2s", 2, 0)
Verify == Record("SERVER_VERIFY", <<>>, "s2c", 1, 0)

MisreadSide(c, s, u, d, n) ==
  (c.kind = "ssl2" /\ s.mode = "plain") =>
    /\ s.state = "WAIT_CLIENT_HELLO" /\ c.stage \in {"wait SERVER_HELLO", "gone"}
    /\ u = <<>> \/ Only(u, Clear("CLIENT_HELLO"))
    /\ d = <<>> /\ n = 0

\* What the client has written, by the state of the server's handshake.
UpPhase(state, u) ==
  /\ state = "WAIT_CLIENT_HELLO" => u = <<>> \/ Only(u, Clear("CLIENT_HELLO"))
  /\ state = "WAIT_CLIENT_MASTER_KEY" => u = <<>> \/ Only(u, Clear("CLIENT_MASTER_KEY"))
  /\ state = "WAIT_CLIENT_FINISHED" => u = <<>> \/ Only(u, Finished) \/ Only(u, Clear("ERROR"))
  /\ u = <<>> \/ Len(u) = 1

\* Where the client is in it.
Phase(stage, state, u, d) ==
  \/ stage = "connected" /\ state = "WAIT_CLIENT_HELLO" /\ u = <<>> /\ d = <<>>
  \/ /\ stage = "wait SERVER_HELLO" /\ state = "WAIT_CLIENT_HELLO"
     /\ Only(u, Clear("CLIENT_HELLO")) /\ d = <<>>
  \/ /\ stage = "wait SERVER_HELLO" /\ state = "WAIT_CLIENT_MASTER_KEY"
     /\ u = <<>> /\ Only(d, Clear("SERVER_HELLO"))
  \/ /\ stage = "wait SERVER_VERIFY" /\ state = "WAIT_CLIENT_MASTER_KEY"
     /\ Only(u, Clear("CLIENT_MASTER_KEY")) /\ d = <<>>
  \/ /\ stage = "wait SERVER_VERIFY" /\ state = "WAIT_CLIENT_FINISHED"
     /\ u = <<>> /\ Only(d, Verify)
  \/ /\ stage = "wait SERVER_FINISHED" /\ state = "WAIT_CLIENT_FINISHED"
     /\ Only(u, Finished) /\ d = <<>>
  \/ /\ stage = "wait SERVER_FINISHED" /\ state = "ESTABLISHED" /\ u = <<>>
     /\ d # <<>> /\ d[1].type = "SERVER_FINISHED"
     /\ \A i \in 2..Len(d) : d[i].type = "application"
  \/ stage = "open" /\ state = "ESTABLISHED" /\ AllOf(d, "application")

SslSide(c, s, u, d, n) ==
  (c.kind = "ssl2" /\ s.mode \in {"detect", "ssl2"}) =>
    /\ s.mode = "detect" => s.state = "WAIT_CLIENT_HELLO" /\ d = <<>>
    /\ s.state # "ESTABLISHED" => n = 0 /\ UpPhase(s.state, u)
    /\ s.state = "WAIT_CLIENT_FINISHED" => s.readSeq = 2 /\ s.readPos = 0
    /\ c.stage # "gone" => Phase(c.stage, s.state, u, d)
    /\ c.stage \in {"connected", "wait SERVER_HELLO", "wait SERVER_VERIFY"} =>
         c.writeSeq = 2 /\ c.writePos = 0 /\ c.readSeq = 1 /\ c.readPos = 0
    /\ (c.stage = "wait SERVER_FINISHED" /\ s.state = "WAIT_CLIENT_FINISHED") =>
         c.writeSeq = 3 /\ c.writePos = 1

Ends(c, s) ==
  /\ s.mode = "dead" => c.stage = "gone" /\ s.closed
  /\ s.mode = "detect" => ~s.closed

ConnInv ==
  /\ Shape
  /\ UpSide(client, srv, up, sent, handled)
  /\ DownSide(client, srv, down, answered, received)
  /\ PlainSide(client, srv, up, down, sent)
  /\ MisreadSide(client, srv, up, down, sent)
  /\ SslSide(client, srv, up, down, sent)
  /\ Ends(client, srv)

-----------------------------------------------------------------------------
(* What the steps do to the streams *)

Two(z, y) == [i \in 1..2 |-> IF i = 1 THEN z ELSE y]

\* A record is appended to a stream.
LEMMA StreamAppends ==
  ASSUME NEW rs \in Seq(RecordType), NEW S, NEW a, NEW z, Carries(rs, S, a, z),
         NEW r \in RecordType, NEW y \in Nat, z <= y, r.body = Slice(z, y - z)
  PROVE  LET all == Append(rs, r)
             J == Joint(S, Two(z, y), Len(rs), 1)
         IN /\ all \in Seq(RecordType) /\ Len(all) = Len(rs) + 1
            /\ \A i \in 1..Len(rs) : all[i] = rs[i]
            /\ all[Len(rs) + 1] = r
            /\ Carries(all, J, a, y)
            /\ \A key : \A seq, pos \in Nat :
                 /\ Chained(rs, S, key, seq, pos)
                 /\ r.key = key /\ r.seq = seq + Len(rs) /\ r.pos = pos + Len(rs) + (z - a)
                 => Chained(all, J, key, seq, pos)
<1> DEFINE qs == <<r>>
           T == Two(z, y)
           all == rs \o qs
           J == Joint(S, T, Len(rs), Len(qs))
<1>1. z \in Nat /\ a \in Nat /\ a <= z
  BY StreamGrows
<1>2. qs \in Seq(RecordType) /\ Len(qs) = 1 /\ qs[1] = r
  OBVIOUS
<1>3. T \in [1..(1 + 1) -> Nat] /\ T[1] = z /\ T[1 + 1] = y
  BY <1>1 DEF Two
<1>4. all = Append(rs, r)
  OBVIOUS
<1> HIDE DEF qs, T
<1>5. \A i \in 1..1 : i = 1
  OBVIOUS
<1>6. Carries(qs, T, z, y)
  BY <1>2, <1>3, <1>5 DEF Carries
<1>7. /\ all \in Seq(RecordType) /\ Len(all) = Len(rs) + Len(qs)
      /\ Carries(all, J, a, y)
      /\ \A key : \A seq, pos \in Nat :
           Chained(rs, S, key, seq, pos)
             /\ Chained(qs, T, key, seq + Len(rs), pos + Len(rs) + (z - a)) =>
           Chained(all, J, key, seq, pos)
  BY <1>2, <1>6, StreamJoins
<1>8. ASSUME NEW key, NEW seq \in Nat, NEW pos \in Nat,
             r.key = key, r.seq = seq + Len(rs), r.pos = pos + Len(rs) + (z - a)
      PROVE  Chained(qs, T, key, seq + Len(rs), pos + Len(rs) + (z - a))
  <2> DEFINE q == seq + Len(rs)
             p == pos + Len(rs) + (z - a)
  <2>1. q \in Int /\ p \in Int /\ q + (1 - 1) = q /\ p + (1 - 1) + (z - z) = p
    BY <1>1
  <2>2. r.key = key /\ r.seq = q /\ r.pos = p
    BY <1>8
  <2> HIDE DEF q, p
  <2>3. Chained(qs, T, key, q, p)
    BY <1>2, <1>3, <1>5, <2>1, <2>2 DEF Chained
  <2> QED
    BY <2>3 DEF q, p
<1> DEFINE K == Joint(S, T, Len(rs), 1)
<1>9. J = K
  BY <1>2
<1>10. /\ \A i \in 1..Len(rs) : Append(rs, r)[i] = rs[i]
       /\ Append(rs, r)[Len(rs) + 1] = r
  OBVIOUS
<1> HIDE DEF J, all
<1>11. /\ all \in Seq(RecordType) /\ Len(all) = Len(rs) + 1
       /\ Carries(all, K, a, y)
       /\ \A key : \A seq, pos \in Nat :
            /\ Chained(rs, S, key, seq, pos)
            /\ r.key = key /\ r.seq = seq + Len(rs) /\ r.pos = pos + Len(rs) + (z - a)
            => Chained(all, K, key, seq, pos)
  BY <1>2, <1>7, <1>8, <1>9
<1> QED
  BY <1>4, <1>10, <1>11 DEF K, T

\* No unit.
LEMMA EmptySlice ==
  ASSUME NEW z \in Nat
  PROVE  Slice(z, z - z) = <<>> /\ Slice(z, 0) = <<>>
<1>1. Slice(z, 0) \in Seq(Unit) /\ Len(Slice(z, 0)) = 0
  BY SliceType
<1>2. z - z = 0
  OBVIOUS
<1> QED
  BY <1>1, <1>2

\* The client goes, or keeps the keys it writes with.
LEMMA UpKeeps ==
  ASSUME NEW c, NEW d, NEW s, NEW u, NEW n, NEW h, UpSide(c, s, u, n, h), d.kind = c.kind,
         d.stage # "gone" => /\ c.stage # "gone"
                             /\ d.writeSeq = c.writeSeq /\ d.writePos = c.writePos
  PROVE  UpSide(d, s, u, n, h)
<1>1. PICK S, a, o : Incoming(s, u, n, h, S, a, o) /\ Agreed(c, s, u, n, S, a)
  BY DEF UpSide
<1>2. Agreed(d, s, u, n, S, a)
  BY <1>1 DEF Agreed
<1> QED
  BY <1>1, <1>2 DEF UpSide

\* The client writes one more record.
LEMMA UpAppends ==
  ASSUME NEW c \in ClientType, NEW d \in ClientType, NEW s \in SrvType,
         NEW u \in Seq(RecordType), NEW n \in Nat, NEW h,
         UpSide(c, s, u, n, h),
         NEW r \in RecordType, NEW m \in Nat, n <= m, r.body = Slice(n, m - n),
         (d.kind = "ssl2" /\ s.mode = "ssl2" /\ s.state = "ESTABLISHED") =>
           /\ c.kind = "ssl2" /\ c.stage # "gone"
           /\ r.type = "application" /\ r.key = "c2s"
           /\ r.seq = c.writeSeq /\ r.pos = c.writePos
           /\ d.writeSeq = c.writeSeq + 1 /\ d.writePos = c.writePos + 1 + (m - n)
  PROVE  UpSide(d, s, Append(u, r), m, h)
<1> DEFINE v == Append(u, r)
<1>1. PICK S, a, o : Incoming(s, u, n, h, S, a, o) /\ Agreed(c, s, u, n, S, a)
  BY DEF UpSide
<1> DEFINE J == Joint(S, Two(n, m), Len(u), 1)
<1>2. Carries(u, S, a, n) /\ a \in Nat /\ a <= n
  <2>1. Carries(u, S, a, n)
    BY <1>1 DEF Incoming
  <2> QED
    BY <2>1, StreamGrows
<1>3. /\ v \in Seq(RecordType) /\ Len(v) = Len(u) + 1
      /\ \A i \in 1..Len(u) : v[i] = u[i]
      /\ v[Len(u) + 1] = r
      /\ Carries(v, J, a, m)
      /\ \A key : \A seq, pos \in Nat :
           /\ Chained(u, S, key, seq, pos)
           /\ r.key = key /\ r.seq = seq + Len(u) /\ r.pos = pos + Len(u) + (n - a)
           => Chained(v, J, key, seq, pos)
  BY <1>2, StreamAppends
<1> HIDE DEF v, J
<1>4. Incoming(s, v, m, h, J, a, o)
  BY <1>1, <1>3 DEF Incoming
<1>5. ASSUME d.kind = "ssl2", s.mode = "ssl2", s.state = "ESTABLISHED"
      PROVE  /\ Chained(v, J, "c2s", s.readSeq, s.readPos) /\ AllOf(v, "application")
             /\ d.writeSeq = s.readSeq + Len(v)
             /\ d.writePos = s.readPos + Len(v) + (m - a)
  <2> DEFINE q == s.readSeq
             p == s.readPos
             l == Len(u)
  <2>1. q \in Nat /\ p \in Nat /\ l \in Nat
    BY DEF SrvType
  <2>2. /\ Chained(u, S, "c2s", q, p) /\ AllOf(u, "application")
        /\ c.writeSeq = q + l /\ c.writePos = p + l + (n - a)
    BY <1>1, <1>5 DEF Agreed
  <2>3. /\ r.type = "application" /\ r.key = "c2s"
        /\ r.seq = q + l /\ r.pos = p + l + (n - a)
        /\ d.writeSeq = (q + l) + 1 /\ d.writePos = (p + l + (n - a)) + 1 + (m - n)
    BY <1>5, <2>2
  <2>4. Chained(v, J, "c2s", q, p)
    BY <1>3, <2>1, <2>2, <2>3
  <2>5. AllOf(v, "application")
    <3>1. ASSUME NEW i \in 1..Len(v)
          PROVE  v[i].type = "application"
      <4>1. i \in 1..l \/ i = l + 1
        BY <1>3, <2>1
      <4> QED
        BY <1>3, <2>2, <2>3, <4>1 DEF AllOf
    <3> QED
      BY <3>1 DEF AllOf
  <2> HIDE DEF q, p, l
  <2>6. (q + l) + 1 = q + (l + 1) /\ (p + l + (n - a)) + 1 + (m - n) = p + (l + 1) + (m - a)
    BY <1>2, <2>1
  <2>7. d.writeSeq = q + (l + 1) /\ d.writePos = p + (l + 1) + (m - a) /\ Len(v) = l + 1
    BY <1>3, <2>3, <2>6 DEF l
  <2> QED
    BY <2>4, <2>5, <2>7 DEF q, p
<1>6. Agreed(d, s, v, m, J, a)
  BY <1>5 DEF Agreed
<1>7. UpSide(d, s, v, m, h)
  BY <1>4, <1>6 DEF UpSide
<1> QED
  BY <1>7 DEF v

\* The server's side is closed and has emptied its buffer.
LEMMA UpCloses ==
  ASSUME NEW c \in ClientType, NEW s \in SrvType, NEW t \in SrvType,
         NEW u \in Seq(RecordType), NEW n \in Nat, NEW h \in Seq(Seq(Unit)),
         UpSide(c, s, u, n, h), t.closed, t.buffer = <<>>,
         t.mode = "ssl2" => s.mode = "ssl2" /\ t.state = s.state /\ SameReading(s, t)
  PROVE  UpSide(c, t, u, n, h)
<1>1. PICK S, a, o : Incoming(s, u, n, h, S, a, o) /\ Agreed(c, s, u, n, S, a)
  BY DEF UpSide
<1>2. a \in Nat
  <2>1. Carries(u, S, a, n)
    BY <1>1 DEF Incoming
  <2> QED
    BY <2>1, StreamGrows
<1>3. Arrived(h, a, TRUE)
  <2>1. o \in Nat /\ o <= a /\ Arrived(h, o, s.closed)
    BY <1>1, <1>2 DEF Incoming, SrvType
  <2> QED
    BY <1>2, <2>1, ArrivedClosed
<1>4. Incoming(t, u, n, h, S, a, a)
  <2>1. Len(t.buffer) = 0 /\ a + 0 = a /\ t.buffer = Slice(a, 0) /\ t.closed = TRUE
    BY <1>2, EmptySlice DEF SrvType
  <2> QED
    BY <1>1, <1>2, <1>3, <2>1 DEF Incoming
<1>5. Agreed(c, t, u, n, S, a)
  BY <1>1 DEF Agreed, SameReading
<1> QED
  BY <1>4, <1>5 DEF UpSide

\* What the client reads with stays the same, or the client goes.
LEMMA DownKeeps ==
  ASSUME NEW c, NEW e, NEW s, NEW t, NEW d, NEW m, NEW v, DownSide(c, s, d, m, v),
         e.kind = c.kind, t.state = s.state, SameWriting(s, t),
         e.stage # "gone" => /\ c.stage # "gone"
                             /\ e.readSeq = c.readSeq /\ e.readPos = c.readPos
  PROVE  DownSide(e, t, d, m, v)
<1>1. PICK S : Outgoing(d, m, v, S) /\ AgreedBack(c, s, d, m, v, S)
  BY DEF DownSide
<1>2. AgreedBack(e, t, d, m, v, S)
  BY <1>1 DEF AgreedBack, SameWriting
<1> QED
  BY <1>1, <1>2 DEF DownSide

\* The client reads one record.
LEMMA DownDrops ==
  ASSUME NEW c \in ClientType, NEW e \in ClientType, NEW s \in SrvType,
         NEW d \in Seq(RecordType), NEW m \in Nat, NEW v \in Seq(Unit),
         DownSide(c, s, d, m, v), d # <<>>, e.kind = c.kind,
         e.stage # "gone" /\ c.kind = "ssl2"
           /\ s.state \in {"WAIT_CLIENT_FINISHED", "ESTABLISHED"} =>
           /\ c.stage # "gone"
           /\ e.readSeq = c.readSeq + 1 /\ e.readPos = c.readPos + 1 + Len(Head(d).body)
  PROVE  DownSide(e, s, Tail(d), m, v \o Head(d).body)
<1> DEFINE r == Head(d)
           w == v \o r.body
           l == Len(d)
           z == m * PacketUnits
           later == SubSeq(d, 1 + 1, l)
<1>1. PICK S : Outgoing(d, m, v, S) /\ AgreedBack(c, s, d, m, v, S)
  BY DEF DownSide
<1> DEFINE L == Later(S, 1, l)
           x == S[1 + 1]
<1>2. Carries(d, S, Len(v), z) /\ v = Slice(0, Len(v))
  BY <1>1 DEF Outgoing
<1>3. l \in Nat /\ 1 \in 0..l /\ 1 \in 1..l /\ 1 + 1 \in 1..(l + 1) /\ r = d[1] /\ Tail(d) = later
      /\ r \in RecordType
  OBVIOUS
<1>4. /\ later \in Seq(RecordType) /\ Len(later) = l - 1
      /\ Carries(later, L, x, z)
      /\ \A key : \A seq, pos \in Nat : Chained(d, S, key, seq, pos) =>
           Chained(later, L, key, seq + 1, pos + 1 + (x - Len(v)))
  BY <1>2, <1>3, StreamDrops
<1> HIDE DEF L, later, z
<1>5. x \in Nat /\ Len(v) \in Nat /\ Len(v) <= x /\ z \in Nat
  BY <1>2, <1>3, StreamGrows
<1>6. r.body = Slice(Len(v), x - Len(v))
  BY <1>2, <1>3 DEF Carries
<1> HIDE DEF x, l, r
<1>7. w = Slice(0, x) /\ Len(w) = x /\ Len(r.body) = x - Len(v)
  <2> DEFINE y == Len(v)
             k == x - y
  <2>1. k \in Nat /\ 0 + y = y /\ y + k = x /\ 0 \in Nat /\ y \in Nat
    BY <1>5
  <2> HIDE DEF y, k
  <2>2. Slice(0, y) \o Slice(0 + y, k) = Slice(0, y + k)
    BY <2>1, SliceJoin
  <2>3. v = Slice(0, y) /\ r.body = Slice(y, k)
    BY <1>2, <1>6 DEF y, k
  <2>4. Len(Slice(0, x)) = x /\ Len(Slice(y, k)) = k
    BY <1>5, <2>1, SliceType
  <2> QED
    BY <2>1, <2>2, <2>3, <2>4 DEF y, k
<1> HIDE DEF w
<1>8. Outgoing(later, m, w, L)
  BY <1>4, <1>7 DEF Outgoing, z
<1>9. ASSUME e.kind = "ssl2", s.state \in {"WAIT_CLIENT_FINISHED", "ESTABLISHED"}, e.stage # "gone"
      PROVE  /\ Chained(later, L, "s2c", e.readSeq, e.readPos)
             /\ s.writeSeq = e.readSeq + Len(later)
             /\ s.writePos = e.readPos + Len(later) + (z - Len(w))
  <2> DEFINE q == c.readSeq
             p == c.readPos
             y == Len(v)
  <2>1. q \in Nat /\ p \in Nat
    BY DEF ClientType
  <2>2. /\ c.kind = "ssl2" /\ c.stage # "gone"
        /\ e.readSeq = q + 1 /\ e.readPos = p + 1 + (x - y)
    BY <1>7, <1>9 DEF r
  <2>3. /\ Chained(d, S, "s2c", q, p) /\ s.writeSeq = q + l /\ s.writePos = p + l + (z - y)
    BY <1>1, <1>9, <2>2 DEF AgreedBack, z, l
  <2>4. Chained(later, L, "s2c", q + 1, p + 1 + (x - y))
    BY <1>4, <2>1, <2>3
  <2>5. y \in Nat
    BY <1>5
  <2> HIDE DEF q, p, y
  <2>6. q + l = (q + 1) + (l - 1) /\ p + l + (z - y) = (p + 1 + (x - y)) + (l - 1) + (z - x)
    BY <1>3, <1>5, <2>1, <2>5
  <2> QED
    BY <1>4, <1>7, <2>2, <2>3, <2>4, <2>6
<1>10. AgreedBack(e, s, later, m, w, L)
  BY <1>9 DEF AgreedBack, z
<1>11. DownSide(e, s, later, m, w)
  BY <1>8, <1>10 DEF DownSide
<1> QED
  BY <1>3, <1>11 DEF w, r

\* The server writes some records: they follow on, or are the first of their key.
LEMMA DownJoins ==
  ASSUME NEW c \in ClientType, NEW s \in SrvType, NEW t \in SrvType,
         NEW d \in Seq(RecordType), NEW m \in Nat, NEW v \in Seq(Unit), DownSide(c, s, d, m, v),
         NEW qs \in Seq(RecordType), NEW T, NEW k \in Nat, m <= k,
         Carries(qs, T, m * PacketUnits, k * PacketUnits),
         NEW q \in Nat, NEW p \in Nat,
         (c.kind = "ssl2" /\ c.stage # "gone"
            /\ t.state \in {"WAIT_CLIENT_FINISHED", "ESTABLISHED"}) =>
           /\ \/ /\ s.state \in {"WAIT_CLIENT_FINISHED", "ESTABLISHED"}
                 /\ q = s.writeSeq /\ p = s.writePos
              \/ d = <<>> /\ q = c.readSeq /\ p = c.readPos
           /\ Chained(qs, T, "s2c", q, p)
           /\ t.writeSeq = q + Len(qs)
           /\ t.writePos = p + Len(qs) + (k * PacketUnits - m * PacketUnits)
  PROVE  DownSide(c, t, d \o qs, k, v)
<1> DEFINE all == d \o qs
           z == m * PacketUnits
           y == k * PacketUnits
           a == Len(v)
           l == Len(d)
           n == Len(qs)
<1>1. PICK S : Outgoing(d, m, v, S) /\ AgreedBack(c, s, d, m, v, S)
  BY DEF DownSide
<1> DEFINE J == Joint(S, T, l, n)
<1>2. Carries(d, S, a, z) /\ v = Slice(0, a) /\ Carries(qs, T, z, y)
  BY <1>1 DEF Outgoing
<1>3. /\ all \in Seq(RecordType) /\ Len(all) = l + n
      /\ Carries(all, J, a, y)
      /\ \A key : \A seq, pos \in Nat :
           Chained(d, S, key, seq, pos)
             /\ Chained(qs, T, key, seq + l, pos + l + (z - a)) =>
           Chained(all, J, key, seq, pos)
  BY <1>2, StreamJoins
<1>4. a \in Nat /\ z \in Nat /\ y \in Nat /\ l \in Nat /\ n \in Nat
  <2>1. z \in Nat /\ y \in Nat
    BY <1>2, StreamGrows
  <2> QED
    BY <2>1
<1> HIDE DEF all, J
<1>5. Outgoing(all, k, v, J)
  BY <1>2, <1>3 DEF Outgoing
<1>6. ASSUME c.kind = "ssl2", t.state \in {"WAIT_CLIENT_FINISHED", "ESTABLISHED"}, c.stage # "gone"
      PROVE  /\ Chained(all, J, "s2c", c.readSeq, c.readPos)
             /\ t.writeSeq = c.readSeq + Len(all)
             /\ t.writePos = c.readPos + Len(all) + (y - a)
  <2> DEFINE e == c.readSeq
             f == c.readPos
  <2>1. e \in Nat /\ f \in Nat
    BY DEF ClientType
  <2>2. Chained(d, S, "s2c", e, f) /\ q = e + l /\ p = f + l + (z - a)
    <3>1. CASE s.state \in {"WAIT_CLIENT_FINISHED", "ESTABLISHED"} /\ q = s.writeSeq /\ p = s.writePos
      BY <1>1, <1>6, <3>1 DEF AgreedBack
    <3>2. CASE d = <<>> /\ q = c.readSeq /\ p = c.readPos
      <4>1. l = 0
        BY <3>2
      <4>2. S[1] = a /\ S[0 + 1] = z /\ 0 + 1 = 1
        BY <1>2, <4>1 DEF Carries
      <4>3. z - a = 0
        BY <1>4, <4>2
      <4>4. Chained(d, S, "s2c", e, f)
        BY <4>1 DEF Chained
      <4> HIDE DEF l, z, a
      <4>5. e + l = e /\ f + l + (z - a) = f
        BY <2>1, <4>1, <4>3
      <4> QED
        BY <3>2, <4>4, <4>5
    <3> QED
      BY <1>6, <3>1, <3>2
  <2>3. Chained(qs, T, "s2c", q, p) /\ t.writeSeq = q + n /\ t.writePos = p + n + (y - z)
    BY <1>6
  <2> HIDE DEF a, z, y, l, n
  <2>4. Chained(all, J, "s2c", e, f)
    BY <1>3, <2>1, <2>2, <2>3
  <2> HIDE DEF e, f
  <2>5. (e + l) + n = e + (l + n) /\ (f + l + (z - a)) + n + (y - z) = f + (l + n) + (y - a)
    BY <1>4, <2>1
  <2> QED
    BY <1>3, <2>2, <2>3, <2>4, <2>5 DEF e, f
<1>7. AgreedBack(c, t, all, k, v, J)
  BY <1>6 DEF AgreedBack
<1>8. DownSide(c, t, all, k, v)
  BY <1>5, <1>7 DEF DownSide
<1> QED
  BY <1>8 DEF all

-----------------------------------------------------------------------------
(* Every step keeps the invariant *)

\* A connection starts in the invariant.
LEMMA InitConnInv == Init => ConnInv
<1> SUFFICES ASSUME Init
             PROVE  ConnInv
  OBVIOUS
<1>0. \A T : <<>> \in Seq(T)
  OBVIOUS
<1>1. Shape
  <2>1. client \in ClientType
    <3>1. {1} \subseteq Nat /\ {2} \subseteq Nat /\ {0} \subseteq Nat /\ "connected" \in Stage
      BY DEF Stage
    <3> QED
      BY ONLY Init, <3>1, Zenon DEF Init, ClientType
  <2>2. srv \in SrvType
    BY <1>0 DEF Init, SrvType, SocketState
  <2>3. malformed \in BOOLEAN /\ (malformed => Packets > 0) /\ Replies \in Nat
    <3>1. malformed = FALSE \/ malformed = (Packets > 0)
      BY ONLY Init, Zenon DEF Init
    <3>2. (Packets > 0) \in BOOLEAN /\ Replies \in Nat
      BY TransportAssumption
    <3> QED
      BY ONLY <3>1, <3>2, Zenon
  <2> QED
    BY <1>0, <2>1, <2>2, <2>3 DEF Init, Shape
<1> DEFINE S == [i \in 1..1 |-> 0]
<1>2. Carries(<<>>, S, 0, 0)
  BY DEF Carries
<1>3. Slice(0, 0) = <<>> /\ 0 * PacketUnits = 0
  BY EmptySlice, PacketUnitsType
<1> HIDE DEF S
<1>4. UpSide(client, srv, up, sent, handled)
  <2>1. Arrived(<<>>, 0, FALSE)
    BY <1>3 DEF Arrived
  <2>2. Incoming(srv, up, sent, handled, S, 0, 0)
    <3>1. srv.buffer = <<>> /\ srv.closed = FALSE /\ up = <<>> /\ sent = 0 /\ handled = <<>>
      BY DEF Init
    <3>2. Len(<<>>) = 0 /\ 0 \in Nat /\ 0 + 0 = 0
      OBVIOUS
    <3> QED
      BY ONLY <1>2, <1>3, <2>1, <3>1, <3>2 DEF Incoming
  <2>3. Agreed(client, srv, up, sent, S, 0)
    BY DEF Agreed, Init
  <2> QED
    BY <2>2, <2>3 DEF UpSide
<1>5. DownSide(client, srv, down, answered, received)
  <2>1. Outgoing(down, answered, received, S)
    BY <1>2, <1>3 DEF Outgoing, Init
  <2>2. AgreedBack(client, srv, down, answered, received, S)
    BY DEF AgreedBack, Init
  <2> QED
    BY <2>1, <2>2 DEF DownSide
<1>6. /\ client.kind \in {"ssl2", "plain"} /\ client.stage = "connected"
      /\ client.readSeq = 1 /\ client.writeSeq = 2 /\ client.readPos = 0 /\ client.writePos = 0
  BY DEF Init
<1>7. PlainSide(client, srv, up, down, sent)
  BY <1>6 DEF PlainSide, AllOf, Init
<1>8. MisreadSide(client, srv, up, down, sent)
  BY <1>6 DEF MisreadSide, Init
<1>9. SslSide(client, srv, up, down, sent)
  BY <1>6 DEF SslSide, UpPhase, Phase, Init
<1>10. Ends(client, srv)
  BY DEF Ends, Init
<1> QED
  BY <1>1, <1>4, <1>5, <1>7, <1>8, <1>9, <1>10 DEF ConnInv

\* The client goes, and nothing else happens.
LEMMA GoneKeeps ==
  ASSUME ConnInv, client' = [client EXCEPT !.stage = "gone"],
         UNCHANGED <<sent, malformed, up, held, srv, handled, answered, down, received>>
  PROVE  ConnInv'
<1>1. /\ client \in ClientType /\ client' \in ClientType /\ client'.stage = "gone"
      /\ client'.kind = client.kind
  BY DEF ConnInv, Shape, ClientType, Stage
<1>2. Shape'
  BY <1>1 DEF ConnInv, Shape, Total
<1>3. UpSide(client, srv, up, sent, handled)'
  <2>1. UpSide(client', srv, up, sent, handled)
    BY <1>1, UpKeeps DEF ConnInv
  <2> QED
    BY <2>1
<1>4. DownSide(client, srv, down, answered, received)'
  <2>1. DownSide(client', srv, down, answered, received)
    BY <1>1, DownKeeps DEF ConnInv, SameWriting
  <2> QED
    BY <2>1
<1>5. /\ PlainSide(client, srv, up, down, sent)'
      /\ MisreadSide(client, srv, up, down, sent)'
      /\ SslSide(client, srv, up, down, sent)'
      /\ Ends(client, srv)'
  BY <1>1 DEF ConnInv, PlainSide, MisreadSide, SslSide, Ends
<1> QED
  BY <1>2, <1>3, <1>4, <1>5 DEF ConnInv

\* The server's side closes and empties its buffer, and nothing else happens.
LEMMA ClosedKeeps ==
  ASSUME ConnInv, srv' \in SrvType, srv'.closed, srv'.buffer = <<>>, srv'.state = srv.state,
         SameReading(srv, srv'), SameWriting(srv, srv'),
         \/ srv'.mode = srv.mode /\ srv.mode # "detect"
         \/ srv'.mode = "dead" /\ client.stage = "gone",
         UNCHANGED <<client, sent, malformed, up, held, handled, answered, down, received>>
  PROVE  ConnInv'
<1>1. /\ client \in ClientType /\ srv \in SrvType /\ up \in Seq(RecordType)
      /\ handled \in Seq(Seq(Unit))
  BY DEF ConnInv, Shape
<1>2. Shape'
  BY DEF ConnInv, Shape, Total
<1>3. UpSide(client, srv, up, sent, handled)'
  <2>1. UpSide(client, srv, up, sent, handled) /\ sent \in Nat
    BY DEF ConnInv, Shape
  <2>2. srv'.mode = "ssl2" => srv.mode = "ssl2" /\ srv'.state = srv.state /\ SameReading(srv, srv')
    OBVIOUS
  <2>3. UpSide(client, srv', up, sent, handled)
    BY ONLY <1>1, <2>1, <2>2, srv' \in SrvType, srv'.closed, srv'.buffer = <<>>, UpCloses
  <2> QED
    BY <2>3
<1>4. DownSide(client, srv, down, answered, received)'
  <2>1. DownSide(client, srv', down, answered, received)
    BY <1>1, DownKeeps DEF ConnInv
  <2> QED
    BY <2>1
<1>5. CASE srv'.mode = srv.mode /\ srv.mode # "detect"
  <2>1. /\ PlainSide(client, srv, up, down, sent)'
        /\ MisreadSide(client, srv, up, down, sent)'
        /\ SslSide(client, srv, up, down, sent)'
        /\ Ends(client, srv)'
    BY <1>5 DEF ConnInv, PlainSide, MisreadSide, SslSide, Ends, SameReading
  <2> QED
    BY <1>2, <1>3, <1>4, <2>1 DEF ConnInv
<1>6. CASE srv'.mode = "dead" /\ client.stage = "gone"
  <2>1. /\ PlainSide(client, srv, up, down, sent)'
        /\ MisreadSide(client, srv, up, down, sent)'
        /\ SslSide(client, srv, up, down, sent)'
        /\ Ends(client, srv)'
    BY <1>6 DEF ConnInv, PlainSide, MisreadSide, SslSide, Ends
  <2> QED
    BY <1>2, <1>3, <1>4, <2>1 DEF ConnInv
<1> QED
  BY <1>5, <1>6

\* The server closes the connection, ...
LEMMA ServerCloseKeeps ==
  ASSUME ConnInv, ServerClose
  PROVE  ConnInv'
<1> DEFINE t == [srv EXCEPT !.closed = TRUE, !.buffer = <<>>, !.fin = (srv.mode = "plain")]
<1>1. srv \in SrvType /\ <<>> \in Seq(Unit)
  BY DEF ConnInv, Shape
<1>2. srv' = t /\ srv.mode # "detect"
  BY DEF ServerClose, Close, Established
<1>3. /\ t \in SrvType /\ t.closed /\ t.buffer = <<>> /\ t.state = srv.state
      /\ t.mode = srv.mode /\ SameReading(srv, t) /\ SameWriting(srv, t)
  BY <1>1 DEF SrvType, SameReading, SameWriting
<1> HIDE DEF t
<1>4. UNCHANGED <<client, sent, malformed, up, held, handled, answered, down, received>>
  BY DEF ServerClose
<1> QED
  BY <1>2, <1>3, <1>4, ClosedKeeps

\* ... the socket is lost, ...
LEMMA RawClosedKeeps ==
  ASSUME ConnInv, RawClosed
  PROVE  ConnInv'
<1> DEFINE t == [srv EXCEPT !.mode = "dead", !.closed = TRUE, !.buffer = <<>>]
<1>1. srv \in SrvType /\ <<>> \in Seq(Unit)
  BY DEF ConnInv, Shape
<1>2. srv' = t /\ client.stage = "gone"
  BY DEF RawClosed
<1>3. /\ t \in SrvType /\ t.closed /\ t.buffer = <<>> /\ t.state = srv.state
      /\ t.mode = "dead" /\ SameReading(srv, t) /\ SameWriting(srv, t)
  BY <1>1 DEF SrvType, SameReading, SameWriting
<1> HIDE DEF t
<1>4. UNCHANGED <<client, sent, malformed, up, held, handled, answered, down, received>>
  BY DEF RawClosed
<1> QED
  BY <1>2, <1>3, <1>4, ClosedKeeps

\* ... or the client goes.
LEMMA ClientGoesKeeps ==
  ASSUME ConnInv, ClientSeesEnd \/ ClientLeaves
  PROVE  ConnInv'
BY GoneKeeps DEF ClientSeesEnd, ClientLeaves

\* One record under way.
LEMMA OnlyOne ==
  ASSUME NEW r
  PROVE  Only(Append(<<>>, r), r)
<1>1. Append(<<>>, r) = <<r>>
  OBVIOUS
<1>2. Len(<<r>>) = 1 /\ <<r>>[1] = r
  OBVIOUS
<1> QED
  BY <1>1, <1>2 DEF Only

\* Records in clear, ...
LEMMA ClearIs ==
  \A t \in RecordKind : /\ Clear(t) \in RecordType
                        /\ Clear(t).type = t /\ Clear(t).body = <<>> /\ Clear(t).key = "none"
                        /\ (t # "plain" => Units(Clear(t)) > 0)
<1>1. \A t \in RecordKind : Clear(t) \in RecordType
  BY RecordTypes
<1>2. ASSUME NEW t \in RecordKind
      PROVE  Clear(t).type = t /\ Clear(t).body = <<>> /\ Clear(t).key = "none"
  BY DEF Clear, Record
<1> QED
  BY <1>1, <1>2, RecordTypes

\* ... and others, have the fields they were made of.
LEMMA RecordIs ==
  ASSUME NEW t, NEW b, NEW key, NEW q, NEW p
  PROVE  LET r == Record(t, b, key, q, p) IN
         r.type = t /\ r.body = b /\ r.key = key /\ r.seq = q /\ r.pos = p
BY DEF Record

\* The client writes a record.
LEMMA Says ==
  ASSUME client \in ClientType, NEW stage \in Stage, NEW r \in RecordType, ClientSays(stage, r)
  PROVE  /\ client' \in ClientType /\ client'.kind = client.kind /\ client'.stage = stage
         /\ client'.readSeq = client.readSeq /\ client'.readPos = client.readPos
         /\ r.key = "c2s" => /\ client'.writeSeq = client.writeSeq + 1
                             /\ client'.writePos = client.writePos + 1 + Len(r.body)
         /\ r.key # "c2s" => /\ client'.writeSeq = client.writeSeq
                             /\ client'.writePos = client.writePos
         /\ up' = Append(up, r)
<1> DEFINE q == IF r.key = "c2s" THEN client.writeSeq + 1 ELSE client.writeSeq
           p == IF r.key = "c2s" THEN client.writePos + 1 + Len(r.body) ELSE client.writePos
           d == [client EXCEPT !.stage = stage, !.writeSeq = q]
           e == [d EXCEPT !.writePos = p]
<1>1. client' = e /\ up' = Append(up, r)
  BY DEF ClientSays, Advance, ClientType
<1>2. q \in Nat /\ p \in Nat
  BY DEF ClientType, RecordType
<1> HIDE DEF q, p
<1>3. /\ d \in ClientType /\ d.kind = client.kind /\ d.stage = stage
      /\ d.readSeq = client.readSeq /\ d.readPos = client.readPos /\ d.writeSeq = q
  BY <1>2 DEF ClientType
<1> HIDE DEF d
<1>4. /\ e \in ClientType /\ e.kind = d.kind /\ e.stage = d.stage
      /\ e.readSeq = d.readSeq /\ e.readPos = d.readPos /\ e.writeSeq = q /\ e.writePos = p
  BY <1>2, <1>3 DEF ClientType
<1> HIDE DEF e
<1> QED
  BY <1>1, <1>3, <1>4 DEF q, p

\* The types, after the client has written a record.
LEMMA ShapeSays ==
  ASSUME Shape, NEW r \in RecordType, Units(r) > 0, up' = Append(up, r),
         client' \in ClientType, sent' \in Nat, sent' = 0 \/ sent' <= Total,
         down' \in Seq(RecordType), received' \in Seq(Unit),
         UNCHANGED <<malformed, held, srv, handled, answered>>
  PROVE  Shape'
<1>1. up' \in Seq(RecordType) /\ up' # <<>> /\ (up # <<>> => up'[1] = up[1])
      /\ (up = <<>> => up'[1] = r)
  BY DEF Shape
<1>2. held < Units(up'[1])
  BY <1>1 DEF Shape
<1>3. held' < Units(up[1])'
  BY <1>2
<1>4. Total' = Total
  BY DEF Total
<1> QED
  BY <1>1, <1>3, <1>4 DEF Shape

\* The hello is the first record.
LEMMA ClientStartKeeps ==
  ASSUME ConnInv, ClientStart
  PROVE  ConnInv'
<1>1. /\ client \in ClientType /\ srv \in SrvType /\ up \in Seq(RecordType) /\ sent \in Nat
      /\ down \in Seq(RecordType) /\ received \in Seq(Unit)
      /\ client.stage = "connected"
      /\ UNCHANGED <<sent, malformed, held, srv, handled, answered, down, received>>
  BY DEF ConnInv, Shape, ClientStart
<1>2. /\ UpSide(client, srv, up, sent, handled)
      /\ DownSide(client, srv, down, answered, received)
  BY DEF ConnInv
<1>3. CASE client.kind = "ssl2"
  <2> DEFINE r == Clear("CLIENT_HELLO")
  <2>1. /\ r \in RecordType /\ r.type = "CLIENT_HELLO" /\ r.body = <<>> /\ r.key = "none"
        /\ Units(r) > 0
    BY ClearIs DEF RecordKind
  <2>2. /\ client' \in ClientType /\ client'.kind = "ssl2"
        /\ client'.stage = "wait SERVER_HELLO"
        /\ client'.readSeq = client.readSeq /\ client'.readPos = client.readPos
        /\ client'.writeSeq = client.writeSeq /\ client'.writePos = client.writePos
        /\ up' = Append(up, r)
    <3>1. ClientSays("wait SERVER_HELLO", r) /\ "wait SERVER_HELLO" \in Stage
      BY <1>3 DEF ClientStart, Stage
    <3> QED
      BY <1>1, <1>3, <2>1, <3>1, Says
  <2>3. /\ srv.mode \in {"detect", "ssl2"} /\ srv.state = "WAIT_CLIENT_HELLO"
        /\ up = <<>> /\ down = <<>> /\ sent = 0
        /\ client.writeSeq = 2 /\ client.writePos = 0
        /\ client.readSeq = 1 /\ client.readPos = 0
    <3>1. srv.mode # "plain" /\ srv.mode # "dead"
      BY <1>1, <1>3 DEF ConnInv, MisreadSide, Ends
    <3>2. srv.mode \in {"detect", "ssl2"}
      BY <1>1, <3>1 DEF SrvType
    <3>3. /\ Phase("connected", srv.state, up, down)
          /\ srv.state # "ESTABLISHED" => sent = 0
          /\ client.writeSeq = 2 /\ client.writePos = 0
          /\ client.readSeq = 1 /\ client.readPos = 0
      BY <1>1, <1>3, <3>2 DEF ConnInv, SslSide
    <3> QED
      BY <3>2, <3>3 DEF Phase
  <2> HIDE DEF r
  <2>4. Only(up', r)
    <3>1. Len(Append(<<>>, r)) = 1 /\ Append(<<>>, r)[1] = r
      BY <2>1
    <3> QED
      BY ONLY <2>2, <2>3, <3>1 DEF Only
  <2>5. Shape'
    BY <1>1, <2>1, <2>2, ShapeSays DEF ConnInv, Shape
  <2>6. UpSide(client', srv, up', sent, handled)
    <3>1. r.body = Slice(sent, sent - sent)
      BY <1>1, <2>1, EmptySlice
    <3>2. sent <= sent /\ srv.state # "ESTABLISHED"
      BY <1>1, <2>3
    <3>3. UpSide(client', srv, Append(up, r), sent, handled)
      BY ONLY <1>1, <1>2, <2>1, <2>2, <3>1, <3>2, UpAppends
    <3> QED
      BY <2>2, <3>3
  <2>7. DownSide(client', srv, down, answered, received)
    BY <1>1, <1>2, <1>3, <2>2, DownKeeps DEF SameWriting
  <2>8. /\ PlainSide(client', srv, up', down, sent) /\ MisreadSide(client', srv, up', down, sent)
        /\ Ends(client', srv)
    BY <2>2, <2>3 DEF ConnInv, PlainSide, MisreadSide, Ends
  <2>9. SslSide(client', srv, up', down, sent)
    <3>1. UpPhase(srv.state, up') /\ Phase(client'.stage, srv.state, up', down)
      BY <2>2, <2>3, <2>4 DEF UpPhase, Phase, Only, r
    <3> QED
      BY <2>2, <2>3, <3>1 DEF SslSide
  <2> QED
    BY <1>1, <2>5, <2>6, <2>7, <2>8, <2>9 DEF ConnInv
<1>4. CASE client.kind = "plain"
  <2>1. client' = [client EXCEPT !.stage = "open"] /\ up' = up
    BY <1>4 DEF ClientStart
  <2>2. /\ client' \in ClientType /\ client'.kind = "plain" /\ client'.stage = "open"
        /\ client'.readSeq = client.readSeq /\ client'.readPos = client.readPos
        /\ client'.writeSeq = client.writeSeq /\ client'.writePos = client.writePos
    BY <1>1, <1>4, <2>1 DEF ClientType, Stage
  <2>3. Shape'
    BY <1>1, <2>1, <2>2 DEF ConnInv, Shape, Total
  <2>4. UpSide(client', srv, up, sent, handled)
    BY <1>1, <1>2, <1>4, <2>2, UpKeeps
  <2>5. DownSide(client', srv, down, answered, received)
    BY <1>1, <1>2, <1>4, <2>2, DownKeeps DEF SameWriting
  <2>6. /\ PlainSide(client', srv, up, down, sent) /\ MisreadSide(client', srv, up, down, sent)
        /\ SslSide(client', srv, up, down, sent) /\ Ends(client', srv)
    BY <1>1, <1>4, <2>2 DEF ConnInv, PlainSide, MisreadSide, SslSide, Ends
  <2> QED
    BY <1>1, <2>1, <2>3, <2>4, <2>5, <2>6 DEF ConnInv
<1> QED
  BY <1>1, <1>3, <1>4 DEF ClientType

\* One more record of the same type.
LEMMA AllAppend ==
  ASSUME NEW u \in Seq(RecordType), NEW r \in RecordType, NEW t, AllOf(u, t), r.type = t
  PROVE  AllOf(Append(u, r), t)
<1>1. ASSUME NEW i \in 1..Len(Append(u, r))
      PROVE  Append(u, r)[i].type = t
  <2>1. i \in 1..Len(u) \/ i = Len(u) + 1
    OBVIOUS
  <2>2. CASE i \in 1..Len(u)
    <3>1. Append(u, r)[i] = u[i]
      BY <2>2
    <3> QED
      BY <2>2, <3>1 DEF AllOf
  <2>3. CASE i = Len(u) + 1
    <3>1. Append(u, r)[i] = r
      BY <2>3
    <3> QED
      BY <3>1
  <2> QED
    BY <2>1, <2>2, <2>3
<1> QED
  BY <1>1 DEF AllOf

\* The bytes of some more packets follow on from those already written.
LEMMA ClientWriteKeeps ==
  ASSUME ConnInv, ClientWrite
  PROVE  ConnInv'
<1>1. /\ client \in ClientType /\ srv \in SrvType /\ up \in Seq(RecordType) /\ sent \in Nat
      /\ down \in Seq(RecordType) /\ received \in Seq(Unit)
      /\ client.stage = "open"
      /\ UNCHANGED <<malformed, held, srv, handled, answered, down, received>>
  BY DEF ConnInv, Shape, ClientWrite
<1>2. /\ UpSide(client, srv, up, sent, handled)
      /\ DownSide(client, srv, down, answered, received)
  BY DEF ConnInv
<1>3. PICK n \in 1..MaxRecord :
        /\ sent + n <= Total
        /\ ClientSays("open", IF client.kind = "ssl2" THEN Encrypted("application", Slice(sent, n))
                              ELSE Record("plain", Slice(sent, n), "none", 0, 0))
        /\ sent' = sent + n
  BY DEF ClientWrite
<1>4. n \in Nat /\ n > 0 /\ sent' \in Nat /\ sent <= sent' /\ sent' - sent = n
  BY <1>1, <1>3, TransportAssumption
<1> DEFINE b == Slice(sent, n)
<1>5. b \in Seq(Unit) /\ Len(b) = n
  BY <1>1, <1>4, SliceType
<1>6. "open" \in Stage
  BY DEF Stage
<1>7. CASE client.kind = "ssl2"
  <2> DEFINE r == Encrypted("application", b)
  <2>1. /\ r \in RecordType /\ r.type = "application" /\ r.body = b /\ r.key = "c2s"
        /\ r.seq = client.writeSeq /\ r.pos = client.writePos
    <3>1. client.writeSeq \in Nat /\ client.writePos \in Nat
      BY <1>1 DEF ClientType
    <3> HIDE DEF b
    <3> QED
      BY <1>5, <3>1, RecordTypes DEF Encrypted, RecordKind, Record
  <2>2. Units(r) > 0
    BY <2>1, RecordTypes
  <2>3. ClientSays("open", r)
    BY <1>3, <1>7
  <2> HIDE DEF r, b
  <2>4. /\ client' \in ClientType /\ client'.kind = "ssl2" /\ client'.stage = "open"
        /\ client'.readSeq = client.readSeq /\ client'.readPos = client.readPos
        /\ client'.writeSeq = client.writeSeq + 1
        /\ client'.writePos = client.writePos + 1 + n
        /\ up' = Append(up, r)
    BY <1>1, <1>5, <1>6, <1>7, <2>1, <2>3, Says
  <2>5. srv.mode = "ssl2" /\ srv.state = "ESTABLISHED" /\ AllOf(down, "application")
    <3>1. srv.mode # "plain" /\ srv.mode # "dead"
      BY <1>1, <1>7 DEF ConnInv, MisreadSide, Ends
    <3>2. srv.mode \in {"detect", "ssl2"}
      BY <1>1, <3>1 DEF SrvType
    <3>3. /\ Phase("open", srv.state, up, down)
          /\ srv.mode = "detect" => srv.state = "WAIT_CLIENT_HELLO"
      BY <1>1, <1>7, <3>2 DEF ConnInv, SslSide
    <3> QED
      BY <3>2, <3>3 DEF Phase
  <2>6. Shape'
    BY <1>1, <1>3, <1>4, <2>1, <2>2, <2>4, ShapeSays DEF ConnInv
  <2>7. UpSide(client', srv, up', sent', handled)
    <3>1. r.body = Slice(sent, sent' - sent)
      BY <1>4, <2>1 DEF b
    <3>2. client'.writePos = client.writePos + 1 + (sent' - sent)
      BY <1>4, <2>4
    <3>3. UpSide(client', srv, Append(up, r), sent', handled)
      BY ONLY <1>1, <1>2, <1>4, <1>7, <2>1, <2>4, <3>1, <3>2, UpAppends
    <3> QED
      BY <2>4, <3>3
  <2>8. DownSide(client', srv, down, answered, received)
    BY <1>1, <1>2, <1>7, <2>4, DownKeeps DEF SameWriting
  <2>9. /\ PlainSide(client', srv, up', down, sent') /\ MisreadSide(client', srv, up', down, sent')
        /\ Ends(client', srv)
    BY <2>4, <2>5 DEF ConnInv, PlainSide, MisreadSide, Ends
  <2>10. SslSide(client', srv, up', down, sent')
    BY <2>4, <2>5 DEF SslSide, Phase
  <2> QED
    BY <1>1, <2>6, <2>7, <2>8, <2>9, <2>10 DEF ConnInv
<1>8. CASE client.kind = "plain"
  <2> DEFINE r == Record("plain", b, "none", 0, 0)
  <2>1. /\ r \in RecordType /\ r.type = "plain" /\ r.body = b /\ r.key = "none"
    <3> HIDE DEF b
    <3> QED
      BY <1>5, RecordTypes DEF RecordKind, Record
  <2>2. Units(r) > 0
    BY <1>4, <1>5, <2>1, RecordTypes
  <2>3. ClientSays("open", r)
    BY <1>3, <1>8
  <2> HIDE DEF r, b
  <2>4. /\ client' \in ClientType /\ client'.kind = "plain" /\ client'.stage = "open"
        /\ client'.readSeq = client.readSeq /\ client'.readPos = client.readPos
        /\ up' = Append(up, r)
    BY <1>1, <1>6, <1>8, <2>1, <2>3, Says
  <2>5. /\ srv.mode # "ssl2" /\ srv.state = "WAIT_CLIENT_HELLO"
        /\ AllOf(up, "plain") /\ AllOf(down, "plain") /\ \A i \in 1..Len(down) : down[i].key = "none"
    BY <1>8 DEF ConnInv, PlainSide
  <2>6. Shape'
    BY <1>1, <1>3, <1>4, <2>1, <2>2, <2>4, ShapeSays DEF ConnInv
  <2>7. UpSide(client', srv, up', sent', handled)
    <3>1. r.body = Slice(sent, sent' - sent)
      BY <1>4, <2>1 DEF b
    <3>2. client'.kind # "ssl2"
      BY <2>4
    <3>3. UpSide(client', srv, Append(up, r), sent', handled)
      BY ONLY <1>1, <1>2, <1>4, <2>1, <2>4, <3>1, <3>2, UpAppends
    <3> QED
      BY <2>4, <3>3
  <2>8. DownSide(client', srv, down, answered, received)
    BY <1>1, <1>2, <1>8, <2>4, DownKeeps DEF SameWriting
  <2>9. AllOf(up', "plain")
    BY <1>1, <2>1, <2>4, <2>5, AllAppend
  <2>10. /\ PlainSide(client', srv, up', down, sent') /\ MisreadSide(client', srv, up', down, sent')
         /\ SslSide(client', srv, up', down, sent') /\ Ends(client', srv)
    BY <1>1, <2>4, <2>5, <2>9 DEF ConnInv, PlainSide, MisreadSide, SslSide, Ends
  <2> QED
    BY <1>1, <2>6, <2>7, <2>8, <2>10 DEF ConnInv
<1> QED
  BY <1>1, <1>7, <1>8 DEF ClientType

\* The alert stands where CLIENT_FINISHED would.
LEMMA ClientRefusesKeeps ==
  ASSUME ConnInv, ClientRefuses
  PROVE  ConnInv'
<1> DEFINE r == Clear("ERROR")
<1>1. /\ client \in ClientType /\ srv \in SrvType /\ up \in Seq(RecordType) /\ sent \in Nat
      /\ down \in Seq(RecordType) /\ received \in Seq(Unit)
      /\ client.stage = "wait SERVER_VERIFY" /\ down # <<>> /\ ClientSays("gone", r)
      /\ UNCHANGED <<sent, malformed, held, srv, handled, answered, down, received>>
  BY DEF ConnInv, Shape, ClientRefuses
<1>2. /\ UpSide(client, srv, up, sent, handled)
      /\ DownSide(client, srv, down, answered, received)
  BY DEF ConnInv
<1>3. /\ r \in RecordType /\ r.type = "ERROR" /\ r.body = <<>> /\ r.key = "none" /\ Units(r) > 0
  BY ClearIs DEF RecordKind
<1>4. client.kind = "ssl2"
  BY <1>1 DEF ConnInv, PlainSide, ClientType
<1>5. /\ client' \in ClientType /\ client'.kind = "ssl2" /\ client'.stage = "gone"
      /\ client'.readSeq = client.readSeq /\ client'.readPos = client.readPos
      /\ up' = Append(up, r)
  <2>1. "gone" \in Stage
    BY DEF Stage
  <2> HIDE DEF r
  <2> QED
    BY <1>1, <1>3, <1>4, <2>1, Says
<1>6. /\ srv.mode = "ssl2" /\ srv.state = "WAIT_CLIENT_FINISHED" /\ up = <<>> /\ sent = 0
      /\ srv.readSeq = 2 /\ srv.readPos = 0
  <2>1. srv.mode # "plain" /\ srv.mode # "dead"
    BY <1>1, <1>4 DEF ConnInv, MisreadSide, Ends
  <2>2. srv.mode \in {"detect", "ssl2"}
    BY <1>1, <2>1 DEF SrvType
  <2>3. /\ Phase("wait SERVER_VERIFY", srv.state, up, down)
        /\ srv.mode = "detect" => srv.state = "WAIT_CLIENT_HELLO"
        /\ srv.state # "ESTABLISHED" => sent = 0
        /\ srv.state = "WAIT_CLIENT_FINISHED" => srv.readSeq = 2 /\ srv.readPos = 0
    BY <1>1, <1>4, <2>2 DEF ConnInv, SslSide
  <2> QED
    BY <1>1, <2>2, <2>3 DEF Phase
<1> HIDE DEF r
<1>7. Only(up', r)
  BY ONLY <1>5, <1>6, OnlyOne
<1>8. Shape'
  BY <1>1, <1>3, <1>5, ShapeSays DEF ConnInv, Shape
<1>9. UpSide(client', srv, up', sent, handled)
  <2>1. r.body = Slice(sent, sent - sent)
    BY <1>1, <1>3, EmptySlice
  <2>2. sent <= sent /\ srv.state # "ESTABLISHED"
    <3>1. sent \in Nat
      BY <1>1
    <3> QED
      BY ONLY <1>6, <3>1
  <2>3. UpSide(client', srv, Append(up, r), sent, handled)
    BY ONLY <1>1, <1>2, <1>3, <1>5, <2>1, <2>2, UpAppends
  <2> QED
    BY <1>5, <2>3
<1>10. DownSide(client', srv, down, answered, received)
  BY <1>1, <1>2, <1>4, <1>5, DownKeeps DEF SameWriting
<1>11. /\ PlainSide(client', srv, up', down, sent) /\ MisreadSide(client', srv, up', down, sent)
       /\ Ends(client', srv)
  BY <1>5, <1>6 DEF PlainSide, MisreadSide, Ends
<1>12. SslSide(client', srv, up', down, sent)
  <2>1. UpPhase(srv.state, up')
    BY <1>6, <1>7 DEF UpPhase, Only, r
  <2> QED
    BY <1>5, <1>6, <2>1 DEF SslSide
<1> QED
  BY <1>1, <1>8, <1>9, <1>10, <1>11, <1>12 DEF ConnInv

\* The MAC alone advances the cipher by one.
LEMMA EmptyAdvance == Advance(0, <<>>) = 1
BY DEF Advance

\* The client's CLIENT_FINISHED.
LEMMA FinishedIs ==
  Finished \in RecordType /\ Finished.body = <<>> /\ Units(Finished) > 0
<1>1. Finished.type = "CLIENT_FINISHED" /\ Finished.body = <<>>
  BY DEF Finished, Record
<1>2. "CLIENT_FINISHED" \in RecordKind /\ <<>> \in Seq(Unit) /\ "c2s" \in {"none", "c2s", "s2c"}
      /\ 2 \in Nat /\ 0 \in Nat
  BY DEF RecordKind
<1>3. Finished \in RecordType
  BY <1>2, RecordTypes DEF Finished
<1> QED
  BY <1>1, <1>3, RecordTypes

\* What every reading of the client does.
LEMMA ClientReadFacts ==
  ASSUME ConnInv, ClientRead
  PROVE  /\ client \in ClientType /\ srv \in SrvType /\ up \in Seq(RecordType) /\ sent \in Nat
         /\ down \in Seq(RecordType) /\ received \in Seq(Unit) /\ answered \in Nat
         /\ client.stage # "gone" /\ down # <<>> /\ down' = Tail(down)
         /\ UNCHANGED <<sent, malformed, held, srv, handled, answered>>
<1>1. Shape /\ Replies \in Nat
  BY TransportAssumption DEF ConnInv
<1>2. answered \in Nat
  BY <1>1 DEF Shape
<1> QED
  BY <1>1, <1>2 DEF Shape, ClientRead

\* The records after the first.
LEMMA TailIs ==
  ASSUME NEW d \in Seq(RecordType), d # <<>>
  PROVE  /\ Tail(d) \in Seq(RecordType) /\ Len(Tail(d)) = Len(d) - 1
         /\ Head(d) = d[1] /\ d[1] \in RecordType /\ Len(d) >= 1
         /\ \A i \in 1..(Len(d) - 1) : Tail(d)[i] = d[i + 1]
         /\ Len(d) = 1 => Tail(d) = <<>>
<1>1. /\ Tail(d) \in Seq(RecordType) /\ Len(Tail(d)) = Len(d) - 1
      /\ \A i \in 1..(Len(d) - 1) : Tail(d)[i] = d[i + 1]
  OBVIOUS
<1>2. Head(d) = d[1] /\ d[1] \in RecordType /\ Len(d) >= 1
  OBVIOUS
<1>3. Len(d) = 1 => Tail(d) = <<>>
  <2>1. ASSUME Len(d) = 1
        PROVE  Tail(d) = <<>>
    <3> DEFINE t == Tail(d)
    <3>1. t \in Seq(RecordType) /\ Len(t) = 0
      BY <1>1, <2>1
    <3> HIDE DEF t
    <3>2. t = <<>>
      BY <3>1
    <3> QED
      BY <3>2 DEF t
  <2> QED
    BY <2>1
<1> QED
  BY <1>1, <1>2, <1>3

\* The client reads a record with its key, number and position.
LEMMA Reads ==
  ASSUME client \in ClientType, NEW r \in RecordType
  PROVE  LET e == AfterReading(r) IN
         /\ e \in ClientType /\ e.kind = client.kind /\ e.stage = client.stage
         /\ e.writeSeq = client.writeSeq /\ e.writePos = client.writePos
         /\ r.key = "s2c" => /\ e.readSeq = client.readSeq + 1
                             /\ e.readPos = client.readPos + 1 + Len(r.body)
         /\ r.key # "s2c" => e.readSeq = client.readSeq /\ e.readPos = client.readPos
<1> DEFINE q == IF r.key = "s2c" THEN client.readSeq + 1 ELSE client.readSeq
           p == IF r.key = "s2c" THEN client.readPos + 1 + Len(r.body) ELSE client.readPos
           d == [client EXCEPT !.readSeq = q]
           e == [d EXCEPT !.readPos = p]
<1>1. AfterReading(r) = e
  BY DEF AfterReading, Advance, ClientType
<1>2. q \in Nat /\ p \in Nat
  BY DEF ClientType, RecordType
<1> HIDE DEF q, p
<1>3. /\ d \in ClientType /\ d.kind = client.kind /\ d.stage = client.stage
      /\ d.readSeq = q /\ d.writeSeq = client.writeSeq /\ d.writePos = client.writePos
  BY <1>2 DEF ClientType
<1> HIDE DEF d
<1>4. /\ e \in ClientType /\ e.kind = d.kind /\ e.stage = d.stage
      /\ e.readSeq = d.readSeq /\ e.readPos = p
      /\ e.writeSeq = d.writeSeq /\ e.writePos = d.writePos
  BY <1>2, <1>3 DEF ClientType
<1> HIDE DEF e
<1> QED
  BY <1>1, <1>3, <1>4 DEF q, p

\* ... and goes to the next stage.
LEMMA NextStage ==
  ASSUME NEW c \in ClientType, NEW stage \in Stage
  PROVE  LET e == [c EXCEPT !.stage = stage] IN
         /\ e \in ClientType /\ e.kind = c.kind /\ e.stage = stage
         /\ e.readSeq = c.readSeq /\ e.readPos = c.readPos
         /\ e.writeSeq = c.writeSeq /\ e.writePos = c.writePos
BY DEF ClientType

\* The types, after the client has read a record.
LEMMA ShapeReads ==
  ASSUME Shape, down # <<>>, down' = Tail(down), received' = received \o Head(down).body,
         client' \in ClientType,
         UNCHANGED <<up, sent, malformed, held, srv, handled, answered>>
  PROVE  Shape'
<1>1. Tail(down) \in Seq(RecordType) /\ Head(down) \in RecordType
  BY TailIs DEF Shape
<1>2. received' \in Seq(Unit)
  BY <1>1, Joined DEF Shape, RecordType
<1> QED
  BY <1>1, <1>2 DEF Shape, Total

\* The first record on its way to the client can be read.
LEMMA CanReadFirst ==
  ASSUME client \in ClientType, down \in Seq(RecordType), down # <<>>,
         DownSide(client, srv, down, answered, received),
         client.kind = "ssl2", client.stage # "gone",
         srv.state \in {"WAIT_CLIENT_FINISHED", "ESTABLISHED"}
  PROVE  /\ down[1].key = "s2c" /\ down[1].seq = client.readSeq
         /\ down[1].pos = client.readPos /\ CanRead(down[1])
<1>1. PICK S : /\ Outgoing(down, answered, received, S)
               /\ AgreedBack(client, srv, down, answered, received, S)
  BY DEF DownSide
<1>2. Chained(down, S, "s2c", client.readSeq, client.readPos)
  BY <1>1 DEF AgreedBack
<1>3. S[1] \in Nat
  <2>1. Carries(down, S, Len(received), answered * PacketUnits)
    BY <1>1 DEF Outgoing
  <2> QED
    BY <2>1, StreamGrows DEF Carries
<1> DEFINE q == client.readSeq
           p == client.readPos
           a == S[1]
<1>4. q \in Nat /\ p \in Nat /\ 1 \in 1..Len(down)
  BY DEF ClientType
<1>5. down[1].key = "s2c" /\ down[1].seq = q + (1 - 1) /\ down[1].pos = p + (1 - 1) + (a - a)
  BY <1>2, <1>4 DEF Chained
<1>6. a \in Nat
  BY <1>3
<1> HIDE DEF q, p, a
<1>7. q + (1 - 1) = q /\ p + (1 - 1) + (a - a) = p
  BY <1>4, <1>6
<1> QED
  BY <1>5, <1>7 DEF q, p, CanRead

\* A plain client reads an answer, and so does one whose connection is open.
LEMMA PlainReadKeeps ==
  ASSUME ConnInv, ClientRead, client.kind = "plain"
  PROVE  ConnInv'
<1> DEFINE r == Head(down)
<1>1. /\ client \in ClientType /\ srv \in SrvType /\ up \in Seq(RecordType) /\ sent \in Nat
      /\ down \in Seq(RecordType) /\ received \in Seq(Unit) /\ answered \in Nat
      /\ client.stage # "gone" /\ down # <<>> /\ down' = Tail(down)
      /\ UNCHANGED <<sent, malformed, held, srv, handled, answered>>
  BY ClientReadFacts
<1>2. /\ UpSide(client, srv, up, sent, handled)
      /\ DownSide(client, srv, down, answered, received)
  BY DEF ConnInv
<1>3. /\ srv.mode # "ssl2" /\ srv.state = "WAIT_CLIENT_HELLO"
      /\ client.stage \in {"connected", "open", "gone"}
      /\ AllOf(up, "plain") /\ AllOf(down, "plain") /\ \A i \in 1..Len(down) : down[i].key = "none"
      /\ client.stage = "connected" => up = <<>> /\ sent = 0
  BY DEF ConnInv, PlainSide
<1>4. /\ Tail(down) \in Seq(RecordType) /\ Len(Tail(down)) = Len(down) - 1
      /\ r = down[1] /\ r \in RecordType /\ Len(down) >= 1
      /\ \A i \in 1..(Len(down) - 1) : Tail(down)[i] = down[i + 1]
  BY <1>1, TailIs
<1>5. r.key = "none" /\ r.type = "plain"
  BY <1>3, <1>4 DEF AllOf
<1>6. client' = AfterReading(r) /\ up' = up /\ received' = received \o r.body
  BY <1>5 DEF ClientRead, CanRead
<1> HIDE DEF r
<1>7. /\ client' \in ClientType /\ client'.kind = "plain" /\ client'.stage = client.stage
      /\ client'.readSeq = client.readSeq /\ client'.readPos = client.readPos
      /\ client'.writeSeq = client.writeSeq /\ client'.writePos = client.writePos
  BY <1>1, <1>4, <1>5, <1>6, Reads
<1>8. Shape'
  BY <1>1, <1>6, <1>7, ShapeReads DEF ConnInv, r
<1>9. UpSide(client', srv, up, sent, handled)
  BY <1>1, <1>2, <1>7, UpKeeps
<1>10. DownSide(client', srv, Tail(down), answered, received \o r.body)
  BY ONLY <1>1, <1>2, <1>7, client.kind = "plain", DownDrops DEF r
<1>11. AllOf(down', "plain") /\ \A i \in 1..Len(down') : down'[i].key = "none"
  <2>1. ASSUME NEW i \in 1..Len(down')
        PROVE  down'[i].type = "plain" /\ down'[i].key = "none"
    <3>1. i \in 1..(Len(down) - 1) /\ i + 1 \in 1..Len(down) /\ down'[i] = down[i + 1]
      BY <1>1, <1>4
    <3> QED
      BY <1>3, <3>1 DEF AllOf
  <2> QED
    BY <2>1 DEF AllOf
<1>12. /\ PlainSide(client', srv, up, down', sent) /\ MisreadSide(client', srv, up, down', sent)
       /\ SslSide(client', srv, up, down', sent) /\ Ends(client', srv)
  BY <1>1, <1>3, <1>7, <1>11 DEF ConnInv, PlainSide, MisreadSide, SslSide, Ends
<1> QED
  BY <1>1, <1>6, <1>8, <1>9, <1>10, <1>12 DEF ConnInv

\* SERVER_HELLO is answered with the master key.
LEMMA HelloReadKeeps ==
  ASSUME ConnInv, ClientRead, client.kind = "ssl2", srv.mode = "ssl2",
         client.stage = "wait SERVER_HELLO", srv.state = "WAIT_CLIENT_MASTER_KEY",
         up = <<>>, Only(down, Clear("SERVER_HELLO"))
  PROVE  ConnInv'
<1> DEFINE h == Clear("SERVER_HELLO")
           r == Clear("CLIENT_MASTER_KEY")
<1>1. /\ client \in ClientType /\ srv \in SrvType /\ up \in Seq(RecordType) /\ sent \in Nat
      /\ down \in Seq(RecordType) /\ received \in Seq(Unit) /\ answered \in Nat
      /\ down # <<>> /\ down' = Tail(down)
      /\ UNCHANGED <<sent, malformed, held, srv, handled, answered>>
  BY ClientReadFacts
<1>2. /\ UpSide(client, srv, up, sent, handled)
      /\ DownSide(client, srv, down, answered, received)
  BY DEF ConnInv
<1>3. /\ r \in RecordType /\ r.type = "CLIENT_MASTER_KEY" /\ r.body = <<>> /\ r.key = "none"
      /\ Units(r) > 0 /\ h.type = "SERVER_HELLO" /\ h.body = <<>> /\ h.key = "none"
  BY ClearIs DEF RecordKind
<1>4. Head(down) = h /\ Tail(down) = <<>> /\ Head(down) \in RecordType
  BY <1>1, TailIs DEF Only
<1> HIDE DEF h
<1>5. /\ client' = [client EXCEPT !.stage = "wait SERVER_VERIFY"]
      /\ up' = Append(up, r) /\ received' = received \o Head(down).body
  BY <1>3, <1>4 DEF ClientRead, CanRead
<1> HIDE DEF r
<1>6. /\ client' \in ClientType /\ client'.kind = "ssl2"
      /\ client'.stage = "wait SERVER_VERIFY"
      /\ client'.readSeq = client.readSeq /\ client'.readPos = client.readPos
      /\ client'.writeSeq = client.writeSeq /\ client'.writePos = client.writePos
  <2>1. "wait SERVER_VERIFY" \in Stage
    BY DEF Stage
  <2> QED
    BY <1>1, <1>5, <2>1, NextStage
<1>7. /\ client.writeSeq = 2 /\ client.writePos = 0 /\ client.readSeq = 1 /\ client.readPos = 0
      /\ sent = 0
  BY <1>1 DEF ConnInv, SslSide
<1>8. Only(up', r)
  BY ONLY <1>5, up = <<>>, OnlyOne
<1>9. received' \in Seq(Unit) /\ down' \in Seq(RecordType)
  <2>1. Head(down).body \in Seq(Unit)
    BY <1>4 DEF RecordType
  <2> QED
    BY <1>1, <1>4, <1>5, <2>1, Joined
<1>10. Shape'
  BY <1>1, <1>3, <1>5, <1>6, <1>9, ShapeSays DEF ConnInv, Shape
<1>11. UpSide(client', srv, up', sent, handled)
  <2>1. r.body = Slice(sent, sent - sent)
    BY <1>1, <1>3, EmptySlice
  <2>2. sent <= sent /\ srv.state # "ESTABLISHED"
    <3>1. sent \in Nat
      BY <1>1
    <3> QED
      BY ONLY srv.state = "WAIT_CLIENT_MASTER_KEY", <3>1
  <2>3. UpSide(client', srv, Append(up, r), sent, handled)
    BY ONLY <1>1, <1>2, <1>3, <1>6, <2>1, <2>2, UpAppends
  <2> QED
    BY <1>5, <2>3
<1>12. DownSide(client', srv, down', answered, received')
  <2>1. DownSide(client', srv, Tail(down), answered, received \o Head(down).body)
    BY ONLY <1>1, <1>2, <1>6, client.kind = "ssl2", srv.state = "WAIT_CLIENT_MASTER_KEY", DownDrops
  <2> QED
    BY <1>1, <1>5, <2>1
<1>13. /\ PlainSide(client', srv, up', down', sent) /\ MisreadSide(client', srv, up', down', sent)
       /\ Ends(client', srv)
  BY <1>6 DEF PlainSide, MisreadSide, Ends
<1>14. SslSide(client', srv, up', down', sent)
  <2>1. UpPhase(srv.state, up') /\ Phase(client'.stage, srv.state, up', down')
    BY <1>1, <1>4, <1>6, <1>8 DEF UpPhase, Phase, Only, r
  <2> QED
    BY <1>6, <1>7, <2>1 DEF SslSide
<1> QED
  BY <1>1, <1>10, <1>11, <1>12, <1>13, <1>14 DEF ConnInv

\* SERVER_VERIFY is the server's record 1, and the client's record 2 follows.
LEMMA VerifyReadKeeps ==
  ASSUME ConnInv, ClientRead, client.kind = "ssl2", srv.mode = "ssl2",
         client.stage = "wait SERVER_VERIFY", srv.state = "WAIT_CLIENT_FINISHED",
         up = <<>>, Only(down, Verify)
  PROVE  ConnInv'
<1> DEFINE h == Head(down)
           e == AfterReading(h)
<1>1. /\ client \in ClientType /\ srv \in SrvType /\ up \in Seq(RecordType) /\ sent \in Nat
      /\ down \in Seq(RecordType) /\ received \in Seq(Unit) /\ answered \in Nat
      /\ down # <<>> /\ down' = Tail(down)
      /\ UNCHANGED <<sent, malformed, held, srv, handled, answered>>
  BY ClientReadFacts
<1>2. /\ UpSide(client, srv, up, sent, handled)
      /\ DownSide(client, srv, down, answered, received)
  BY DEF ConnInv
<1>3. /\ Verify.type = "SERVER_VERIFY" /\ Verify.body = <<>> /\ Verify.key = "s2c"
      /\ Verify.seq = 1 /\ Verify.pos = 0
  BY DEF Verify, Record
<1>4. h = Verify /\ Tail(down) = <<>> /\ h \in RecordType
  BY <1>1, TailIs DEF Only
<1>5. /\ client.writeSeq = 2 /\ client.writePos = 0 /\ client.readSeq = 1 /\ client.readPos = 0
      /\ sent = 0 /\ srv.readSeq = 2 /\ srv.readPos = 0
  BY <1>1 DEF ConnInv, SslSide
<1> DEFINE f == [e EXCEPT !.stage = "wait SERVER_FINISHED", !.writeSeq = @ + 1, !.writePos = Advance(@, <<>>)]
<1>6. /\ client' = f
      /\ up' = Append(up, Encrypted("CLIENT_FINISHED", <<>>)) /\ received' = received \o h.body
  BY <1>3, <1>4, <1>5 DEF ClientRead, CanRead
<1>7. Encrypted("CLIENT_FINISHED", <<>>) = Finished
  BY <1>5 DEF Encrypted, Finished
<1>8. /\ Finished \in RecordType /\ Finished.body = <<>> /\ Units(Finished) > 0
  BY FinishedIs
<1>9. /\ e \in ClientType /\ e.kind = client.kind
      /\ e.writeSeq = 2 /\ e.writePos = 0
      /\ e.readSeq = client.readSeq + 1 /\ e.readPos = client.readPos + 1 + Len(h.body)
  BY <1>1, <1>3, <1>4, <1>5, Reads
<1> HIDE DEF e
<1>10. /\ client' \in ClientType /\ client'.kind = "ssl2"
       /\ client'.stage = "wait SERVER_FINISHED"
       /\ client'.readSeq = client.readSeq + 1 /\ client'.readPos = client.readPos + 1 + Len(h.body)
       /\ client'.writeSeq = 3 /\ client'.writePos = 1
  <2>1. Advance(0, <<>>) = 1 /\ 2 + 1 = 3 /\ "wait SERVER_FINISHED" \in Stage
    BY ONLY EmptyAdvance DEF Stage
  <2>2. f = [e EXCEPT !.stage = "wait SERVER_FINISHED", !.writeSeq = 3, !.writePos = 1]
    BY <1>9, <2>1 DEF ClientType
  <2> HIDE DEF f
  <2> DEFINE g == [e EXCEPT !.stage = "wait SERVER_FINISHED"]
  <2>3. /\ g \in ClientType /\ g.kind = e.kind /\ g.stage = "wait SERVER_FINISHED"
        /\ g.readSeq = e.readSeq /\ g.readPos = e.readPos
    BY <1>9, <2>1, NextStage
  <2>4. f = [g EXCEPT !.writeSeq = 3, !.writePos = 1]
    BY <1>9, <2>2 DEF ClientType
  <2> HIDE DEF g
  <2>5. /\ f \in ClientType /\ f.kind = g.kind /\ f.stage = g.stage
        /\ f.readSeq = g.readSeq /\ f.readPos = g.readPos /\ f.writeSeq = 3 /\ f.writePos = 1
    BY <2>3, <2>4 DEF ClientType
  <2> QED
    BY <1>6, <1>9, <2>3, <2>5
<1> HIDE DEF f
<1>11. Only(up', Finished)
  BY ONLY <1>6, <1>7, up = <<>>, OnlyOne
<1>12. received' \in Seq(Unit) /\ down' \in Seq(RecordType)
  <2>1. h.body \in Seq(Unit)
    BY <1>4 DEF RecordType
  <2> QED
    BY <1>1, <1>4, <1>6, <2>1, Joined
<1>13. Shape'
  BY <1>1, <1>6, <1>7, <1>8, <1>10, <1>12, ShapeSays DEF ConnInv, Shape
<1>14. UpSide(client', srv, up', sent, handled)
  <2>1. Finished.body = Slice(sent, sent - sent)
    BY <1>1, <1>8, EmptySlice
  <2>2. sent <= sent /\ srv.state # "ESTABLISHED"
    <3>1. sent \in Nat
      BY <1>1
    <3> QED
      BY ONLY srv.state = "WAIT_CLIENT_FINISHED", <3>1
  <2>3. UpSide(client', srv, Append(up, Finished), sent, handled)
    BY ONLY <1>1, <1>2, <1>8, <1>10, <2>1, <2>2, UpAppends
  <2> QED
    BY <1>6, <1>7, <2>3
<1>15. DownSide(client', srv, down', answered, received')
  <2>1. DownSide(client', srv, Tail(down), answered, received \o Head(down).body)
    BY ONLY <1>1, <1>2, <1>10, client.kind = "ssl2", client.stage = "wait SERVER_VERIFY", DownDrops
  <2> QED
    BY <1>1, <1>6, <2>1
<1>16. /\ PlainSide(client', srv, up', down', sent) /\ MisreadSide(client', srv, up', down', sent)
       /\ Ends(client', srv)
  BY <1>10 DEF PlainSide, MisreadSide, Ends
<1>17. SslSide(client', srv, up', down', sent)
  <2>1. UpPhase(srv.state, up') /\ Phase(client'.stage, srv.state, up', down')
    BY <1>1, <1>4, <1>10, <1>11 DEF UpPhase, Phase, Only
  <2> QED
    BY <1>5, <1>10, <2>1 DEF SslSide
<1> QED
  BY <1>1, <1>13, <1>14, <1>15, <1>16, <1>17 DEF ConnInv

\* SERVER_FINISHED opens the connection, and an answer is read on an open one.
LEMMA OpenReadKeeps ==
  ASSUME ConnInv, ClientRead, client.kind = "ssl2", srv.mode = "ssl2", srv.state = "ESTABLISHED",
         \/ /\ client.stage = "wait SERVER_FINISHED" /\ down[1].type = "SERVER_FINISHED"
            /\ \A i \in 2..Len(down) : down[i].type = "application"
         \/ client.stage = "open" /\ AllOf(down, "application")
  PROVE  ConnInv'
<1> DEFINE r == Head(down)
           e == AfterReading(r)
<1>1. /\ client \in ClientType /\ srv \in SrvType /\ up \in Seq(RecordType) /\ sent \in Nat
      /\ down \in Seq(RecordType) /\ received \in Seq(Unit) /\ answered \in Nat
      /\ client.stage # "gone" /\ down # <<>> /\ down' = Tail(down)
      /\ UNCHANGED <<sent, malformed, held, srv, handled, answered>>
  BY ClientReadFacts
<1>2. /\ UpSide(client, srv, up, sent, handled)
      /\ DownSide(client, srv, down, answered, received)
  BY DEF ConnInv
<1>3. /\ Tail(down) \in Seq(RecordType) /\ Len(Tail(down)) = Len(down) - 1
      /\ r = down[1] /\ r \in RecordType /\ Len(down) >= 1
      /\ \A i \in 1..(Len(down) - 1) : Tail(down)[i] = down[i + 1]
  BY <1>1, TailIs
<1>4. CanRead(r) /\ r.key = "s2c"
  BY <1>1, <1>2, <1>3, CanReadFirst
<1>5. /\ up' = up /\ received' = received \o r.body
      /\ \/ client' = [e EXCEPT !.stage = "open"]
         \/ client.stage = "open" /\ client' = e
  <2>1. received' = received \o r.body
    BY <1>4 DEF ClientRead
  <2>2. CASE client.stage = "wait SERVER_FINISHED"
    <3>1. r.type = "SERVER_FINISHED"
      BY <1>3, <2>2
    <3> QED
      BY <1>4, <2>1, <3>1 DEF ClientRead
  <2>3. CASE client.stage = "open" /\ AllOf(down, "application")
    <3>1. r.type = "application"
      BY <1>3, <2>3 DEF AllOf
    <3> QED
      BY <1>4, <2>1, <2>3, <3>1 DEF ClientRead
  <2> QED
    BY <2>2, <2>3
<1>6. /\ e \in ClientType /\ e.kind = client.kind /\ e.stage = client.stage
      /\ e.writeSeq = client.writeSeq /\ e.writePos = client.writePos
      /\ e.readSeq = client.readSeq + 1 /\ e.readPos = client.readPos + 1 + Len(r.body)
  BY <1>1, <1>3, <1>4, Reads
<1> HIDE DEF e, r
<1>7. /\ client' \in ClientType /\ client'.kind = "ssl2" /\ client'.stage = "open"
      /\ client'.writeSeq = client.writeSeq /\ client'.writePos = client.writePos
      /\ client'.readSeq = client.readSeq + 1 /\ client'.readPos = client.readPos + 1 + Len(r.body)
  <2>1. "open" \in Stage
    BY DEF Stage
  <2>2. LET f == [e EXCEPT !.stage = "open"] IN
        /\ f \in ClientType /\ f.kind = e.kind /\ f.stage = "open"
        /\ f.readSeq = e.readSeq /\ f.readPos = e.readPos
        /\ f.writeSeq = e.writeSeq /\ f.writePos = e.writePos
    BY <1>6, <2>1, NextStage
  <2>3. CASE client' = [e EXCEPT !.stage = "open"]
    BY <1>6, <2>2, <2>3
  <2>4. CASE client.stage = "open" /\ client' = e
    BY <1>6, <2>4
  <2> QED
    BY <1>5, <2>3, <2>4
<1>8. AllOf(down', "application")
  <2>1. ASSUME NEW i \in 1..Len(down')
        PROVE  down'[i].type = "application"
    <3>1. Len(down') = Len(down) - 1 /\ Len(down) \in Nat
      <4>1. Len(down') = Len(down) - 1
        BY ONLY <1>1, <1>3, Zenon
      <4>2. down \in Seq(RecordType)
        BY <1>1
      <4>3. Len(down) \in Nat
        BY ONLY <4>2
      <4> QED
        BY <4>1, <4>3
    <3>2. i \in 1..(Len(down) - 1) /\ i + 1 \in 2..Len(down) /\ i + 1 \in 1..Len(down)
      BY ONLY <3>1, i \in 1..Len(down')
    <3>3. down'[i] = down[i + 1]
      BY <1>1, <1>3, <3>2
    <3> QED
      BY <3>2, <3>3 DEF AllOf
  <2> QED
    BY <2>1 DEF AllOf
<1>9. Shape'
  BY <1>1, <1>5, <1>7, ShapeReads DEF ConnInv, r
<1>10. UpSide(client', srv, up, sent, handled)
  BY ONLY <1>1, <1>2, <1>7, client.kind = "ssl2", UpKeeps
<1>11. DownSide(client', srv, Tail(down), answered, received \o r.body)
  BY ONLY <1>1, <1>2, <1>7, client.kind = "ssl2", DownDrops DEF r
<1>12. /\ PlainSide(client', srv, up, down', sent) /\ MisreadSide(client', srv, up, down', sent)
       /\ SslSide(client', srv, up, down', sent) /\ Ends(client', srv)
  BY <1>7, <1>8 DEF PlainSide, MisreadSide, SslSide, Phase, Ends
<1> QED
  BY <1>1, <1>5, <1>9, <1>10, <1>11, <1>12 DEF ConnInv

\* Whatever record the client reads.
LEMMA ClientReadKeeps ==
  ASSUME ConnInv, ClientRead
  PROVE  ConnInv'
<1>1. /\ client \in ClientType /\ srv \in SrvType /\ client.stage # "gone" /\ down # <<>>
  BY ClientReadFacts
<1>2. CASE client.kind = "plain"
  BY <1>2, PlainReadKeeps
<1>3. CASE client.kind = "ssl2"
  <2>1. srv.mode # "plain" /\ srv.mode # "dead"
    BY <1>1, <1>3 DEF ConnInv, MisreadSide, Ends
  <2>2. srv.mode \in {"detect", "ssl2"}
    BY <1>1, <2>1 DEF SrvType
  <2>3. /\ Phase(client.stage, srv.state, up, down)
        /\ srv.mode = "detect" => srv.state = "WAIT_CLIENT_HELLO"
    BY <1>1, <1>3, <2>2 DEF ConnInv, SslSide
  <2>4. srv.mode = "ssl2" /\ srv.state # "WAIT_CLIENT_HELLO"
    BY <1>1, <2>2, <2>3 DEF Phase
  <2>5. \/ /\ client.stage = "wait SERVER_HELLO" /\ srv.state = "WAIT_CLIENT_MASTER_KEY"
           /\ up = <<>> /\ Only(down, Clear("SERVER_HELLO"))
        \/ /\ client.stage = "wait SERVER_VERIFY" /\ srv.state = "WAIT_CLIENT_FINISHED"
           /\ up = <<>> /\ Only(down, Verify)
        \/ /\ client.stage = "wait SERVER_FINISHED" /\ srv.state = "ESTABLISHED"
           /\ down[1].type = "SERVER_FINISHED"
           /\ \A i \in 2..Len(down) : down[i].type = "application"
        \/ client.stage = "open" /\ srv.state = "ESTABLISHED" /\ AllOf(down, "application")
    BY <1>1, <2>3 DEF Phase
  <2> QED
    BY <1>3, <2>4, <2>5, HelloReadKeeps, VerifyReadKeeps, OpenReadKeeps
<1> QED
  BY <1>1, <1>2, <1>3 DEF ClientType

\* The server reads with the same keys from the same buffer.
LEMMA UpSame ==
  ASSUME NEW c, NEW s \in SrvType, NEW t \in SrvType, NEW u, NEW n, NEW h, UpSide(c, s, u, n, h),
         t.state = s.state, SameMode(s, t), SameBuffer(s, t), SameReading(s, t)
  PROVE  UpSide(c, t, u, n, h)
<1>1. PICK S, a, o : Incoming(s, u, n, h, S, a, o) /\ Agreed(c, s, u, n, S, a)
  BY DEF UpSide
<1>2. Incoming(t, u, n, h, S, a, o)
  BY <1>1 DEF Incoming, SameMode, SameBuffer
<1>3. Agreed(c, t, u, n, S, a)
  BY <1>1 DEF Agreed, SameMode, SameReading
<1> QED
  BY <1>2, <1>3 DEF UpSide

\* Records of one type behind others.
LEMMA JoinedKind ==
  ASSUME NEW d \in Seq(RecordType), NEW q \in Seq(RecordType), NEW m \in Nat, m > 0, NEW t,
         \A i \in m..Len(d) : d[i].type = t, AllOf(q, t)
  PROVE  \A i \in m..Len(d \o q) : (d \o q)[i].type = t
<1>1. ASSUME NEW i \in m..Len(d \o q)
      PROVE  (d \o q)[i].type = t
  <2>1. /\ Len(d \o q) = Len(d) + Len(q) /\ Len(d) \in Nat /\ Len(q) \in Nat
        /\ i \in 1..(Len(d) + Len(q)) /\ i >= m
    OBVIOUS
  <2>2. CASE i <= Len(d)
    <3>1. (d \o q)[i] = d[i] /\ i \in m..Len(d)
      BY <2>1, <2>2
    <3> QED
      BY <3>1
  <2>3. CASE i > Len(d)
    <3>1. i - Len(d) \in 1..Len(q)
      BY <2>1, <2>3
    <3>2. (d \o q)[i] = q[i - Len(d)]
      BY <2>1, <2>3
    <3> QED
      BY <3>1, <3>2 DEF AllOf
  <2> QED
    BY <2>1, <2>2, <2>3
<1> QED
  BY <1>1

\* A packet of the server follows on from those it has sent.
LEMMA SendPacketKeeps ==
  ASSUME ConnInv, SendPacket
  PROVE  ConnInv' /\ srv'.closed = srv.closed
<1> DEFINE P == PacketUnits
           n == answered + 1
           a == answered * P
           p == PacketOf(n)
           w == WriteRecords(Working, Pieces(p))
<1>1. /\ client \in ClientType /\ srv \in SrvType /\ up \in Seq(RecordType) /\ sent \in Nat
      /\ down \in Seq(RecordType) /\ received \in Seq(Unit)
      /\ Established /\ ~srv.closed
      /\ UNCHANGED <<client, sent, malformed, up, held, handled, received>>
      /\ answered' = n
  BY DEF ConnInv, Shape, SendPacket
<1>2. answered \in Nat /\ n \in Nat /\ n \in 0..Replies /\ answered <= n /\ P \in Nat
      /\ a \in Nat /\ n * P = a + P
  <2>1. Replies \in Nat /\ answered \in 0..Replies /\ answered < Replies /\ P \in Nat
    BY TransportAssumption, PacketUnitsType DEF ConnInv, Shape, SendPacket
  <2> HIDE DEF P
  <2> QED
    BY <2>1
<1>3. /\ UpSide(client, srv, up, sent, handled)
      /\ DownSide(client, srv, down, answered, received)
  BY DEF ConnInv
<1>4. p = Slice(a, P) /\ p \in Seq(Unit) /\ Len(p) = P
  <2>1. PacketOf(n) = Slice(a, P)
    BY <1>2, SlicePacket
  <2> QED
    BY <1>2, <2>1, SliceType
<1>5. CASE srv.mode = "ssl2"
  <2>1. srv' = w.srv /\ down' = down \o w.out /\ srv.state = "ESTABLISHED"
    BY <1>1, <1>5 DEF SendPacket, Established
  <2>2. Working \in WorkType /\ Working.out = <<>> /\ Working.srv = srv /\ Working.pushed = <<>>
    BY <1>1 DEF Working, WorkType
  <2>3. PICK T :
          /\ w \in WorkType /\ w.pushed = Working.pushed
          /\ SameMode(srv, w.srv) /\ SameBuffer(srv, w.srv) /\ SameReading(srv, w.srv)
          /\ w.srv.state = srv.state
          /\ w.srv.writeSeq = srv.writeSeq + Len(w.out)
          /\ w.srv.writePos = srv.writePos + Len(w.out) + P
          /\ Carries(w.out, T, a, a + P) /\ AllOf(w.out, "application")
          /\ Chained(w.out, T, "s2c", srv.writeSeq, srv.writePos)
    <3>1. w = WriteRecords(Working, Pieces(Slice(a, P)))
      BY <1>4, Zenon
    <3> HIDE DEF a, P, w
    <3>2. \E T : LET d == WriteRecords(Working, Pieces(Slice(a, P))) IN
           /\ d \in WorkType /\ d.pushed = Working.pushed
           /\ SameMode(Working.srv, d.srv) /\ SameBuffer(Working.srv, d.srv)
           /\ SameReading(Working.srv, d.srv)
           /\ d.srv.state = Working.srv.state
           /\ d.srv.writeSeq = Working.srv.writeSeq + Len(d.out)
           /\ d.srv.writePos = Working.srv.writePos + Len(d.out) + P
           /\ Carries(d.out, T, a, a + P) /\ AllOf(d.out, "application")
           /\ Chained(d.out, T, "s2c", Working.srv.writeSeq, Working.srv.writePos)
      BY ONLY <1>2, <2>2, AnswerStream
    <3> QED
      BY ONLY <2>2, <3>1, <3>2
  <2> HIDE DEF p, w
  <2>4. /\ srv' \in SrvType /\ w.out \in Seq(RecordType) /\ srv'.state = srv.state
        /\ SameMode(srv, srv') /\ SameBuffer(srv, srv') /\ SameReading(srv, srv')
    BY <2>1, <2>3 DEF WorkType
  <2>5. /\ down' \in Seq(RecordType) /\ Len(down') = Len(down) + Len(w.out)
        /\ \A i \in 1..Len(down) : down'[i] = down[i]
        /\ \A i \in 1..(Len(down) + Len(w.out)) : i > Len(down) => down'[i] = w.out[i - Len(down)]
    BY <1>1, <2>1, <2>4, Joined
  <2>6. Shape'
    BY <1>1, <1>2, <2>4, <2>5 DEF ConnInv, Shape, Total
  <2>7. UpSide(client, srv', up, sent, handled)
    BY <1>1, <1>3, <2>4, UpSame
  <2>8. DownSide(client, srv', down', n, received)
    <3>1. Carries(w.out, T, answered * PacketUnits, n * PacketUnits)
      BY <1>2, <2>3
    <3>2. srv.writeSeq \in Nat /\ srv.writePos \in Nat
      BY <1>1 DEF SrvType
    <3>3. /\ srv'.writeSeq = srv.writeSeq + Len(w.out)
          /\ srv'.writePos = srv.writePos + Len(w.out) + (n * PacketUnits - answered * PacketUnits)
      <4>1. n * P - a = P
        BY <1>2
      <4> QED
        BY <2>1, <2>3, <4>1
    <3>4. DownSide(client, srv', down \o w.out, n, received)
      BY ONLY <1>1, <1>2, <1>3, <2>1, <2>3, <2>4, <3>1, <3>2, <3>3, DownJoins
    <3> QED
      BY <2>1, <3>4
  <2>9. client.kind = "ssl2"
    BY <1>1, <1>5 DEF ConnInv, PlainSide, ClientType
  <2>10. SslSide(client, srv', up, down', sent)
    <3>1. client.stage # "gone" => Phase(client.stage, "ESTABLISHED", up, down)
      BY <1>5, <2>1, <2>9 DEF ConnInv, SslSide
    <3>2. client.stage # "gone" => Phase(client.stage, "ESTABLISHED", up, down')
      <4>1. CASE client.stage = "wait SERVER_FINISHED"
        <5>1. /\ up = <<>> /\ down # <<>> /\ down[1].type = "SERVER_FINISHED"
              /\ \A i \in 2..Len(down) : down[i].type = "application"
          BY <3>1, <4>1 DEF Phase
        <5>2. 1 \in 1..Len(down) /\ down' # <<>> /\ down'[1] = down[1]
          BY <1>1, <2>5, <5>1
        <5>3. \A i \in 2..Len(down') : down'[i].type = "application"
          <6>1. \A i \in 2..Len(down \o w.out) : (down \o w.out)[i].type = "application"
            BY ONLY <1>1, <2>3, <2>4, <5>1, JoinedKind, 2 \in Nat, 2 > 0
          <6> QED
            BY <2>1, <6>1
        <5> QED
          BY <4>1, <5>1, <5>2, <5>3 DEF Phase
      <4>2. CASE client.stage = "open"
        <5>1. AllOf(down, "application")
          BY <3>1, <4>2 DEF Phase
        <5>2. \A i \in 1..Len(down') : down'[i].type = "application"
          <6>1. \A i \in 1..Len(down) : down[i].type = "application"
            BY <5>1 DEF AllOf
          <6>2. \A i \in 1..Len(down \o w.out) : (down \o w.out)[i].type = "application"
            BY ONLY <1>1, <2>3, <2>4, <6>1, JoinedKind, 1 \in Nat, 1 > 0
          <6> QED
            BY <2>1, <6>2
        <5> QED
          BY <4>2, <5>2 DEF Phase, AllOf
      <4> QED
        BY <3>1, <4>1, <4>2 DEF Phase
    <3> QED
      BY <1>5, <2>1, <2>4, <2>9, <3>2 DEF ConnInv, SslSide, SameMode, SameReading
  <2>11. /\ PlainSide(client, srv', up, down', sent) /\ MisreadSide(client, srv', up, down', sent)
         /\ Ends(client, srv')
    BY <1>5, <2>4, <2>9 DEF PlainSide, MisreadSide, Ends, SameMode
  <2> QED
    BY <1>1, <2>4, <2>6, <2>7, <2>8, <2>10, <2>11 DEF ConnInv, SameMode
<1>6. CASE srv.mode # "ssl2"
  <2> DEFINE r == Record("plain", p, "none", 0, 0)
  <2>1. srv' = srv /\ down' = Append(down, r) /\ srv.mode = "plain" /\ client.kind = "plain"
    BY <1>1, <1>6 DEF SendPacket, Established, Misread, ClientType
  <2>2. r \in RecordType /\ r.type = "plain" /\ r.body = p /\ r.key = "none"
    <3> HIDE DEF p
    <3> QED
      BY <1>4, RecordTypes DEF RecordKind, Record
  <2> HIDE DEF r, p
  <2>3. /\ srv.state = "WAIT_CLIENT_HELLO" /\ AllOf(down, "plain")
        /\ \A i \in 1..Len(down) : down[i].key = "none"
    BY <2>1 DEF ConnInv, PlainSide
  <2>4. Shape'
    BY <1>1, <1>2, <2>1, <2>2 DEF ConnInv, Shape, Total
  <2>5. DownSide(client, srv, down', n, received)
    <3> DEFINE T == Two(a, a + P)
    <3>1. /\ <<r>> \in Seq(RecordType) /\ Len(<<r>>) = 1 /\ <<r>>[1] = r
      BY <2>2
    <3>2. T \in [1..2 -> Nat] /\ T[1] = a /\ T[2] = a + P
      <4> HIDE DEF a, P
      <4> QED
        BY <1>2 DEF Two
    <3>3. (a + P) - a = P /\ a <= a + P
      <4> HIDE DEF a, P
      <4> QED
        BY <1>2
    <3> HIDE DEF T
    <3>4. Carries(<<r>>, T, a, a + P)
      <4>1. /\ T[1] <= T[1 + 1] /\ <<r>>[1].body = Slice(T[1], T[1 + 1] - T[1])
            /\ T[Len(<<r>>) + 1] = a + P /\ 1..(Len(<<r>>) + 1) = 1..2
        BY <1>4, <2>2, <3>1, <3>2, <3>3
      <4>2. \A i \in 1..Len(<<r>>) : i = 1
        BY <3>1
      <4> QED
        BY ONLY <3>2, <4>1, <4>2 DEF Carries
    <3>5. Carries(<<r>>, T, answered * PacketUnits, n * PacketUnits)
      BY <1>2, <3>4
    <3>6. 0 \in Nat
      OBVIOUS
    <3>7. DownSide(client, srv, down \o <<r>>, n, received)
      BY ONLY <1>1, <1>2, <1>3, <2>1, <3>1, <3>5, <3>6, DownJoins
    <3>8. down' = down \o <<r>>
      BY <1>1, <2>1, <2>2
    <3> QED
      BY <3>7, <3>8
  <2>6. AllOf(down', "plain")
    BY <1>1, <2>1, <2>2, <2>3, AllAppend
  <2>7. \A i \in 1..Len(down') : down'[i].key = "none"
    <3>1. ASSUME NEW i \in 1..Len(down')
          PROVE  down'[i].key = "none"
      <4>1. i \in 1..Len(down) \/ i = Len(down) + 1
        BY <1>1, <2>1, <2>2
      <4>2. CASE i \in 1..Len(down)
        <5>1. down'[i] = down[i]
          BY <1>1, <2>1, <4>2
        <5> QED
          BY <2>3, <4>2, <5>1
      <4>3. CASE i = Len(down) + 1
        <5>1. down'[i] = r
          BY <1>1, <2>1, <4>3
        <5> QED
          BY <2>2, <5>1
      <4> QED
        BY <4>1, <4>2, <4>3
    <3> QED
      BY <3>1
  <2>8. /\ PlainSide(client, srv, up, down', sent) /\ MisreadSide(client, srv, up, down', sent)
        /\ SslSide(client, srv, up, down', sent) /\ Ends(client, srv)
    BY <2>1, <2>6, <2>7 DEF ConnInv, PlainSide, MisreadSide, SslSide, Ends
  <2> QED
    BY <1>1, <1>3, <2>1, <2>4, <2>5, <2>8 DEF ConnInv
<1> QED
  BY <1>5, <1>6

-----------------------------------------------------------------------------
(* A chunk *)

\* What is left of the records is shorter than the next one.
LEMMA HeldIs ==
  ASSUME NEW u \in Seq(RecordType), NEW g \in Nat, u = <<>> => g = 0,
         NEW n \in Nat, n <= Extent(u, Len(u)) - g,
         NEW k \in 0..Len(u), Whole(u, k, g + n)
  PROVE  LET rest == SubSeq(u, k + 1, Len(u))
             h == g + n - Extent(u, k)
         IN /\ rest \in Seq(RecordType) /\ h \in Nat
            /\ (rest = <<>> => h = 0) /\ (rest # <<>> => h < Units(rest[1]))
<1> DEFINE l == Len(u)
           rest == SubSeq(u, k + 1, l)
           x == Extent(u, k)
           z == Extent(u, l)
           h == g + n - x
<1>1. l \in Nat /\ k \in Nat /\ k <= l /\ l \in 0..l
  OBVIOUS
<1>2. rest \in Seq(RecordType) /\ Len(rest) = l - k /\ (k < l => rest[1] = u[k + 1])
  OBVIOUS
<1>3. x \in Nat /\ z \in Nat /\ (k < l => Extent(u, k + 1) = x + Units(u[k + 1]))
  BY <1>1, ExtentStep
<1>4. x <= g + n /\ (k < l => g + n < Extent(u, k + 1))
  BY DEF Whole
<1>5. k < l => u[k + 1] \in RecordType /\ Units(u[k + 1]) \in Nat
  <2>1. ASSUME k < l
        PROVE  u[k + 1] \in RecordType
    <3>1. k + 1 \in 1..Len(u)
      BY <1>1, <2>1
    <3> QED
      BY <3>1
  <2> QED
    BY <2>1, RecordTypes
<1>6. k = l \/ k < l
  BY <1>1
<1>7. n <= z - g
  OBVIOUS
<1> HIDE DEF l, rest, x, z
<1>8. h \in Nat
  BY <1>3, <1>4
<1>9. CASE k = l
  <2>1. Len(rest) = 0
    BY <1>1, <1>2, <1>9
  <2>2. rest = <<>>
    BY <1>2, <2>1
  <2>3. h = 0
    <3>1. x = z
      BY <1>9 DEF x, z
    <3> QED
      BY <1>3, <1>4, <1>7, <3>1
  <2> QED
    BY <1>2, <1>8, <2>2, <2>3 DEF rest, x, l
<1>10. CASE k < l
  <2>1. Len(rest) # 0
    BY <1>1, <1>2, <1>10
  <2>2. rest # <<>>
    BY <2>1
  <2>3. h < Units(rest[1])
    <3> DEFINE y == Units(u[k + 1])
    <3>1. y \in Nat /\ g + n < x + y /\ rest[1] = u[k + 1]
      BY <1>2, <1>3, <1>4, <1>5, <1>10
    <3> HIDE DEF y
    <3>2. h < y
      BY <1>3, <3>1
    <3> QED
      BY <3>1, <3>2 DEF y
  <2> QED
    BY <1>2, <1>8, <2>2, <2>3 DEF rest, x, l
<1> QED
  BY <1>6, <1>9, <1>10

\* Some more packets reach the handlers: g follows on from h.
More(h, g, n, closed) ==
  \E j, p \in Nat :
    /\ p <= n /\ Arrived(g, p, closed)
    /\ Len(g) = Len(h) + j /\ (j = 0 => g = h)
    /\ \A k \in 1..Len(h) : Numbers(g)[k] = Numbers(h)[k]
    /\ DOMAIN Numbers(g) = 1..Len(g)

\* What the framing makes of the socket.
Framing(s, t, close) ==
  /\ t \in SrvType /\ t.mode = s.mode /\ t.state = s.state
  /\ SameReading(s, t) /\ SameWriting(s, t)
  /\ close => t.closed
  /\ ~close => t.closed = s.closed

\* The framing keeps the socket's types, and closes it as Close does.
LEMMA FramingIs ==
  ASSUME NEW s \in SrvType, NEW b \in Seq(Unit), NEW close \in BOOLEAN, close => b = <<>>
  PROVE  LET e == [s EXCEPT !.buffer = b]
             t == IF close THEN Close(e) ELSE e
         IN Framing(s, t, close) /\ t.buffer = b
<1> DEFINE e == [s EXCEPT !.buffer = b]
           c == [e EXCEPT !.closed = TRUE, !.buffer = <<>>, !.fin = (e.mode = "plain")]
<1>1. /\ e \in SrvType /\ e.mode = s.mode /\ e.state = s.state /\ e.closed = s.closed
      /\ SameReading(s, e) /\ SameWriting(s, e) /\ e.buffer = b
  BY DEF SrvType, SameReading, SameWriting
<1> HIDE DEF e
<1>2. /\ c \in SrvType /\ c.mode = e.mode /\ c.state = e.state /\ c.closed
      /\ SameReading(e, c) /\ SameWriting(e, c) /\ c.buffer = <<>>
  <2>1. <<>> \in Seq(Unit) /\ (e.mode = "plain") \in BOOLEAN
    OBVIOUS
  <2> QED
    BY <1>1, <2>1 DEF SrvType, SameReading, SameWriting
<1>3. Close(e) = IF e.closed THEN e ELSE c
  BY DEF Close
<1> HIDE DEF c
<1>4. CASE close
  <2>1. Framing(s, Close(e), close) /\ Close(e).buffer = b
    <3>1. CASE e.closed
      BY <1>1, <1>3, <1>4, <3>1 DEF Framing, SameReading, SameWriting
    <3>2. CASE ~e.closed
      BY <1>1, <1>2, <1>3, <1>4, <3>2 DEF Framing, SameReading, SameWriting
    <3> QED
      BY <3>1, <3>2
  <2> QED
    BY <1>4, <2>1 DEF e
<1>5. CASE ~close
  <2>1. Framing(s, e, close) /\ e.buffer = b
    BY <1>1, <1>5 DEF Framing, SrvType
  <2> QED
    BY <1>5, <2>1 DEF e
<1> QED
  BY <1>4, <1>5

\* The buffer and what a chunk pushed hold the units from o up to z.
LEMMA FramingUp ==
  ASSUME NEW c, NEW s \in SrvType, NEW u, NEW S, NEW z \in Nat, NEW n \in Nat, z <= n,
         Carries(u, S, z, n), Agreed(c, s, u, n, S, z),
         NEW o \in Nat, NEW m \in Nat, o + m = z,
         NEW h \in Seq(Seq(Unit)), Arrived(h, o, s.closed), NEW junk
  PROVE  LET f == Frames(Slice(o, m), junk)
             e == [s EXCEPT !.buffer = f.buffer]
             t == IF f.close THEN Close(e) ELSE e
             g == h \o f.packets
         IN /\ Framing(s, t, f.close) /\ g \in Seq(Seq(Unit)) /\ UpSide(c, t, u, n, g)
            /\ m = 0 => g = h
            /\ More(h, g, n, s.closed)
<1> DEFINE P == PacketUnits
           f == Frames(Slice(o, m), junk)
           e == [s EXCEPT !.buffer = f.buffer]
           t == IF f.close THEN Close(e) ELSE e
           g == h \o f.packets
<1>1. f \in FrameType
  BY FramesRead
<1>2. PICK j \in Nat : Read(f, o, m, j)
  BY FramesRead
<1> HIDE DEF f
<1>3. /\ j * P <= m /\ f.buffer \in Seq(Unit) /\ f.close \in BOOLEAN /\ f.packets \in Seq(Seq(Unit))
      /\ f.buffer = IF f.close THEN <<>> ELSE Slice(o + j * P, m - j * P)
  BY <1>1, <1>2 DEF Read, FrameType
<1>4. Framing(s, t, f.close) /\ t.buffer = f.buffer
  BY <1>3, FramingIs
<1>5. s.closed \in BOOLEAN
  BY DEF SrvType
<1>6. /\ Arrived(g, o + j * P, s.closed)
      /\ Len(g) = Len(h) + j /\ (j = 0 => g = h)
      /\ \A k \in 1..Len(h) : Numbers(g)[k] = Numbers(h)[k]
      /\ DOMAIN Numbers(g) = 1..Len(g)
  BY <1>1, <1>2, <1>5, ArrivedMore
<1>7. g \in Seq(Seq(Unit))
  BY <1>3, Joined
<1>8. P \in Nat /\ P >= 2
  BY PacketUnitsType
<1> DEFINE p == o + j * P
           l == m - j * P
<1> HIDE DEF P
<1>9. /\ p \in Nat /\ p <= z /\ p <= n /\ l \in Nat /\ p + l = z /\ (m = 0 => j = 0)
  <2>1. j * P \in Nat /\ (j # 0 => j * P >= 1)
    BY <1>8
  <2> DEFINE i == j * P
  <2>2. i \in Nat /\ i <= m /\ (j # 0 => i >= 1)
    BY <1>3, <2>1
  <2> HIDE DEF i
  <2>3. /\ o + i \in Nat /\ o + i <= z /\ o + i <= n /\ m - i \in Nat /\ (o + i) + (m - i) = z
        /\ (m = 0 => j = 0)
    BY <2>2
  <2> QED
    BY <2>3 DEF i
<1> HIDE DEF g, t, e, p, l
<1>10. More(h, g, n, s.closed)
  BY <1>6, <1>9 DEF More, p, P
<1>11. UpSide(c, t, u, n, g)
  <2>1. Agreed(c, t, u, n, S, z)
    BY <1>4 DEF Framing, Agreed, SameReading
  <2>2. CASE f.close
    <3>1. t.closed = TRUE /\ t.buffer = <<>>
      BY <1>3, <1>4, <2>2 DEF Framing, SrvType
    <3>2. Arrived(g, z, TRUE)
      BY <1>5, <1>6, <1>7, <1>9, ArrivedClosed DEF p, P
    <3>3. Slice(z, 0) = <<>> /\ Len(<<>>) = 0 /\ z + 0 = z
      BY EmptySlice
    <3>4. Incoming(t, u, n, g, S, z, z)
      BY <3>1, <3>2, <3>3 DEF Incoming
    <3> QED
      BY <2>1, <3>4 DEF UpSide
  <2>3. CASE ~f.close
    <3>1. t.closed = s.closed /\ t.buffer = Slice(p, l)
      BY <1>3, <1>4, <2>3 DEF Framing, p, l, P
    <3>2. Len(t.buffer) = l
      <4>1. Len(Slice(p, l)) = l
        BY ONLY <1>9, SliceType
      <4> QED
        BY <3>1, <4>1
    <3>3. Arrived(g, p, t.closed)
      BY <1>6, <3>1 DEF p, P
    <3>4. Incoming(t, u, n, g, S, z, p)
      BY <1>9, <3>1, <3>2, <3>3 DEF Incoming
    <3> QED
      BY <2>1, <3>4 DEF UpSide
  <2> QED
    BY <1>3, <2>2, <2>3
<1>12. m = 0 => g = h
  BY <1>6, <1>9
<1> QED
  BY <1>4, <1>7, <1>10, <1>11, <1>12 DEF g, t, e, f

\* A chunk ends k records; d is the socket after them, and b what is framed then.
Arriving(n, k, d, b, junk) ==
  LET f == Frames(b, junk)
      e == [d.srv EXCEPT !.buffer = f.buffer]
  IN /\ n \in Nat /\ n <= InFlight /\ k \in 0..Len(up) /\ Whole(up, k, held + n)
     /\ up' = SubSeq(up, k + 1, Len(up)) /\ held' = held + n - Extent(up, k)
     /\ down' = down \o d.out
     /\ handled' = handled \o f.packets
     /\ srv' = IF f.close THEN Close(e) ELSE e
     /\ UNCHANGED <<client, sent, malformed, answered, received>>

\* What the socket is, after the framing, of what it was before.
After(s, t) ==
  /\ t \in SrvType /\ t.mode = s.mode /\ t.state = s.state
  /\ SameReading(s, t) /\ SameWriting(s, t) /\ (s.closed => t.closed)

\* What was pushed, behind what was in the buffer, is framed: the stream to the
\* server still holds, and the packets that were read follow on.
LEMMA ArrivingUp ==
  ASSUME Shape, NEW n, NEW k, NEW d \in WorkType, NEW b, NEW junk, Arriving(n, k, d, b, junk),
         NEW S, NEW a, Carries(up, S, a, sent),
         NEW o \in Nat, NEW m \in Nat, o + m = S[k + 1], b = Slice(o, m),
         Arrived(handled, o, d.srv.closed),
         Agreed(client, d.srv, up', sent, Later(S, k, Len(up)), S[k + 1])
  PROVE  /\ Shape' /\ UpSide(client, srv', up', sent, handled') /\ After(d.srv, srv')
         /\ m = 0 => handled' = handled
         /\ More(handled, handled', sent, d.srv.closed)
<1> DEFINE f == Frames(Slice(o, m), junk)
           e == [d.srv EXCEPT !.buffer = f.buffer]
           t == IF f.close THEN Close(e) ELSE e
           g == handled \o f.packets
           L == Later(S, k, Len(up))
           z == S[k + 1]
           u == SubSeq(up, k + 1, Len(up))
           h == held + n - Extent(up, k)
<1>1. /\ n \in Nat /\ n <= InFlight /\ k \in 0..Len(up) /\ Whole(up, k, held + n)
      /\ up' = u /\ held' = h /\ down' = down \o d.out /\ handled' = g /\ srv' = t
      /\ UNCHANGED <<client, sent, malformed, answered, received>>
  BY DEF Arriving
<1>2. /\ up \in Seq(RecordType) /\ held \in Nat /\ (up = <<>> => held = 0) /\ sent \in Nat
      /\ handled \in Seq(Seq(Unit)) /\ down \in Seq(RecordType)
  BY DEF Shape
<1>3. /\ u \in Seq(RecordType) /\ h \in Nat
      /\ (u = <<>> => h = 0) /\ (u # <<>> => h < Units(u[1]))
  BY ONLY <1>1, <1>2, HeldIs, ZenonT(30) DEF InFlight
<1>4. Carries(u, L, z, sent) /\ k + 1 \in 1..(Len(up) + 1)
  <2>1. k + 1 \in 1..(Len(up) + 1)
    <3>1. k \in 0..Len(up) /\ Len(up) \in Nat
      BY <1>1, <1>2
    <3> QED
      BY ONLY <3>1
  <2> QED
    BY <1>1, <1>2, <2>1, StreamDrops
<1>5. z \in Nat /\ z <= sent
  BY <1>2, <1>4, StreamGrows
<1>6. d.srv \in SrvType /\ d.out \in Seq(RecordType)
  BY DEF WorkType
<1>7. Agreed(client, d.srv, u, sent, L, z)
  BY <1>1
<1> HIDE DEF u, L, z, h
<1>8. o + m = z
  BY DEF z
<1>9. /\ Framing(d.srv, t, f.close) /\ g \in Seq(Seq(Unit)) /\ UpSide(client, t, u, sent, g)
      /\ (m = 0 => g = handled)
      /\ More(handled, g, sent, d.srv.closed)
  BY ONLY <1>2, <1>4, <1>5, <1>6, <1>7, <1>8, o \in Nat, m \in Nat,
          Arrived(handled, o, d.srv.closed), FramingUp
<1> HIDE DEF f, e, t, g
<1>10. down' \in Seq(RecordType)
  BY <1>1, <1>2, <1>6, Joined
<1>11. After(d.srv, t)
  BY <1>9 DEF After, Framing
<1>12. Shape'
  <2>1. held' < Units(up[1])' \/ up' = <<>>
    <3>1. up' # <<>> => held' < Units(up'[1])
      BY <1>1, <1>3
    <3> QED
      BY <3>1
  <2> QED
    BY <1>1, <1>3, <1>9, <1>10, <1>11, <2>1 DEF Shape, After, Total
<1> QED
  BY <1>1, <1>9, <1>11, <1>12

\* Before the first packet nothing is framed.
LEMMA ArrivingNothing ==
  ASSUME ConnInv, sent = 0, NEW n, NEW k, NEW d \in WorkType, NEW junk,
         Arriving(n, k, d, <<>>, junk),
         srv.closed => d.srv.closed,
         (client.kind = "ssl2" /\ d.srv.mode = "ssl2" /\ d.srv.state = "ESTABLISHED") =>
           /\ up' = <<>>
           /\ client.stage # "gone" =>
                client.writeSeq = d.srv.readSeq /\ client.writePos = d.srv.readPos
  PROVE  /\ Shape' /\ UpSide(client, srv', up', sent, handled') /\ After(d.srv, srv')
         /\ handled' = handled
<1>1. /\ client \in ClientType /\ srv \in SrvType /\ up \in Seq(RecordType)
      /\ handled \in Seq(Seq(Unit)) /\ Shape
  BY DEF ConnInv, Shape
<1>2. PICK S, a, o : Incoming(srv, up, sent, handled, S, a, o)
  BY DEF ConnInv, UpSide
<1>3. /\ Carries(up, S, a, sent) /\ o \in Nat /\ o + Len(srv.buffer) = a
      /\ Arrived(handled, o, srv.closed)
  BY <1>2 DEF Incoming
<1>4. k \in 0..Len(up) /\ k + 1 \in 1..(Len(up) + 1)
  <2>1. k \in 0..Len(up)
    BY DEF Arriving
  <2> QED
    BY <1>1, <2>1
<1>5. a \in Nat /\ a <= sent /\ S[k + 1] \in Nat /\ S[k + 1] <= sent
  BY <1>1, <1>3, <1>4, StreamGrows
<1>6. a = 0 /\ S[k + 1] = 0 /\ o = 0
  <2>1. Len(srv.buffer) \in Nat
    BY <1>1 DEF SrvType
  <2> QED
    BY <1>3, <1>5, <2>1
<1>7. Arrived(handled, 0, d.srv.closed)
  <2>1. srv.closed \in BOOLEAN /\ d.srv.closed \in BOOLEAN
    BY <1>1 DEF SrvType, WorkType
  <2>2. Arrived(handled, 0, TRUE) /\ Arrived(handled, 0, srv.closed)
    <3>1. Arrived(handled, 0, srv.closed) /\ 0 \in Nat /\ 0 <= 0
      BY <1>3, <1>6
    <3>2. Arrived(handled, 0, TRUE)
      BY ONLY <1>1, <3>1, ArrivedClosed
    <3> QED
      BY <3>1, <3>2
  <2>3. d.srv.closed = TRUE \/ d.srv.closed = srv.closed
    BY <2>1
  <2> QED
    BY <2>2, <2>3
<1>8. Agreed(client, d.srv, up', sent, Later(S, k, Len(up)), S[k + 1])
  <2>1. ASSUME client.kind = "ssl2", d.srv.mode = "ssl2", d.srv.state = "ESTABLISHED"
        PROVE  /\ Chained(up', Later(S, k, Len(up)), "c2s", d.srv.readSeq, d.srv.readPos)
               /\ AllOf(up', "application")
               /\ client.stage # "gone" =>
                    /\ client.writeSeq = d.srv.readSeq + Len(up')
                    /\ client.writePos = d.srv.readPos + Len(up') + (sent - S[k + 1])
    <3>1. up' = <<>> /\ Len(<<>>) = 0 /\ sent - S[k + 1] = 0
      BY <1>6, <2>1
    <3>2. Chained(<<>>, Later(S, k, Len(up)), "c2s", d.srv.readSeq, d.srv.readPos)
          /\ AllOf(<<>>, "application")
      BY DEF Chained, AllOf
    <3>3. d.srv.readSeq \in Nat /\ d.srv.readPos \in Nat
      BY DEF WorkType, SrvType
    <3>4. d.srv.readSeq + 0 = d.srv.readSeq /\ d.srv.readPos + 0 + 0 = d.srv.readPos
      BY <3>3
    <3> QED
      BY <2>1, <3>1, <3>2, <3>4
  <2> QED
    BY <2>1 DEF Agreed
<1>9. <<>> = Slice(0, 0) /\ 0 + 0 = S[k + 1] /\ 0 \in Nat
  BY <1>6, EmptySlice
<1> QED
  BY ONLY <1>1, <1>3, <1>7, <1>8, <1>9, Arriving(n, k, d, <<>>, junk), d \in WorkType, ArrivingUp

\* The server writes a record with nothing to read in it.
LEMMA DownOne ==
  ASSUME NEW c \in ClientType, NEW s \in SrvType, NEW t \in SrvType,
         NEW d \in Seq(RecordType), NEW m \in Nat, NEW v \in Seq(Unit), DownSide(c, s, d, m, v),
         NEW r \in RecordType, r.body = <<>>, NEW q \in Nat, NEW p \in Nat,
         (c.kind = "ssl2" /\ c.stage # "gone"
            /\ t.state \in {"WAIT_CLIENT_FINISHED", "ESTABLISHED"}) =>
           /\ \/ /\ s.state \in {"WAIT_CLIENT_FINISHED", "ESTABLISHED"}
                 /\ q = s.writeSeq /\ p = s.writePos
              \/ d = <<>> /\ q = c.readSeq /\ p = c.readPos
           /\ r.key = "s2c" /\ r.seq = q /\ r.pos = p
           /\ t.writeSeq = q + 1 /\ t.writePos = p + 1
  PROVE  DownSide(c, t, d \o <<r>>, m, v)
<1> DEFINE z == m * PacketUnits
           T == Two(z, z)
           qs == <<r>>
<1>1. z \in Nat
  BY PacketUnitsType
<1>2. qs \in Seq(RecordType) /\ Len(qs) = 1 /\ qs[1] = r
  OBVIOUS
<1> HIDE DEF z
<1>3. T \in [1..2 -> Nat] /\ T[1] = z /\ T[2] = z /\ z - z = 0 /\ z <= z
  BY <1>1 DEF Two
<1> HIDE DEF T, qs
<1>4. \A i \in 1..1 : i = 1
  OBVIOUS
<1>5. Carries(qs, T, z, z)
  <2>1. Slice(z, z - z) = <<>>
    BY <1>1, EmptySlice
  <2>2. 1 + 1 = 2
    OBVIOUS
  <2> QED
    BY <1>2, <1>3, <1>4, <2>1, <2>2 DEF Carries
<1>6. ASSUME r.key = "s2c", r.seq = q, r.pos = p
      PROVE  Chained(qs, T, "s2c", q, p)
  <2>1. q + (1 - 1) = q /\ p + (1 - 1) + (z - z) = p
    BY <1>1
  <2> QED
    BY <1>2, <1>3, <1>4, <1>6, <2>1 DEF Chained
<1>7. q + Len(qs) = q + 1 /\ p + Len(qs) + (z - z) = p + 1 /\ m <= m
  BY <1>1, <1>2
<1>8. DownSide(c, t, d \o qs, m, v)
  BY <1>2, <1>5, <1>6, <1>7, DownJoins, ZenonT(30) DEF z
<1> QED
  BY <1>8 DEF qs

\* The socket when the chunk comes, in the mode its first chunk gave it.
Started(m) == [Working EXCEPT !.srv.mode = m]

\* The work on a chunk starts from the socket as it is.
LEMMA StartedIs ==
  ASSUME srv \in SrvType, NEW m \in {"plain", "ssl2"}
  PROVE  LET w == Started(m) IN
         /\ w \in WorkType /\ w.srv.mode = m /\ w.srv.state = srv.state
         /\ w.srv.closed = srv.closed /\ SameBuffer(srv, w.srv)
         /\ SameReading(srv, w.srv) /\ SameWriting(srv, w.srv)
         /\ w.out = <<>> /\ w.pushed = <<>>
<1> DEFINE s == [srv EXCEPT !.mode = m]
           w == [srv |-> s, out |-> <<>>, pushed |-> <<>>]
<1>1. Started(m) = w
  BY DEF Started, Working
<1>2. /\ s \in SrvType /\ s.mode = m /\ s.state = srv.state /\ s.closed = srv.closed
      /\ SameBuffer(srv, s) /\ SameReading(srv, s) /\ SameWriting(srv, s)
  BY DEF SrvType, SameBuffer, SameReading, SameWriting
<1> HIDE DEF s
<1>3. /\ w \in WorkType /\ w.srv = s /\ w.out = <<>> /\ w.pushed = <<>>
  BY <1>2 DEF WorkType
<1> HIDE DEF w
<1> QED
  BY <1>1, <1>2, <1>3

\* The invariant, and what the chunk did to the packets of the handlers.
Outcome ==
  /\ ConnInv' /\ (srv.closed => srv'.closed)
  /\ handled' = handled \/ More(handled, handled', sent, srv.closed)

\* A chunk of a connection that is open: every record in it is read.
LEMMA StreamChunk ==
  ASSUME ConnInv, NEW n, NEW k, NEW m \in {"plain", "ssl2"}, NEW junk,
         \/ m = "plain" /\ client.kind = "plain"
         \/ m = "ssl2" /\ client.kind = "ssl2" /\ srv.mode = "ssl2" /\ srv.state = "ESTABLISHED",
         NEW d, d = ReadRecords(Started(m), up, k),
         Arriving(n, k, d, srv.buffer \o d.pushed, junk)
  PROVE  /\ Shape' /\ UpSide(client, srv', up', sent, handled') /\ After(d.srv, srv')
         /\ More(handled, handled', sent, srv.closed)
         /\ d.srv.mode = m /\ d.srv.state = srv.state /\ d.out = <<>>
         /\ d.srv.closed = srv.closed /\ SameWriting(srv, d.srv)
<1>1. /\ client \in ClientType /\ srv \in SrvType /\ up \in Seq(RecordType)
      /\ handled \in Seq(Seq(Unit)) /\ Shape /\ k \in 0..Len(up) /\ sent \in Nat
  BY DEF ConnInv, Shape, Arriving
<1> DEFINE w == Started(m)
           l == Len(up)
<1>2. /\ w \in WorkType /\ w.srv.mode = m /\ w.srv.state = srv.state
      /\ w.srv.closed = srv.closed /\ SameBuffer(srv, w.srv)
      /\ SameReading(srv, w.srv) /\ SameWriting(srv, w.srv)
      /\ w.out = <<>> /\ w.pushed = <<>>
  BY <1>1, StartedIs
<1> HIDE DEF w
<1>3. PICK S, a, o : Incoming(srv, up, sent, handled, S, a, o) /\ Agreed(client, srv, up, sent, S, a)
  BY DEF ConnInv, UpSide
<1> DEFINE z == S[k + 1]
           b == Len(srv.buffer)
<1>4. /\ Carries(up, S, a, sent) /\ o \in Nat /\ o + b = a /\ srv.buffer = Slice(o, b)
      /\ Arrived(handled, o, srv.closed)
  BY <1>3 DEF Incoming
<1>5. a \in Nat /\ a <= z /\ z \in Nat /\ z <= sent /\ b \in Nat
  <2>1. k + 1 \in 1..(Len(up) + 1)
    BY <1>1
  <2>2. a \in Nat /\ a <= z /\ z \in Nat /\ z <= sent
    BY <1>1, <1>4, <2>1, StreamGrows
  <2> QED
    BY <1>1, <2>2 DEF SrvType
<1>6. m = "ssl2" => Chained(up, S, "c2s", w.srv.readSeq, w.srv.readPos)
  BY <1>2, <1>3 DEF Agreed, SameReading
<1>7. HasRead(w, d, S, a, k)
  <2>1. d = ReadRecords(w, up, k)
    BY DEF w
  <2>2. \/ w.srv.mode \notin {"dead", "ssl2"}
        \/ /\ w.srv.mode = "ssl2" /\ w.srv.state = "ESTABLISHED"
           /\ Chained(up, S, "c2s", w.srv.readSeq, w.srv.readPos)
    BY <1>2, <1>6
  <2> QED
    BY ONLY <1>1, <1>2, <1>4, <2>1, <2>2, StreamRead
<1>8. /\ d \in WorkType /\ d.out = <<>> /\ d.pushed = Slice(a, z - a)
      /\ d.srv.mode = m /\ d.srv.state = srv.state /\ d.srv.closed = srv.closed
      /\ SameWriting(srv, d.srv)
      /\ m = "ssl2" => d.srv.readSeq = srv.readSeq + k /\ d.srv.readPos = srv.readPos + k + (z - a)
  BY <1>2, <1>7 DEF HasRead, SameMode, SameWriting, SameReading
<1> DEFINE y == z - a
           x == b + y
<1> HIDE DEF z, b
<1>9. y \in Nat /\ x \in Nat /\ o + x = z
  BY ONLY <1>4, <1>5
<1> HIDE DEF y, x
<1>10. srv.buffer \o d.pushed = Slice(o, x)
  <2>1. Slice(o, b) \o Slice(o + b, y) = Slice(o, b + y)
    BY ONLY <1>4, <1>5, <1>9, SliceJoin, ZenonT(30)
  <2> QED
    BY <1>4, <1>8, <2>1 DEF x, y
<1>11. Agreed(client, d.srv, up', sent, Later(S, k, l), z)
  <2>1. ASSUME client.kind = "ssl2", d.srv.mode = "ssl2", d.srv.state = "ESTABLISHED"
        PROVE  /\ Chained(up', Later(S, k, l), "c2s", d.srv.readSeq, d.srv.readPos)
               /\ AllOf(up', "application")
               /\ client.stage # "gone" =>
                    /\ client.writeSeq = d.srv.readSeq + Len(up')
                    /\ client.writePos = d.srv.readPos + Len(up') + (sent - z)
    <3> DEFINE q == srv.readSeq
               p == srv.readPos
               L == Later(S, k, l)
    <3>1. m = "ssl2" /\ srv.mode = "ssl2" /\ srv.state = "ESTABLISHED"
      BY <1>8, <2>1
    <3>2. /\ Chained(up, S, "c2s", q, p) /\ AllOf(up, "application")
          /\ client.stage # "gone" => /\ client.writeSeq = q + l
                                      /\ client.writePos = p + l + (sent - a)
      BY <1>3, <2>1, <3>1 DEF Agreed
    <3>3. q \in Nat /\ p \in Nat /\ l \in Nat /\ k \in Nat
      BY <1>1 DEF SrvType
    <3>4. up' = SubSeq(up, k + 1, l)
      BY DEF Arriving
    <3> DEFINE u == SubSeq(up, k + 1, l)
    <3>5. /\ u \in Seq(RecordType) /\ Len(u) = l - k
          /\ \A i \in 1..Len(u) : u[i] = up[i + k]
          /\ \A key : \A seq, pos \in Nat : Chained(up, S, key, seq, pos) =>
               Chained(u, L, key, seq + k, pos + k + (z - a))
      BY <1>1, <1>4, StreamDrops DEF z
    <3> HIDE DEF u, L, q, p
    <3>6. Chained(u, L, "c2s", q + k, p + k + (z - a))
      BY <3>2, <3>3, <3>5
    <3>7. AllOf(u, "application")
      <4>1. ASSUME NEW i \in 1..Len(u)
            PROVE  u[i].type = "application"
        <5>1. i + k \in 1..Len(up)
          BY <3>3, <3>5
        <5> QED
          BY <3>2, <3>5, <5>1 DEF AllOf
      <4> QED
        BY <4>1 DEF AllOf
    <3> HIDE DEF l
    <3>8. q + l = (q + k) + (l - k) /\ p + l + (sent - a) = (p + k + (z - a)) + (l - k) + (sent - z)
      BY <1>1, <1>5, <3>3
    <3>9. d.srv.readSeq = q + k /\ d.srv.readPos = p + k + (z - a)
      BY <1>8, <3>1 DEF q, p
    <3> QED
      BY <3>2, <3>4, <3>5, <3>6, <3>7, <3>8, <3>9 DEF u, L
  <2> QED
    BY <2>1 DEF Agreed
<1>12. /\ Shape' /\ UpSide(client, srv', up', sent, handled') /\ After(d.srv, srv')
       /\ More(handled, handled', sent, d.srv.closed)
  <2>1. Arriving(n, k, d, Slice(o, x), junk)
    BY <1>10
  <2>2. Arrived(handled, o, d.srv.closed)
    BY <1>4, <1>8
  <2>3. o + x = S[k + 1] /\ Agreed(client, d.srv, up', sent, Later(S, k, Len(up)), S[k + 1])
    BY <1>9, <1>11 DEF z, l
  <2> QED
    BY ONLY <1>1, <1>4, <1>8, <1>9, <2>1, <2>2, <2>3, ArrivingUp
<1> QED
  BY <1>8, <1>12

\* Of one record, all or nothing is left.
LEMMA Dropped ==
  ASSUME NEW u \in Seq(RecordType), NEW k \in 0..Len(u)
  PROVE  LET rest == SubSeq(u, k + 1, Len(u)) IN
         /\ \A t : AllOf(u, t) => AllOf(rest, t)
         /\ u = <<>> => rest = <<>>
         /\ Len(u) = 1 => rest = <<>> \/ rest = u
<1> DEFINE l == Len(u)
           rest == SubSeq(u, k + 1, l)
<1>1. /\ l \in Nat /\ k \in Nat /\ rest \in Seq(RecordType) /\ Len(rest) = l - k
      /\ \A i \in 1..(l - k) : rest[i] = u[i + k] /\ i + k \in 1..l
  OBVIOUS
<1>2. k = 0 => rest = u
  OBVIOUS
<1> HIDE DEF rest
<1>3. \A t : AllOf(u, t) => AllOf(rest, t)
  BY <1>1 DEF AllOf
<1>4. k = l => rest = <<>>
  <2>1. ASSUME k = l
        PROVE  rest = <<>>
    <3>1. Len(rest) = 0
      BY <1>1, <2>1
    <3> QED
      BY <1>1, <3>1
  <2> QED
    BY <2>1
<1>5. u = <<>> => k = l
  BY <1>1
<1>6. l = 1 => k = l \/ k = 0
  BY <1>1
<1> QED
  BY <1>2, <1>3, <1>4, <1>5, <1>6 DEF rest

\* Before the client has written there is nothing in the buffer.
LEMMA NothingBuffered ==
  ASSUME ConnInv, sent = 0
  PROVE  srv.buffer = <<>>
<1>1. srv.buffer \in Seq(Unit) /\ up \in Seq(RecordType)
  BY DEF ConnInv, Shape, SrvType
<1>2. PICK S, a, o : Incoming(srv, up, sent, handled, S, a, o)
  BY DEF ConnInv, UpSide
<1>3. Carries(up, S, a, sent) /\ o \in Nat /\ o + Len(srv.buffer) = a
  BY <1>2 DEF Incoming
<1>4. a \in Nat /\ a <= sent
  BY <1>1, <1>3, StreamGrows
<1>5. Len(srv.buffer) = 0
  BY <1>1, <1>3, <1>4
<1> QED
  BY <1>1, <1>5

\* A plain connection: what arrives is framed.
LEMMA PlainChunk ==
  ASSUME ConnInv, NEW n, NEW k, NEW junk, client.kind = "plain", srv.mode # "dead",
         NEW d, d = ReadRecords(Started("plain"), up, k),
         Arriving(n, k, d, srv.buffer \o d.pushed, junk)
  PROVE  Outcome
<1>1. /\ client \in ClientType /\ srv \in SrvType /\ up \in Seq(RecordType)
      /\ down \in Seq(RecordType) /\ k \in 0..Len(up)
      /\ up' = SubSeq(up, k + 1, Len(up)) /\ down' = down \o d.out
      /\ UNCHANGED <<client, sent, malformed, answered, received>>
  BY DEF ConnInv, Shape, Arriving
<1>2. /\ Shape' /\ UpSide(client, srv', up', sent, handled') /\ After(d.srv, srv')
      /\ More(handled, handled', sent, srv.closed)
      /\ d.srv.mode = "plain" /\ d.srv.state = srv.state /\ d.out = <<>>
      /\ d.srv.closed = srv.closed /\ SameWriting(srv, d.srv)
  BY StreamChunk
<1>3. down' = down
  BY <1>1, <1>2
<1>4. /\ srv.state = "WAIT_CLIENT_HELLO" /\ client.stage \in {"connected", "open", "gone"}
      /\ AllOf(up, "plain") /\ AllOf(down, "plain")
      /\ \A i \in 1..Len(down) : down[i].key = "none"
      /\ client.stage = "connected" => up = <<>> /\ sent = 0
  BY DEF ConnInv, PlainSide
<1>5. srv'.mode = "plain" /\ srv'.state = "WAIT_CLIENT_HELLO" /\ SameWriting(srv, srv')
  BY <1>2, <1>4 DEF After, SameWriting
<1>6. DownSide(client, srv', down, answered, received)
  BY <1>4, <1>5, DownKeeps DEF ConnInv
<1>7. AllOf(up', "plain") /\ (client.stage = "connected" => up' = <<>>)
  BY <1>1, <1>4, Dropped
<1>8. /\ PlainSide(client, srv', up', down, sent) /\ MisreadSide(client, srv', up', down, sent)
      /\ SslSide(client, srv', up', down, sent) /\ Ends(client, srv')
  BY <1>4, <1>5, <1>7 DEF PlainSide, MisreadSide, SslSide, Ends
<1>9. ConnInv'
  BY <1>1, <1>2, <1>3, <1>6, <1>8 DEF ConnInv
<1> QED
  BY <1>2, <1>9 DEF Outcome, After

\* An open SSL connection: every record is deciphered, and what it holds is framed.
LEMMA OpenChunk ==
  ASSUME ConnInv, NEW n, NEW k, NEW junk,
         client.kind = "ssl2", srv.mode = "ssl2", srv.state = "ESTABLISHED",
         NEW d, d = ReadRecords(Started("ssl2"), up, k),
         Arriving(n, k, d, srv.buffer \o d.pushed, junk), up # <<>>
  PROVE  Outcome
<1>1. /\ client \in ClientType /\ srv \in SrvType /\ up \in Seq(RecordType)
      /\ down \in Seq(RecordType) /\ k \in 0..Len(up)
      /\ up' = SubSeq(up, k + 1, Len(up)) /\ down' = down \o d.out
      /\ UNCHANGED <<client, sent, malformed, answered, received>>
  BY DEF ConnInv, Shape, Arriving
<1>2. /\ Shape' /\ UpSide(client, srv', up', sent, handled') /\ After(d.srv, srv')
      /\ More(handled, handled', sent, srv.closed)
      /\ d.srv.mode = "ssl2" /\ d.srv.state = srv.state /\ d.out = <<>>
      /\ d.srv.closed = srv.closed /\ SameWriting(srv, d.srv)
  BY StreamChunk
<1>3. down' = down
  BY <1>1, <1>2
<1>4. srv'.mode = "ssl2" /\ srv'.state = "ESTABLISHED" /\ SameWriting(srv, srv')
  BY <1>2 DEF After, SameWriting
<1>5. DownSide(client, srv', down, answered, received)
  BY <1>4, DownKeeps DEF ConnInv
<1>6. client.stage # "gone" => client.stage = "open" /\ AllOf(down, "application")
  BY DEF ConnInv, SslSide, Phase
<1>7. /\ PlainSide(client, srv', up', down, sent) /\ MisreadSide(client, srv', up', down, sent)
      /\ Ends(client, srv')
  BY <1>4 DEF PlainSide, MisreadSide, Ends
<1>8. SslSide(client, srv', up', down, sent)
  <2>1. client.stage # "gone" => Phase(client.stage, "ESTABLISHED", up', down)
    BY <1>6 DEF Phase
  <2>2. client.stage \notin {"connected", "wait SERVER_HELLO", "wait SERVER_VERIFY"}
    BY <1>6
  <2> QED
    BY <1>4, <2>1, <2>2 DEF SslSide
<1>9. ConnInv'
  BY <1>1, <1>2, <1>3, <1>5, <1>7, <1>8 DEF ConnInv
<1> QED
  BY <1>2, <1>9 DEF Outcome, After

\* In the handshake some units of a record arrived, and the record is not whole.
LEMMA WaitingChunk ==
  ASSUME ConnInv, NEW n, NEW junk,
         client.kind = "ssl2", srv.mode \in {"detect", "ssl2"}, srv.state # "ESTABLISHED",
         Arriving(n, 0, Started("ssl2"), <<>>, junk)
  PROVE  Outcome
<1> DEFINE d == Started("ssl2")
<1>1. /\ client \in ClientType /\ srv \in SrvType /\ up \in Seq(RecordType)
      /\ down \in Seq(RecordType)
      /\ up' = SubSeq(up, 0 + 1, Len(up)) /\ down' = down \o d.out
      /\ UNCHANGED <<client, sent, malformed, answered, received>>
  BY DEF ConnInv, Shape, Arriving
<1>2. /\ d \in WorkType /\ d.srv.mode = "ssl2" /\ d.srv.state = srv.state
      /\ d.srv.closed = srv.closed /\ SameReading(srv, d.srv) /\ SameWriting(srv, d.srv)
      /\ d.out = <<>>
  BY <1>1, StartedIs
<1>3. Arriving(n, 0, d, <<>>, junk)
  OBVIOUS
<1> HIDE DEF d
<1>4. /\ srv.mode = "detect" => srv.state = "WAIT_CLIENT_HELLO" /\ down = <<>>
      /\ sent = 0 /\ UpPhase(srv.state, up)
      /\ srv.state = "WAIT_CLIENT_FINISHED" => srv.readSeq = 2 /\ srv.readPos = 0
      /\ client.stage # "gone" => Phase(client.stage, srv.state, up, down)
      /\ client.stage \in {"connected", "wait SERVER_HELLO", "wait SERVER_VERIFY"} =>
           client.writeSeq = 2 /\ client.writePos = 0 /\ client.readSeq = 1 /\ client.readPos = 0
      /\ (client.stage = "wait SERVER_FINISHED" /\ srv.state = "WAIT_CLIENT_FINISHED") =>
           client.writeSeq = 3 /\ client.writePos = 1
  BY DEF ConnInv, SslSide
<1>5. up' = up /\ down' = down
  <2>1. SubSeq(up, 0 + 1, Len(up)) = up
    BY <1>1
  <2> QED
    BY <1>1, <1>2, <2>1
<1>6. /\ Shape' /\ UpSide(client, srv', up', sent, handled') /\ After(d.srv, srv')
      /\ handled' = handled
  BY <1>2, <1>3, <1>4, ArrivingNothing
<1>7. /\ srv'.mode = "ssl2" /\ srv'.state = srv.state
      /\ SameReading(srv, srv') /\ SameWriting(srv, srv')
  BY <1>2, <1>6 DEF After, SameReading, SameWriting
<1>8. DownSide(client, srv', down, answered, received)
  BY <1>7, DownKeeps DEF ConnInv
<1>9. /\ PlainSide(client, srv', up, down, sent) /\ MisreadSide(client, srv', up, down, sent)
      /\ Ends(client, srv')
  BY <1>7 DEF PlainSide, MisreadSide, Ends
<1>10. SslSide(client, srv', up, down, sent)
  BY <1>4, <1>7 DEF SslSide, SameReading
<1>11. ConnInv'
  BY <1>1, <1>5, <1>6, <1>8, <1>9, <1>10 DEF ConnInv
<1> QED
  BY <1>2, <1>6, <1>11 DEF Outcome, After

\* The hello of an SSL client is taken for the bytes of a plain one.
LEMMA MisreadChunk ==
  ASSUME ConnInv, NEW n, NEW k, NEW junk,
         client.kind = "ssl2", srv.mode \in {"detect", "plain"}, up # <<>>,
         NEW d, d = ReadRecords(Started("plain"), up, k),
         Arriving(n, k, d, <<>>, junk)
  PROVE  Outcome
<1>1. /\ client \in ClientType /\ srv \in SrvType /\ up \in Seq(RecordType)
      /\ down \in Seq(RecordType) /\ k \in 0..Len(up)
      /\ up' = SubSeq(up, k + 1, Len(up)) /\ down' = down \o d.out
      /\ UNCHANGED <<client, sent, malformed, answered, received>>
  BY DEF ConnInv, Shape, Arriving
<1>2. /\ srv.state = "WAIT_CLIENT_HELLO" /\ client.stage \in {"wait SERVER_HELLO", "gone"}
      /\ Only(up, Clear("CLIENT_HELLO")) /\ down = <<>> /\ sent = 0
  <2>1. CASE srv.mode = "plain"
    BY <2>1 DEF ConnInv, MisreadSide
  <2>2. CASE srv.mode = "detect"
    <3>1. /\ srv.state = "WAIT_CLIENT_HELLO" /\ down = <<>> /\ sent = 0
          /\ UpPhase("WAIT_CLIENT_HELLO", up)
          /\ client.stage # "gone" => Phase(client.stage, "WAIT_CLIENT_HELLO", up, down)
      BY <2>2 DEF ConnInv, SslSide
    <3> QED
      BY <3>1 DEF UpPhase, Phase
  <2> QED
    BY <2>1, <2>2
<1>3. /\ d \in WorkType /\ d.srv.mode = "plain" /\ d.srv.state = srv.state
      /\ d.srv.closed = srv.closed /\ SameWriting(srv, d.srv) /\ d.out = <<>>
  <2> DEFINE w == Started("plain")
  <2>1. /\ w \in WorkType /\ w.srv.mode = "plain" /\ w.srv.state = srv.state
        /\ w.srv.closed = srv.closed /\ SameWriting(srv, w.srv) /\ w.out = <<>> /\ w.pushed = <<>>
    BY <1>1, StartedIs
  <2>2. d = ReadRecords(w, up, k)
    OBVIOUS
  <2> HIDE DEF w
  <2>3. PICK S, a, o : Incoming(srv, up, sent, handled, S, a, o)
    BY DEF ConnInv, UpSide
  <2>4. Carries(up, S, a, sent)
    BY <2>3 DEF Incoming
  <2>5. w.srv.mode \notin {"dead", "ssl2"}
    BY <2>1
  <2>6. HasRead(w, d, S, a, k)
    BY ONLY <1>1, <2>1, <2>2, <2>4, <2>5, StreamRead
  <2> QED
    BY <2>1, <2>6 DEF HasRead, SameMode, SameWriting
<1>4. down' = <<>>
  <2>1. <<>> \o <<>> = <<>>
    OBVIOUS
  <2> QED
    BY ONLY <1>1, <1>2, <1>3, <2>1, Zenon
<1>5. up' = <<>> \/ Only(up', Clear("CLIENT_HELLO"))
  BY <1>1, <1>2, Dropped DEF Only
<1>6. /\ Shape' /\ UpSide(client, srv', up', sent, handled') /\ After(d.srv, srv')
      /\ handled' = handled
  BY <1>2, <1>3, ArrivingNothing
<1>7. srv'.mode = "plain" /\ srv'.state = srv.state /\ SameWriting(srv, srv')
  BY <1>3, <1>6 DEF After, SameWriting
<1>8. DownSide(client, srv', down, answered, received)
  BY <1>7, DownKeeps DEF ConnInv
<1>9. /\ PlainSide(client, srv', up', <<>>, sent) /\ MisreadSide(client, srv', up', <<>>, sent)
      /\ SslSide(client, srv', up', <<>>, sent) /\ Ends(client, srv')
  BY <1>2, <1>5, <1>7 DEF PlainSide, MisreadSide, SslSide, Ends
<1>10. ConnInv'
  BY <1>1, <1>2, <1>4, <1>6, <1>8, <1>9 DEF ConnInv
<1> QED
  BY <1>3, <1>6, <1>10 DEF Outcome, After

\* The server's SERVER_VERIFY.
LEMMA VerifyIs ==
  /\ Verify \in RecordType /\ Verify.body = <<>> /\ Verify.type = "SERVER_VERIFY"
  /\ Verify.key = "s2c" /\ Verify.seq = 1 /\ Verify.pos = 0
<1>1. /\ Verify.body = <<>> /\ Verify.type = "SERVER_VERIFY"
      /\ Verify.key = "s2c" /\ Verify.seq = 1 /\ Verify.pos = 0
  BY DEF Verify, Record
<1>2. "SERVER_VERIFY" \in RecordKind /\ <<>> \in Seq(Unit) /\ "s2c" \in {"none", "c2s", "s2c"}
      /\ 1 \in Nat /\ 0 \in Nat
  BY DEF RecordKind
<1>3. Verify \in RecordType
  BY <1>2, RecordTypes DEF Verify
<1> QED
  BY <1>1, <1>3

\* The one record of a client's turn in the handshake.
LEMMA Turned ==
  ASSUME Len(up) = 1, up \in Seq(RecordType), NEW w \in WorkType, w.out = <<>>, NEW r,
         NEW d, d = HandleRecord(w, up[1]), d.out = Append(w.out, r),
         up' = SubSeq(up, 1 + 1, Len(up)), down' = down \o d.out
  PROVE  up' = <<>> /\ down' = down \o <<r>>
<1>1. SubSeq(up, 1 + 1, 1) = <<>> /\ Append(<<>>, r) = <<r>>
  <2> DEFINE x == SubSeq(up, 1 + 1, 1)
  <2>1. x \in Seq(RecordType) /\ Len(x) = 0
    OBVIOUS
  <2> HIDE DEF x
  <2>2. x = <<>>
    BY <2>1
  <2> QED
    BY <2>2 DEF x
<1> QED
  BY <1>1

\* CLIENT_HELLO is answered with SERVER_HELLO.
LEMMA HelloChunk ==
  ASSUME ConnInv, NEW n, NEW junk,
         client.kind = "ssl2", srv.mode \in {"detect", "ssl2"}, srv.state = "WAIT_CLIENT_HELLO",
         up # <<>>, NEW d, d = HandleRecord(Started("ssl2"), up[1]),
         Arriving(n, 1, d, <<>>, junk)
  PROVE  Outcome
<1> DEFINE w == Started("ssl2")
           r == Clear("SERVER_HELLO")
<1>1. /\ client \in ClientType /\ srv \in SrvType /\ up \in Seq(RecordType)
      /\ down \in Seq(RecordType) /\ received \in Seq(Unit) /\ answered \in Nat
      /\ up' = SubSeq(up, 1 + 1, Len(up)) /\ down' = down \o d.out
      /\ UNCHANGED <<client, sent, malformed, answered, received>>
  BY TransportAssumption DEF ConnInv, Shape, Arriving
<1>2. /\ w \in WorkType /\ w.srv.mode = "ssl2" /\ w.srv.state = srv.state
      /\ w.srv.closed = srv.closed /\ SameReading(srv, w.srv) /\ SameWriting(srv, w.srv)
      /\ w.out = <<>>
  BY <1>1, StartedIs
<1>3. /\ sent = 0 /\ Only(up, Clear("CLIENT_HELLO"))
      /\ client.stage # "gone" => client.stage = "wait SERVER_HELLO" /\ down = <<>>
      /\ client.stage # "gone" => /\ client.writeSeq = 2 /\ client.writePos = 0
                                  /\ client.readSeq = 1 /\ client.readPos = 0
  <2>1. /\ sent = 0 /\ UpPhase("WAIT_CLIENT_HELLO", up)
        /\ client.stage # "gone" => Phase(client.stage, "WAIT_CLIENT_HELLO", up, down)
        /\ client.stage \in {"connected", "wait SERVER_HELLO", "wait SERVER_VERIFY"} =>
             client.writeSeq = 2 /\ client.writePos = 0 /\ client.readSeq = 1 /\ client.readPos = 0
    BY DEF ConnInv, SslSide
  <2>2. client.stage # "gone" => client.stage = "wait SERVER_HELLO" /\ down = <<>>
    BY <2>1 DEF Phase
  <2> QED
    BY <2>1, <2>2 DEF UpPhase
<1>4. Len(up) = 1 /\ up[1] \in RecordType /\ up[1].type = "CLIENT_HELLO"
  BY <1>1, <1>3, ClearIs DEF Only, RecordKind
<1>5. d = HandleRecord(w, up[1])
  OBVIOUS
<1>6. r \in RecordType /\ r.body = <<>>
  BY ClearIs DEF RecordKind
<1> HIDE DEF w, r
<1>7. /\ d \in WorkType /\ d.srv.state = "WAIT_CLIENT_MASTER_KEY"
      /\ SameReading(w.srv, d.srv) /\ SameMode(w.srv, d.srv)
      /\ d.out = Append(w.out, r)
  BY <1>2, <1>4, <1>5, HelloRecord DEF r
<1>8. up' = <<>> /\ down' = down \o <<r>>
  BY ONLY <1>1, <1>2, <1>4, <1>5, <1>7, Turned
<1>9. d.srv.mode = "ssl2" /\ d.srv.closed = srv.closed /\ SameReading(srv, d.srv)
  BY <1>2, <1>7 DEF SameMode, SameReading
<1>10. /\ Shape' /\ UpSide(client, srv', up', sent, handled') /\ After(d.srv, srv')
       /\ handled' = handled
  BY <1>3, <1>7, <1>9, ArrivingNothing
<1>11. srv'.mode = "ssl2" /\ srv'.state = "WAIT_CLIENT_MASTER_KEY" /\ srv' \in SrvType
  BY <1>7, <1>9, <1>10 DEF After
<1>12. DownSide(client, srv', down', answered, received)
  <2>1. DownSide(client, srv, down, answered, received) /\ 0 \in Nat
    BY DEF ConnInv
  <2>2. DownSide(client, srv', down \o <<r>>, answered, received)
    BY ONLY <1>1, <1>6, <1>11, <2>1, DownOne
  <2> QED
    BY <1>8, <2>2
<1>13. client.stage # "gone" => Only(down', r)
  <2>1. <<>> \o <<r>> = <<r>> /\ Len(<<r>>) = 1 /\ <<r>>[1] = r
    OBVIOUS
  <2> QED
    BY <1>3, <1>8, <2>1 DEF Only
<1>14. /\ PlainSide(client, srv', up', down', sent) /\ MisreadSide(client, srv', up', down', sent)
       /\ Ends(client, srv')
  BY <1>11 DEF PlainSide, MisreadSide, Ends
<1>15. SslSide(client, srv', up', down', sent)
  <2>1. UpPhase("WAIT_CLIENT_MASTER_KEY", up')
    BY <1>8 DEF UpPhase
  <2>2. client.stage # "gone" => Phase(client.stage, "WAIT_CLIENT_MASTER_KEY", up', down')
    BY <1>3, <1>8, <1>13 DEF Phase, r
  <2> QED
    BY <1>3, <1>11, <2>1, <2>2 DEF SslSide
<1>16. ConnInv'
  BY <1>1, <1>10, <1>12, <1>14, <1>15 DEF ConnInv
<1> QED
  BY <1>9, <1>10, <1>16 DEF Outcome, After

\* CLIENT_MASTER_KEY is answered with SERVER_VERIFY, the server's record 1.
LEMMA MasterKeyChunk ==
  ASSUME ConnInv, NEW n, NEW junk,
         client.kind = "ssl2", srv.mode = "ssl2", srv.state = "WAIT_CLIENT_MASTER_KEY",
         up # <<>>, NEW d, d = HandleRecord(Started("ssl2"), up[1]),
         Arriving(n, 1, d, <<>>, junk)
  PROVE  Outcome
<1> DEFINE w == Started("ssl2")
           r == Verify
<1>1. /\ client \in ClientType /\ srv \in SrvType /\ up \in Seq(RecordType)
      /\ down \in Seq(RecordType) /\ received \in Seq(Unit) /\ answered \in Nat
      /\ up' = SubSeq(up, 1 + 1, Len(up)) /\ down' = down \o d.out
      /\ UNCHANGED <<client, sent, malformed, answered, received>>
  BY TransportAssumption DEF ConnInv, Shape, Arriving
<1>2. /\ w \in WorkType /\ w.srv.mode = "ssl2" /\ w.srv.state = srv.state
      /\ w.srv.closed = srv.closed /\ w.out = <<>>
  BY <1>1, StartedIs
<1>3. /\ sent = 0 /\ Only(up, Clear("CLIENT_MASTER_KEY"))
      /\ client.stage # "gone" => client.stage = "wait SERVER_VERIFY" /\ down = <<>>
      /\ client.stage # "gone" => /\ client.writeSeq = 2 /\ client.writePos = 0
                                  /\ client.readSeq = 1 /\ client.readPos = 0
  <2>1. /\ sent = 0 /\ UpPhase("WAIT_CLIENT_MASTER_KEY", up)
        /\ client.stage # "gone" => Phase(client.stage, "WAIT_CLIENT_MASTER_KEY", up, down)
        /\ client.stage \in {"connected", "wait SERVER_HELLO", "wait SERVER_VERIFY"} =>
             client.writeSeq = 2 /\ client.writePos = 0 /\ client.readSeq = 1 /\ client.readPos = 0
    BY DEF ConnInv, SslSide
  <2>2. client.stage # "gone" => client.stage = "wait SERVER_VERIFY" /\ down = <<>>
    BY <2>1 DEF Phase
  <2> QED
    BY <2>1, <2>2 DEF UpPhase
<1>4. Len(up) = 1 /\ up[1] \in RecordType /\ up[1].type = "CLIENT_MASTER_KEY"
  BY <1>1, <1>3, ClearIs DEF Only, RecordKind
<1>5. d = HandleRecord(w, up[1])
  OBVIOUS
<1>6. r \in RecordType /\ r.body = <<>> /\ r.key = "s2c" /\ r.seq = 1 /\ r.pos = 0
  BY VerifyIs
<1> HIDE DEF w, r
<1>7. /\ d \in WorkType /\ d.srv.state = "WAIT_CLIENT_FINISHED"
      /\ d.srv.readSeq = 2 /\ d.srv.readPos = 0
      /\ d.srv.writeSeq = 2 /\ d.srv.writePos = 1
      /\ SameMode(w.srv, d.srv) /\ d.out = Append(w.out, r)
  BY <1>2, <1>4, <1>5, MasterKeyRecord DEF r, Verify
<1>8. up' = <<>> /\ down' = down \o <<r>>
  BY ONLY <1>1, <1>2, <1>4, <1>5, <1>7, Turned
<1>9. d.srv.mode = "ssl2" /\ d.srv.closed = srv.closed
  BY <1>2, <1>7 DEF SameMode
<1>10. /\ Shape' /\ UpSide(client, srv', up', sent, handled') /\ After(d.srv, srv')
       /\ handled' = handled
  BY <1>3, <1>7, <1>9, ArrivingNothing
<1>11. /\ srv'.mode = "ssl2" /\ srv'.state = "WAIT_CLIENT_FINISHED" /\ srv' \in SrvType
       /\ srv'.readSeq = 2 /\ srv'.readPos = 0 /\ srv'.writeSeq = 2 /\ srv'.writePos = 1
  BY <1>7, <1>9, <1>10 DEF After, SameReading, SameWriting
<1>12. DownSide(client, srv', down', answered, received)
  <2>1. DownSide(client, srv, down, answered, received)
        /\ 0 \in Nat /\ 1 \in Nat /\ 1 + 1 = 2 /\ 0 + 1 = 1
    BY DEF ConnInv
  <2>2. DownSide(client, srv', down \o <<r>>, answered, received)
    BY ONLY <1>1, <1>3, <1>6, <1>11, <2>1, DownOne
  <2> QED
    BY <1>8, <2>2
<1>13. client.stage # "gone" => Only(down', r)
  <2>1. <<>> \o <<r>> = <<r>> /\ Len(<<r>>) = 1 /\ <<r>>[1] = r
    OBVIOUS
  <2> QED
    BY <1>3, <1>8, <2>1 DEF Only
<1>14. /\ PlainSide(client, srv', up', down', sent) /\ MisreadSide(client, srv', up', down', sent)
       /\ Ends(client, srv')
  BY <1>11 DEF PlainSide, MisreadSide, Ends
<1>15. SslSide(client, srv', up', down', sent)
  <2>1. UpPhase("WAIT_CLIENT_FINISHED", up')
    BY <1>8 DEF UpPhase
  <2>2. client.stage # "gone" => Phase(client.stage, "WAIT_CLIENT_FINISHED", up', down')
    BY <1>3, <1>8, <1>13 DEF Phase, r
  <2> QED
    BY <1>3, <1>11, <2>1, <2>2 DEF SslSide
<1>16. ConnInv'
  BY <1>1, <1>10, <1>12, <1>14, <1>15 DEF ConnInv
<1> QED
  BY <1>9, <1>10, <1>16 DEF Outcome, After

\* Reading records leaves the buffer of the packets alone.
LEMMA PlainBuffer ==
  ASSUME ConnInv, NEW k \in 0..Len(up)
  PROVE  ReadRecords(Started("plain"), up, k).srv.buffer = srv.buffer
<1> DEFINE w == Started("plain")
<1>1. srv \in SrvType /\ up \in Seq(RecordType)
  BY DEF ConnInv, Shape
<1>2. w \in WorkType /\ w.srv.mode = "plain" /\ w.pushed = <<>> /\ w.srv.buffer = srv.buffer
  BY <1>1, StartedIs DEF SameBuffer
<1> HIDE DEF w
<1>3. PICK S, a, o : Incoming(srv, up, sent, handled, S, a, o)
  BY DEF ConnInv, UpSide
<1>4. Carries(up, S, a, sent) /\ w.srv.mode \notin {"dead", "ssl2"}
  BY <1>2, <1>3 DEF Incoming
<1>5. HasRead(w, ReadRecords(w, up, k), S, a, k)
  BY ONLY <1>1, <1>2, <1>4, k \in 0..Len(up), StreamRead
<1> QED
  BY <1>2, <1>5 DEF HasRead, SameBuffer, w

\* ... and neither does one of a connection that is open.
LEMMA OpenBuffer ==
  ASSUME ConnInv, NEW k \in 0..Len(up),
         client.kind = "ssl2", srv.mode = "ssl2", srv.state = "ESTABLISHED"
  PROVE  ReadRecords(Started("ssl2"), up, k).srv.buffer = srv.buffer
<1> DEFINE w == Started("ssl2")
<1>1. srv \in SrvType /\ up \in Seq(RecordType)
  BY DEF ConnInv, Shape
<1>2. /\ w \in WorkType /\ w.srv.mode = "ssl2" /\ w.srv.state = "ESTABLISHED"
      /\ w.pushed = <<>> /\ w.srv.buffer = srv.buffer /\ SameReading(srv, w.srv)
  BY <1>1, StartedIs DEF SameBuffer
<1> HIDE DEF w
<1>3. PICK S, a, o : Incoming(srv, up, sent, handled, S, a, o) /\ Agreed(client, srv, up, sent, S, a)
  BY DEF ConnInv, UpSide
<1>4. Carries(up, S, a, sent)
  BY <1>3 DEF Incoming
<1>5. Chained(up, S, "c2s", w.srv.readSeq, w.srv.readPos)
  BY <1>2, <1>3 DEF Agreed, SameReading
<1>6. HasRead(w, ReadRecords(w, up, k), S, a, k)
  BY ONLY <1>1, <1>2, <1>4, <1>5, k \in 0..Len(up), StreamRead
<1> QED
  BY <1>2, <1>6 DEF HasRead, SameBuffer, w

\* In the handshake nothing is pushed.
LEMMA HandshakeBuffer ==
  ASSUME ConnInv, client.kind = "ssl2", srv.mode \in {"detect", "ssl2"},
         srv.state # "ESTABLISHED", srv.buffer = <<>>, Len(up) = 1, NEW d,
         \/ d = Started("ssl2")
         \/ d = HandleRecord(Started("ssl2"), up[1])
  PROVE  d.srv.buffer = <<>> /\ d.pushed = <<>>
<1> DEFINE w == Started("ssl2")
           r == up[1]
<1>1. srv \in SrvType /\ up \in Seq(RecordType) /\ r \in RecordType
  <2>1. srv \in SrvType /\ up \in Seq(RecordType)
    BY DEF ConnInv, Shape
  <2>2. 1 \in 1..Len(up)
    OBVIOUS
  <2>3. up[1] \in RecordType
    BY ONLY <2>1, <2>2, ElementOfSeq, Zenon
  <2> QED
    BY <2>1, <2>3
<1>2. /\ w \in WorkType /\ w.srv.mode = "ssl2" /\ w.srv.state = srv.state
      /\ w.pushed = <<>> /\ w.srv.buffer = <<>> /\ SameReading(srv, w.srv)
  BY <1>1, StartedIs DEF SameBuffer
<1>3. /\ UpPhase(srv.state, up)
      /\ srv.state = "WAIT_CLIENT_FINISHED" => srv.readSeq = 2 /\ srv.readPos = 0
  BY DEF ConnInv, SslSide
<1>4. up # <<>> /\ (d = w \/ d = HandleRecord(w, r))
  <2>1. Len(up) = 1
    OBVIOUS
  <2>2. up # <<>>
    BY ONLY <2>1, Len(<<>>) = 0
  <2>3. d = w \/ d = HandleRecord(w, r)
    OBVIOUS
  <2> QED
    BY <2>2, <2>3
<1> HIDE DEF w
<1>5. CASE d = w
  BY <1>2, <1>5
<1>6. CASE d = HandleRecord(w, r) /\ srv.state = "WAIT_CLIENT_HELLO"
  <2>1. r.type = "CLIENT_HELLO"
    BY <1>3, <1>4, <1>6, ClearIs DEF UpPhase, Only, RecordKind
  <2> QED
    BY <1>1, <1>2, <1>6, <2>1, HelloRecord DEF SameBuffer
<1>7. CASE d = HandleRecord(w, r) /\ srv.state = "WAIT_CLIENT_MASTER_KEY"
  <2>1. r.type = "CLIENT_MASTER_KEY"
    BY <1>3, <1>4, <1>7, ClearIs DEF UpPhase, Only, RecordKind
  <2> QED
    BY <1>1, <1>2, <1>7, <2>1, MasterKeyRecord DEF SameBuffer
<1>8. CASE d = HandleRecord(w, r) /\ srv.state = "WAIT_CLIENT_FINISHED"
  <2>1. r = Finished \/ r = Clear("ERROR")
    BY <1>3, <1>4, <1>8 DEF UpPhase, Only
  <2>2. CASE r = Finished
    <3>1. /\ r.type = "CLIENT_FINISHED" /\ r.body = <<>>
          /\ r.key = "c2s" /\ r.seq = 2 /\ r.pos = 0
      BY <2>2 DEF Finished, Record
    <3>2. Verifies(w, r)
      BY <1>2, <1>3, <1>8, <3>1 DEF Verifies, SameReading
    <3> QED
      BY <1>1, <1>2, <1>8, <3>1, <3>2, FinishedRecord DEF SameBuffer
  <2>3. CASE r = Clear("ERROR")
    <3>1. r.type # "CLIENT_FINISHED"
      BY <2>3, ClearIs DEF RecordKind
    <3> QED
      BY <1>1, <1>2, <1>8, <3>1, FinishedRecord DEF Failed
  <2> QED
    BY <2>1, <2>2, <2>3
<1> QED
  BY <1>1, <1>4, <1>5, <1>6, <1>7, <1>8 DEF SrvType, SocketState

\* CLIENT_FINISHED is deciphered, and SERVER_FINISHED opens the connection.
LEMMA FinishedChunk ==
  ASSUME ConnInv, NEW n, NEW junk,
         client.kind = "ssl2", srv.mode = "ssl2", srv.state = "WAIT_CLIENT_FINISHED",
         Only(up, Finished), NEW d, d = HandleRecord(Started("ssl2"), up[1]),
         Arriving(n, 1, d, <<>>, junk)
  PROVE  Outcome
<1> DEFINE w == Started("ssl2")
           q == srv.writeSeq
           p == srv.writePos
           r == Record("SERVER_FINISHED", <<>>, "s2c", q, p)
<1>1. /\ client \in ClientType /\ srv \in SrvType /\ up \in Seq(RecordType)
      /\ down \in Seq(RecordType) /\ received \in Seq(Unit) /\ answered \in Nat
      /\ up' = SubSeq(up, 1 + 1, Len(up)) /\ down' = down \o d.out
      /\ UNCHANGED <<client, sent, malformed, answered, received>>
  BY TransportAssumption DEF ConnInv, Shape, Arriving
<1>2. /\ w \in WorkType /\ w.srv.mode = "ssl2" /\ w.srv.state = srv.state
      /\ w.srv.closed = srv.closed /\ w.out = <<>>
      /\ SameReading(srv, w.srv) /\ SameWriting(srv, w.srv)
  BY <1>1, StartedIs
<1>3. q \in Nat /\ p \in Nat
  BY <1>1 DEF SrvType
<1>4. /\ sent = 0 /\ srv.readSeq = 2 /\ srv.readPos = 0
      /\ client.stage # "gone" =>
           /\ client.stage = "wait SERVER_FINISHED" /\ down = <<>>
           /\ client.writeSeq = 3 /\ client.writePos = 1
  <2>1. /\ sent = 0 /\ srv.readSeq = 2 /\ srv.readPos = 0
        /\ client.stage # "gone" => Phase(client.stage, "WAIT_CLIENT_FINISHED", up, down)
        /\ client.stage = "wait SERVER_FINISHED" => client.writeSeq = 3 /\ client.writePos = 1
    BY DEF ConnInv, SslSide
  <2>2. up # <<>>
    BY DEF Only
  <2>3. client.stage # "gone" => client.stage = "wait SERVER_FINISHED" /\ down = <<>>
    BY <2>1, <2>2 DEF Phase
  <2> QED
    BY <2>1, <2>3
<1>5. /\ Len(up) = 1 /\ up[1] \in RecordType /\ up[1].type = "CLIENT_FINISHED"
      /\ up[1].body = <<>> /\ Verifies(w, up[1])
  <2>1. /\ Finished \in RecordType /\ Finished.type = "CLIENT_FINISHED" /\ Finished.body = <<>>
        /\ Finished.key = "c2s" /\ Finished.seq = 2 /\ Finished.pos = 0
    BY FinishedIs DEF Finished, Record
  <2> QED
    BY <1>2, <1>4, <2>1 DEF Only, Verifies, SameReading
<1>6. d = HandleRecord(w, up[1])
  OBVIOUS
<1>7. r \in RecordType /\ r.body = <<>> /\ r.key = "s2c" /\ r.seq = q /\ r.pos = p
      /\ r.type = "SERVER_FINISHED"
  <2> HIDE DEF q, p
  <2>1. /\ r.body = <<>> /\ r.key = "s2c" /\ r.seq = q /\ r.pos = p
        /\ r.type = "SERVER_FINISHED"
    BY DEF Record
  <2>2. "SERVER_FINISHED" \in RecordKind /\ <<>> \in Seq(Unit) /\ "s2c" \in {"none", "c2s", "s2c"}
    BY DEF RecordKind
  <2>3. r \in RecordType
    BY <1>3, <2>2, RecordTypes
  <2> QED
    BY <2>1, <2>3
<1> HIDE DEF w, r
<1>8. /\ d \in WorkType /\ d.srv.state = "ESTABLISHED"
      /\ d.srv.readSeq = 3 /\ d.srv.readPos = 1
      /\ d.srv.writeSeq = q + 1 /\ d.srv.writePos = p + 1
      /\ SameMode(w.srv, d.srv) /\ d.out = Append(w.out, r)
  <2>1. /\ d \in WorkType /\ d.srv.state = "ESTABLISHED"
        /\ d.srv.readSeq = w.srv.readSeq + 1 /\ d.srv.readPos = w.srv.readPos + 1
        /\ d.srv.writeSeq = w.srv.writeSeq + 1 /\ d.srv.writePos = w.srv.writePos + 1
        /\ SameMode(w.srv, d.srv)
        /\ d.out = Append(w.out, Record("SERVER_FINISHED", <<>>, "s2c",
                                        w.srv.writeSeq, w.srv.writePos))
    BY <1>2, <1>5, <1>6, FinishedRecord
  <2>2. w.srv.readSeq = 2 /\ w.srv.readPos = 0 /\ w.srv.writeSeq = q /\ w.srv.writePos = p
    BY <1>2, <1>4 DEF SameReading, SameWriting
  <2> QED
    BY <2>1, <2>2 DEF r
<1>9. up' = <<>> /\ down' = down \o <<r>>
  BY ONLY <1>1, <1>2, <1>5, <1>6, <1>8, Turned
<1>10. d.srv.mode = "ssl2" /\ d.srv.closed = srv.closed
  BY <1>2, <1>8 DEF SameMode
<1>11. /\ Shape' /\ UpSide(client, srv', up', sent, handled') /\ After(d.srv, srv')
       /\ handled' = handled
  BY <1>4, <1>8, <1>9, <1>10, ArrivingNothing
<1>12. /\ srv'.mode = "ssl2" /\ srv'.state = "ESTABLISHED" /\ srv' \in SrvType
       /\ srv'.writeSeq = q + 1 /\ srv'.writePos = p + 1
  BY <1>8, <1>10, <1>11 DEF After, SameReading, SameWriting
<1>13. DownSide(client, srv', down', answered, received)
  <2>1. DownSide(client, srv, down, answered, received)
    BY DEF ConnInv
  <2>2. \/ /\ srv.state \in {"WAIT_CLIENT_FINISHED", "ESTABLISHED"}
           /\ q = srv.writeSeq /\ p = srv.writePos
        \/ down = <<>> /\ q = client.readSeq /\ p = client.readPos
    OBVIOUS
  <2> HIDE DEF q, p
  <2>3. DownSide(client, srv', down \o <<r>>, answered, received)
    BY ONLY <1>1, <1>3, <1>7, <1>12, <2>1, <2>2, DownOne
  <2> QED
    BY <1>9, <2>3
<1>14. client.stage # "gone" => Only(down', r)
  <2>1. <<>> \o <<r>> = <<r>> /\ Len(<<r>>) = 1 /\ <<r>>[1] = r
    OBVIOUS
  <2> QED
    BY <1>4, <1>9, <2>1 DEF Only
<1>15. /\ PlainSide(client, srv', up', down', sent) /\ MisreadSide(client, srv', up', down', sent)
       /\ Ends(client, srv')
  BY <1>12 DEF PlainSide, MisreadSide, Ends
<1>16. SslSide(client, srv', up', down', sent)
  <2>1. client.stage # "gone" => Phase(client.stage, "ESTABLISHED", up', down')
    <3>1. \A i \in 2..1 : FALSE
      OBVIOUS
    <3>2. client.stage # "gone" => /\ down' # <<>> /\ down'[1].type = "SERVER_FINISHED"
                                   /\ \A i \in 2..Len(down') : down'[i].type = "application"
      BY <1>7, <1>14, <3>1 DEF Only
    <3> QED
      BY <1>4, <1>9, <3>2 DEF Phase
  <2>2. client.stage \notin {"connected", "wait SERVER_HELLO", "wait SERVER_VERIFY"}
    BY <1>4
  <2> QED
    BY <1>12, <2>1, <2>2 DEF SslSide
<1>17. ConnInv'
  BY <1>1, <1>11, <1>13, <1>15, <1>16 DEF ConnInv
<1> QED
  BY <1>10, <1>11, <1>17 DEF Outcome, After

\* The alert of a client that has gone fails the socket.
LEMMA RefusedChunk ==
  ASSUME ConnInv, NEW n, NEW junk,
         client.kind = "ssl2", srv.mode = "ssl2", srv.state = "WAIT_CLIENT_FINISHED",
         Only(up, Clear("ERROR")), NEW d, d = HandleRecord(Started("ssl2"), up[1]),
         Arriving(n, 1, d, <<>>, junk)
  PROVE  Outcome
<1> DEFINE w == Started("ssl2")
<1>1. /\ client \in ClientType /\ srv \in SrvType /\ up \in Seq(RecordType)
      /\ down \in Seq(RecordType) /\ down' = down \o d.out
      /\ UNCHANGED <<client, sent, malformed, answered, received>>
  BY DEF ConnInv, Shape, Arriving
<1>2. /\ w \in WorkType /\ w.srv.mode = "ssl2" /\ w.srv.state = srv.state
      /\ w.srv.closed = srv.closed /\ w.out = <<>> /\ SameWriting(srv, w.srv)
  BY <1>1, StartedIs
<1>3. Len(up) = 1 /\ up[1] \in RecordType /\ up[1].type = "ERROR" /\ up # <<>>
  <2>1. Len(up) = 1 /\ up[1] = Clear("ERROR")
    BY DEF Only
  <2>2. up[1] \in RecordType /\ up[1].type = "ERROR"
    <3>1. "ERROR" \in RecordKind
      BY DEF RecordKind
    <3> QED
      BY <2>1, <3>1, ClearIs
  <2>3. up # <<>>
    BY ONLY <2>1, Len(<<>>) = 0
  <2> QED
    BY <2>1, <2>2, <2>3
<1>4. sent = 0 /\ client.stage = "gone"
  <2>1. /\ sent = 0
        /\ client.stage # "gone" => Phase(client.stage, "WAIT_CLIENT_FINISHED", up, down)
    BY DEF ConnInv, SslSide
  <2>2. ~Only(up, Finished)
    <3>1. Finished.type = "CLIENT_FINISHED"
      BY DEF Finished, Record
    <3> QED
      BY <1>3, <3>1 DEF Only
  <2> QED
    BY <1>3, <2>1, <2>2 DEF Phase
<1>5. d = HandleRecord(w, up[1])
  OBVIOUS
<1> HIDE DEF w
<1>6. d \in WorkType /\ Failed(w.srv, d.srv) /\ d.out = w.out
  BY <1>2, <1>3, <1>5, FinishedRecord
<1>7. d.srv.mode = "dead" /\ d.srv.closed /\ d.srv.state = srv.state /\ SameWriting(srv, d.srv)
  BY <1>2, <1>6 DEF Failed, SameWriting
<1>8. /\ Shape' /\ UpSide(client, srv', up', sent, handled') /\ After(d.srv, srv')
      /\ handled' = handled
  BY <1>4, <1>6, <1>7, ArrivingNothing
<1>9. srv'.mode = "dead" /\ srv'.closed /\ srv'.state = srv.state /\ SameWriting(srv, srv')
  BY <1>7, <1>8 DEF After, SameWriting
<1>10. down' = down
  BY <1>1, <1>2, <1>6
<1>11. DownSide(client, srv', down, answered, received)
  BY <1>4, <1>9, DownKeeps DEF ConnInv
<1>12. /\ PlainSide(client, srv', up', down, sent) /\ MisreadSide(client, srv', up', down, sent)
       /\ SslSide(client, srv', up', down, sent) /\ Ends(client, srv')
  BY <1>4, <1>9 DEF PlainSide, MisreadSide, SslSide, Ends
<1>13. ConnInv'
  BY <1>1, <1>8, <1>10, <1>11, <1>12 DEF ConnInv
<1> QED
  BY <1>8, <1>9, <1>13 DEF Outcome

\* Any chunk keeps the invariant, never opens what was closed, and takes some
\* packets to the handlers or none.
LEMMA ChunkKeeps ==
  ASSUME ConnInv, NEW n \in 1..InFlight, NEW junk, Chunk(n, junk)
  PROVE  Outcome
<1> DEFINE m == IF srv.mode = "detect" THEN Detected(n) ELSE srv.mode
           D(k) == ReadRecords(Started(m), up, k)
           B(k) == D(k).srv.buffer \o IF m = "plain" /\ client.kind = "ssl2" THEN <<>> ELSE D(k).pushed
<1>1. PICK k \in 0..Len(up) :
        /\ Whole(up, k, held + n)
        /\ up' = SubSeq(up, k + 1, Len(up)) /\ held' = held + n - Extent(up, k)
        /\ LET f == Frames(B(k), junk)
               e == [D(k).srv EXCEPT !.buffer = f.buffer]
           IN /\ down' = down \o D(k).out
              /\ handled' = handled \o f.packets
              /\ srv' = IF f.close THEN Close(e) ELSE e
  BY Zenon DEF Chunk, Started
<1> DEFINE d == D(k)
           b == B(k)
<1>2. /\ client \in ClientType /\ srv \in SrvType /\ up \in Seq(RecordType) /\ held \in Nat
      /\ (up = <<>> => held = 0)
  BY DEF ConnInv, Shape
<1>3. n \in Nat /\ n <= InFlight /\ up # <<>>
  <2>1. Extent(up, Len(up)) \in Nat /\ Extent(up, 0) = 0
    <3>1. Len(up) \in 0..Len(up)
      BY <1>2
    <3> QED
      BY <1>2, <3>1, ExtentStep
  <2>2. ASSUME up = <<>>
        PROVE  FALSE
    <3>1. InFlight = 0
      BY <1>2, <2>1, <2>2 DEF InFlight
    <3> QED
      BY <3>1
  <2>3. InFlight \in Int
    BY <1>2, <2>1 DEF InFlight
  <2> QED
    BY <2>2, <2>3
<1>4. srv.mode # "dead"
  BY DEF Chunk
<1>5. /\ m \in {"plain", "ssl2"} /\ (client.kind = "plain" => m = "plain")
      /\ \/ srv.mode = "detect" \/ srv.mode = m
  <2>1. srv.mode # "detect" => m = srv.mode /\ m \in {"plain", "ssl2"}
    BY <1>2, <1>4 DEF SrvType
  <2>2. srv.mode = "detect" =>
          m \in {"plain", "ssl2"} /\ (client.kind = "plain" => m = "plain")
    BY DEF Detected
  <2>3. client.kind = "plain" => srv.mode # "ssl2"
    BY DEF ConnInv, PlainSide
  <2> QED
    BY <2>1, <2>2, <2>3
<1>6. Arriving(n, k, d, b, junk)
  <2>1. UNCHANGED <<client, sent, malformed, answered, received>>
    BY DEF Chunk
  <2> HIDE DEF m, D, B
  <2> QED
    BY <1>1, <1>3, <2>1 DEF Arriving
<1> HIDE DEF m
<1>7. CASE client.kind = "plain"
  <2>1. m = "plain" /\ b = d.srv.buffer \o d.pushed /\ d = ReadRecords(Started("plain"), up, k)
    BY <1>5, <1>7
  <2>2. d.srv.buffer = srv.buffer
    BY <1>1, <1>2, <2>1, PlainBuffer
  <2> HIDE DEF D, B
  <2>3. Arriving(n, k, d, srv.buffer \o d.pushed, junk)
    BY <1>6, <2>1, <2>2
  <2> QED
    BY <1>4, <1>7, <2>1, <2>3, PlainChunk
<1>8. CASE client.kind = "ssl2" /\ m = "plain"
  <2>1. b = d.srv.buffer \o <<>> /\ d = ReadRecords(Started("plain"), up, k)
    BY <1>8
  <2>2. sent = 0
    BY <1>5, <1>8 DEF ConnInv, MisreadSide, SslSide
  <2>3. d.srv.buffer = srv.buffer /\ srv.buffer = <<>>
    BY <1>1, <1>2, <2>1, <2>2, PlainBuffer, NothingBuffered
  <2> HIDE DEF D, B
  <2>4. <<>> \o <<>> = <<>>
    OBVIOUS
  <2>5. Arriving(n, k, d, <<>>, junk)
    BY <1>6, <2>1, <2>3, <2>4
  <2> QED
    BY <1>3, <1>5, <1>8, <2>1, <2>5, MisreadChunk
<1>9. CASE client.kind = "ssl2" /\ m = "ssl2" /\ srv.state = "ESTABLISHED"
  <2>1. b = d.srv.buffer \o d.pushed /\ d = ReadRecords(Started("ssl2"), up, k)
    BY <1>9
  <2>2. srv.mode = "ssl2"
    BY <1>5, <1>9 DEF ConnInv, SslSide
  <2>3. d.srv.buffer = srv.buffer
    BY <1>1, <1>9, <2>1, <2>2, OpenBuffer
  <2> HIDE DEF D, B
  <2>4. Arriving(n, k, d, srv.buffer \o d.pushed, junk)
    BY <1>6, <2>1, <2>3
  <2> QED
    BY <1>3, <1>9, <2>1, <2>2, <2>4, OpenChunk
<1>10. CASE client.kind = "ssl2" /\ m = "ssl2" /\ srv.state # "ESTABLISHED"
  <2>1. b = d.srv.buffer \o d.pushed /\ d = ReadRecords(Started("ssl2"), up, k)
    BY <1>10
  <2>2. /\ srv.mode \in {"detect", "ssl2"} /\ sent = 0 /\ UpPhase(srv.state, up)
        /\ srv.mode = "detect" => srv.state = "WAIT_CLIENT_HELLO"
    BY <1>5, <1>10 DEF ConnInv, SslSide
  <2>3. Len(up) = 1 /\ (k = 0 \/ k = 1)
    <3>1. Len(up) = 1
      BY <1>3, <2>2 DEF UpPhase
    <3> QED
      BY <3>1
  <2>4. /\ k = 0 => d = Started("ssl2")
        /\ k = 1 => d = HandleRecord(Started("ssl2"), up[1])
    <3>1. Started("ssl2") \in WorkType
      BY <1>2, StartedIs
    <3> HIDE DEF D, B
    <3> QED
      BY <1>2, <2>1, <2>3, <3>1, OneRecord
  <2> HIDE DEF D, B
  <2>5. b = <<>>
    <3>1. srv.buffer = <<>>
      BY <2>2, NothingBuffered
    <3>2. d.srv.buffer = <<>> /\ d.pushed = <<>>
      BY <1>2, <1>3, <1>10, <2>2, <2>3, <2>4, <3>1, HandshakeBuffer
    <3>3. <<>> \o <<>> = <<>>
      OBVIOUS
    <3> QED
      BY <2>1, <3>2, <3>3
  <2>6. Arriving(n, k, d, <<>>, junk)
    BY <1>6, <2>5
  <2>7. CASE k = 0
    <3>1. Arriving(n, 0, Started("ssl2"), <<>>, junk)
      BY <2>4, <2>6, <2>7
    <3> QED
      BY <1>10, <2>2, <3>1, WaitingChunk
  <2>8. CASE k = 1
    <3>1. Arriving(n, 1, d, <<>>, junk) /\ d = HandleRecord(Started("ssl2"), up[1])
      BY <2>4, <2>6, <2>8
    <3>2. CASE srv.state = "WAIT_CLIENT_HELLO"
      BY <1>3, <1>10, <2>2, <3>1, <3>2, HelloChunk
    <3>3. CASE srv.state = "WAIT_CLIENT_MASTER_KEY"
      BY <1>3, <1>10, <2>2, <3>1, <3>3, MasterKeyChunk
    <3>4. CASE srv.state = "WAIT_CLIENT_FINISHED"
      <4>1. Only(up, Finished) \/ Only(up, Clear("ERROR"))
        BY <1>3, <2>2, <3>4 DEF UpPhase
      <4> QED
        BY <1>10, <2>2, <3>1, <3>4, <4>1, FinishedChunk, RefusedChunk
    <3> QED
      BY <1>2, <1>10, <3>2, <3>3, <3>4 DEF SrvType, SocketState
  <2> QED
    BY <2>3, <2>7, <2>8
<1> QED
  BY <1>2, <1>5, <1>7, <1>8, <1>9, <1>10 DEF ClientType

-----------------------------------------------------------------------------
(* Types and MACs *)

\* Every step keeps the invariant.
LEMMA NextConnInv == ConnInv /\ [Next]_vars => ConnInv'
<1> SUFFICES ASSUME ConnInv, [Next]_vars
             PROVE  ConnInv'
  OBVIOUS
<1>1. CASE UNCHANGED vars
  BY <1>1 DEF ConnInv, Shape, Total, vars
<1>2. CASE Arrives
  <2>1. PICK n \in 1..InFlight, junk \in {"reset", "waits"} : Chunk(n, junk)
    BY <1>2 DEF Arrives
  <2> QED
    BY <2>1, ChunkKeeps DEF Outcome
<1>3. CASE SendPacket
  BY <1>3, SendPacketKeeps
<1>4. CASE ServerClose
  BY <1>4, ServerCloseKeeps
<1>5. CASE RawClosed
  BY <1>5, RawClosedKeeps
<1>6. CASE ClientStart
  BY <1>6, ClientStartKeeps
<1>7. CASE ClientWrite
  BY <1>7, ClientWriteKeeps
<1>8. CASE ClientRead
  BY <1>8, ClientReadKeeps
<1>9. CASE ClientRefuses
  BY <1>9, ClientRefusesKeeps
<1>10. CASE ClientSeesEnd \/ ClientLeaves
  BY <1>10, ClientGoesKeeps
<1> QED
  BY <1>1, <1>2, <1>3, <1>4, <1>5, <1>6, <1>7, <1>8, <1>9, <1>10 DEF Next

\* Through handshake, records, packets and every way to end, on either side, the
\* streams hold what the invariant says of them (ssl2-socket.ts, tcp-server.ts).
THEOREM ConnInvariant == Spec => []ConnInv
<1>1. Init => ConnInv
  BY InitConnInv
<1>2. ConnInv /\ [Next]_vars => ConnInv'
  BY NextConnInv
<1> QED
  BY <1>1, <1>2, PTL DEF Spec

\* What the client sends in all is a number.
LEMMA TotalType ==
  ASSUME malformed \in BOOLEAN, malformed => Packets > 0
  PROVE  Total \in Nat
<1> DEFINE P == PacketUnits
           z == Packets * P
<1>1. Packets \in Nat /\ BodyUnits \in Nat /\ P \in Nat /\ P = 2 + BodyUnits
  BY TransportAssumption DEF PacketUnits, HeaderUnits
<1>2. Total = z - IF malformed THEN BodyUnits ELSE 0
  BY DEF Total
<1> HIDE DEF P
<1>3. z \in Nat
  BY <1>1
<1>4. Packets > 0 => z >= P
  <2>1. ASSUME Packets > 0
        PROVE  z >= P
    <3>1. Packets - 1 \in Nat /\ (Packets - 1) * P \in Nat /\ z = (Packets - 1) * P + P
      BY <1>1, <2>1
    <3> QED
      BY <1>1, <3>1
  <2> QED
    BY <2>1
<1> HIDE DEF z
<1> QED
  BY <1>1, <1>2, <1>3, <1>4

\* The connection keeps its types, and what is held of a record is less than the
\* record (rawBuffer of Ssl2Socket).
THEOREM TransportTypes == Spec => []TypeOK
<1>1. ConnInv => TypeOK
  <2> SUFFICES ASSUME ConnInv
               PROVE  TypeOK
    OBVIOUS
  <2>1. Shape
    BY DEF ConnInv
  <2>2. client.stage \in Stage /\ srv.mode \in {"detect", "plain", "ssl2", "dead"}
    BY <2>1 DEF Shape, ClientType, SrvType
  <2>3. sent \in 0..Total
    <3>1. Total \in Nat
      BY <2>1, TotalType DEF Shape
    <3> QED
      BY <2>1, <3>1 DEF Shape
  <2> QED
    BY <2>1, <2>2, <2>3 DEF Shape, TypeOK
<1> QED
  BY <1>1, ConnInvariant, PTL

\* For packets of any number and length, records of any size and any cut of the
\* stream: the key, number and cipher position of every record on its way are those
\* that its reader will have, so with a correct client no MAC ever fails
\* (computeMac, readSeq, writeSeq).
THEOREM MacsAlwaysVerify == Spec => []MacsVerify
<1>1. ConnInv => MacsVerify
  <2> SUFFICES ASSUME ConnInv, srv.mode = "ssl2", srv.state = "ESTABLISHED"
               PROVE  /\ \A i \in DOMAIN up : up[i].key = "c2s" /\ up[i].seq = srv.readSeq + i - 1
                      /\ up # <<>> => up[1].pos = srv.readPos
                      /\ client.stage # "gone" =>
                           /\ srv.writeSeq = client.readSeq + Len(down)
                           /\ down # <<>> => CanRead(down[1])
    BY DEF MacsVerify
  <2>1. /\ client \in ClientType /\ srv \in SrvType /\ up \in Seq(RecordType)
        /\ down \in Seq(RecordType)
    BY DEF ConnInv, Shape
  <2>2. client.kind = "ssl2"
    BY <2>1 DEF ConnInv, PlainSide, ClientType
  <2>3. PICK S, a, o : Incoming(srv, up, sent, handled, S, a, o) /\ Agreed(client, srv, up, sent, S, a)
    BY DEF ConnInv, UpSide
  <2>4. Chained(up, S, "c2s", srv.readSeq, srv.readPos) /\ Carries(up, S, a, sent)
    BY <2>2, <2>3 DEF Agreed, Incoming
  <2>5. srv.readSeq \in Nat /\ srv.readPos \in Nat /\ DOMAIN up = 1..Len(up)
    BY <2>1 DEF SrvType
  <2>6. ASSUME NEW i \in DOMAIN up
        PROVE  up[i].key = "c2s" /\ up[i].seq = srv.readSeq + i - 1
    <3> DEFINE q == srv.readSeq
    <3>1. i \in 1..Len(up)
      BY <2>5
    <3>2. up[i].key = "c2s" /\ up[i].seq = q + (i - 1)
      BY <2>4, <3>1 DEF Chained
    <3> HIDE DEF q
    <3>3. q \in Nat
      BY <2>5 DEF q
    <3>4. q + (i - 1) = q + i - 1
      BY <3>1, <3>3
    <3> QED
      BY <3>2, <3>4 DEF q
  <2>7. ASSUME up # <<>>
        PROVE  up[1].pos = srv.readPos
    <3> DEFINE p == srv.readPos
               b == S[1]
    <3>1. 1 \in 1..Len(up)
      BY <2>1, <2>7
    <3>2. up[1].pos = p + (1 - 1) + (b - b)
      BY <2>4, <3>1 DEF Chained
    <3>3. b \in Nat /\ p \in Nat
      BY <2>1, <2>4, <2>5, StreamGrows DEF Carries
    <3> HIDE DEF p, b
    <3>4. p + (1 - 1) + (b - b) = p
      BY <3>3
    <3> QED
      BY <3>2, <3>4 DEF p
  <2>8. ASSUME client.stage # "gone"
        PROVE  /\ srv.writeSeq = client.readSeq + Len(down)
               /\ down # <<>> => CanRead(down[1])
    <3>1. DownSide(client, srv, down, answered, received)
      BY DEF ConnInv
    <3>2. srv.writeSeq = client.readSeq + Len(down)
      BY <2>2, <2>8, <3>1 DEF DownSide, AgreedBack
    <3>3. down # <<>> => CanRead(down[1])
      BY <2>1, <2>2, <2>8, <3>1, CanReadFirst
    <3> QED
      BY <3>2, <3>3
  <2> QED
    BY <2>6, <2>7, <2>8
<1> QED
  BY <1>1, ConnInvariant, PTL

-----------------------------------------------------------------------------
(* The connection implements a PacketLink *)

\* A packet that has gone out whole is counted.
LEMMA PacketsAsked ==
  ASSUME NEW m \in Nat, NEW x \in Nat, x * PacketUnits <= m
  PROVE  x <= m \div PacketUnits
<1> DEFINE P == PacketUnits
           y == x * P + 0
<1>1. P \in Nat \ {0} /\ 0 \in 0..(P - 1)
  BY PacketUnitsType
<1> HIDE DEF P
<1>2. x * P \in Nat /\ y = x * P
  BY <1>1
<1>3. y \div P = x
  BY <1>1, DivMod
<1>4. y \in Nat /\ y <= m
  BY <1>2 DEF P
<1> HIDE DEF y
<1>5. y \div P <= m \div P
  BY <1>1, <1>4, DivMono
<1> QED
  BY <1>3, <1>5 DEF P

\* The numbers of packets are a sequence.
LEMMA NumbersType ==
  ASSUME NEW h \in Seq(Seq(Unit)), \A k \in 1..Len(h) : Numbers(h)[k] \in Nat
  PROVE  Numbers(h) \in Seq(Nat) /\ Len(Numbers(h)) = Len(h)
<1> DEFINE n == Len(h)
           f == Numbers(h)
<1>1. n \in Nat /\ DOMAIN h = 1..n
  OBVIOUS
<1>2. f = [k \in 1..n |-> f[k]]
  BY <1>1 DEF Numbers
<1>3. \A k \in 1..n : f[k] \in Nat
  OBVIOUS
<1> HIDE DEF f, n
<1>4. f \in [1..n -> Nat]
  BY ONLY <1>2, <1>3
<1>5. f \in Seq(Nat) /\ Len(f) = n
  BY ONLY <1>1, <1>4
<1> QED
  BY <1>5 DEF f, n

\* What the handlers get is what a PacketLink may deliver.
LEMMA MoreHandled ==
  ASSUME NEW h \in Seq(Seq(Unit)), NEW g \in Seq(Seq(Unit)), NEW n \in Nat,
         NEW closed \in BOOLEAN, More(h, g, n, closed), g # h
  PROVE  /\ Link!Further(n \div PacketUnits, Numbers(h), Numbers(g))
         /\ ~closed => Link!Gapless(Numbers(g))
<1> DEFINE G == Numbers(g)
           H == Numbers(h)
           q == n \div PacketUnits
<1>1. PICK j \in Nat, p \in Nat :
        /\ p <= n /\ Arrived(g, p, closed)
        /\ Len(g) = Len(h) + j /\ (j = 0 => g = h)
        /\ \A k \in 1..Len(h) : Numbers(g)[k] = Numbers(h)[k]
        /\ DOMAIN Numbers(g) = 1..Len(g)
  BY DEF More
<1>2. Len(h) \in Nat /\ Len(g) \in Nat /\ Len(h) < Len(g)
  BY <1>1
<1>3. \A k \in 1..Len(g) : G[k] \in Nat /\ G[k] > 0 /\ G[k] * PacketUnits <= p
  BY <1>1 DEF Arrived
<1>4. \A i, k \in 1..Len(g) : i < k => G[i] < G[k]
  BY <1>1 DEF Arrived
<1>5. ~closed => \A k \in 1..Len(g) : G[k] = k
  BY <1>1 DEF Arrived
<1>6. G \in Seq(Nat) /\ Len(G) = Len(g)
  BY <1>3, NumbersType
<1>7. \A k \in 1..Len(h) : k \in 1..Len(g) /\ H[k] = G[k] /\ H[k] \in Nat
  BY <1>1, <1>2, <1>3
<1>8. H \in Seq(Nat) /\ Len(H) = Len(h)
  BY <1>7, NumbersType
<1>9. ASSUME NEW k \in 1..Len(g)
      PROVE  G[k] \in 1..q
  <2> DEFINE x == G[k]
             y == x * PacketUnits
  <2>1. x \in Nat /\ x > 0 /\ y <= p
    BY <1>3
  <2>2. y \in Nat
    BY <2>1, PacketUnitsType
  <2>3. y <= n
    <3> HIDE DEF y
    <3> QED
      BY <1>1, <2>1, <2>2
  <2> HIDE DEF x
  <2>4. x <= q
    BY <2>1, <2>3, PacketsAsked
  <2>5. q \in Nat
    <3>1. PacketUnits \in Nat \ {0}
      BY PacketUnitsType
    <3> QED
      BY <3>1, DivIs
  <2> HIDE DEF q
  <2>6. x \in 1..q
    BY <2>1, <2>4, <2>5
  <2> QED
    BY <2>6 DEF x
<1> HIDE DEF G, H, q
<1>10. DOMAIN G = 1..Len(g) /\ DOMAIN H = 1..Len(h)
  BY <1>6, <1>8
<1>11. SubSeq(G, 1, Len(H)) = H
  <2> DEFINE s == SubSeq(G, 1, Len(H))
  <2>1. s \in Seq(Nat) /\ Len(s) = Len(H) /\ \A k \in 1..Len(H) : s[k] = G[k]
    BY ONLY <1>2, <1>6, <1>8
  <2> HIDE DEF s
  <2>2. \A k \in 1..Len(s) : s[k] = H[k]
    BY <1>7, <1>8, <2>1
  <2>3. s = H
    BY ONLY <1>8, <2>1, <2>2, SeqEqual
  <2> QED
    BY <2>3 DEF s
<1>12. Link!Increasing(G)
  BY <1>4, <1>10 DEF Link!Increasing
<1>13. Link!Further(q, H, G)
  BY <1>2, <1>6, <1>8, <1>9, <1>10, <1>11, <1>12 DEF Link!Further
<1>14. ~closed => Link!Gapless(G)
  BY <1>5, <1>10 DEF Link!Gapless
<1> QED
  BY <1>13, <1>14 DEF G, H, q

\* The packets 1 to n.
Counted(n) == [k \in 1..n |-> k]

\* More of them is a step of a PacketLink.
LEMMA CountedFurther ==
  ASSUME NEW i \in Nat, NEW j \in Nat, NEW n \in Nat, i < j, j <= n
  PROVE  Link!Further(n, Counted(i), Counted(j)) /\ Link!Gapless(Counted(j))
<1> DEFINE I == Counted(i)
           J == Counted(j)
<1>1. /\ I \in Seq(Nat) /\ Len(I) = i /\ DOMAIN I = 1..i /\ \A k \in 1..i : I[k] = k
      /\ J \in Seq(Nat) /\ Len(J) = j /\ DOMAIN J = 1..j /\ \A k \in 1..j : J[k] = k
  BY DEF Counted
<1> HIDE DEF I, J
<1>2. SubSeq(J, 1, i) = I
  <2> DEFINE s == SubSeq(J, 1, i)
  <2>1. s \in Seq(Nat) /\ Len(s) = i /\ \A k \in 1..i : s[k] = J[k]
    BY ONLY <1>1, i < j, i \in Nat, j \in Nat
  <2> HIDE DEF s
  <2>2. \A k \in 1..Len(s) : s[k] = I[k]
    BY <1>1, <2>1
  <2>3. s = I
    BY ONLY <1>1, <2>1, <2>2, SeqEqual
  <2> QED
    BY <2>3 DEF s
<1>3. Link!Increasing(J) /\ Link!Gapless(J)
  BY <1>1 DEF Link!Increasing, Link!Gapless
<1>4. Link!Further(n, I, J)
  BY <1>1, <1>2, <1>3 DEF Link!Further
<1> QED
  BY <1>3, <1>4 DEF I, J

\* The packets in the first units of the stream of a side.
LEMMA ReadIsCounted ==
  ASSUME NEW v \in Seq(Unit), v = Slice(0, Len(v))
  PROVE  LET n == Len(v) \div PacketUnits
             ps == [k \in 1..n |-> SubSeq(v, (k - 1) * PacketUnits + 1, k * PacketUnits)]
         IN n \in Nat /\ Numbers(ps) = Counted(n)
<1> DEFINE P == PacketUnits
           l == Len(v)
           n == l \div P
           ps == [k \in 1..n |-> SubSeq(v, (k - 1) * P + 1, k * P)]
<1>1. P \in Nat \ {0} /\ l \in Nat
  BY PacketUnitsType
<1>2. n \in Nat /\ n * P <= l
  <2> HIDE DEF P, l
  <2>1. n \in Nat /\ l % P \in 0..(P - 1) /\ l = (n * P) + (l % P)
    BY <1>1, DivIs
  <2>2. n * P \in Nat
    BY <1>1, <2>1
  <2> HIDE DEF n
  <2> QED
    BY <1>1, <2>1, <2>2
<1> HIDE DEF n
<1>3. ASSUME NEW k \in 1..n
      PROVE  NumberOf(SubSeq(v, (k - 1) * P + 1, k * P)) = k
  <2> DEFINE a == (k - 1) * P
             b == k * P
             x == a + 1
  <2>1. k - 1 \in Nat /\ k \in Nat \ {0} /\ n - k \in Nat
    BY <1>2
  <2>2. a \in Nat /\ b \in Nat /\ b = a + P /\ (n - k) * P \in Nat /\ (n - k) * P = n * P - b
        /\ n * P \in Nat
    <3> HIDE DEF P
    <3> QED
      BY <1>1, <1>2, <2>1
  <2> HIDE DEF P, a, b
  <2>3. b <= l
    BY <1>1, <1>2, <2>2
  <2> HIDE DEF l
  <2>4. x \in Nat \ {0} /\ x <= b + 1 /\ x - 1 = a /\ b - (x - 1) = P /\ 0 + a = a
    BY <1>1, <2>2
  <2> HIDE DEF x
  <2>5. Parted(0, l, x, b)
    BY <1>1, <2>2, <2>3, <2>4, SlicePart
  <2>6. SubSeq(v, x, b) = Slice(a, P)
    BY <2>4, <2>5 DEF Parted, l
  <2>7. Slice(a, P) = PacketOf(k)
    BY <2>1, <2>2, SlicePacket DEF a, P
  <2>8. NumberOf(PacketOf(k)) = k
    BY <2>1, NumberIs
  <2> QED
    BY <2>6, <2>7, <2>8 DEF x, a, b
<1>4. DOMAIN ps = 1..n /\ \A k \in 1..n : ps[k] = SubSeq(v, (k - 1) * P + 1, k * P)
  BY <1>2
<1> HIDE DEF ps, P
<1>5. Numbers(ps) = [k \in 1..n |-> NumberOf(ps[k])]
  BY <1>4 DEF Numbers
<1>6. \A k \in 1..n : NumberOf(ps[k]) = k
  BY <1>3, <1>4
<1>7. Numbers(ps) = Counted(n)
  BY <1>5, <1>6 DEF Counted
<1> QED
  BY <1>2, <1>7 DEF ps, n, P, l

\* What the client has read of the answers.
LEMMA ReceivedCounted ==
  ASSUME ConnInv
  PROVE  LET n == Len(received) \div PacketUnits
         IN n \in Nat /\ n <= answered /\ Numbers(ReceivedPackets) = Counted(n)
<1> DEFINE n == Len(received) \div PacketUnits
<1>1. received \in Seq(Unit) /\ down \in Seq(RecordType) /\ answered \in Nat
  BY TransportAssumption DEF ConnInv, Shape
<1>2. PICK S : Outgoing(down, answered, received, S)
  BY DEF ConnInv, DownSide
<1>3. received = Slice(0, Len(received)) /\ Carries(down, S, Len(received), answered * PacketUnits)
  BY <1>2 DEF Outgoing
<1>4. n \in Nat /\ Numbers(ReceivedPackets) = Counted(n)
  BY <1>1, <1>3, ReadIsCounted DEF ReceivedPackets
<1>5. n <= answered
  <2> DEFINE P == PacketUnits
             l == Len(received)
             z == answered * P
  <2>1. P \in Nat \ {0} /\ 0 \in 0..(P - 1) /\ l \in Nat
    BY <1>1, PacketUnitsType
  <2>2. l <= z
    BY <1>1, <1>3, StreamGrows
  <2> HIDE DEF P, l
  <2>3. z \in Nat /\ z = answered * P + 0
    BY <1>1, <2>1
  <2>4. z \div P = answered
    BY <1>1, <2>1, <2>3, DivMod
  <2> HIDE DEF z
  <2>5. l \div P <= z \div P
    BY <2>1, <2>2, <2>3, DivMono
  <2> QED
    BY <2>4, <2>5 DEF l, P
<1> QED
  BY <1>4, <1>5

\* A connection starts as a PacketLink does.
LEMMA InitLink == Init => Link!Init
<1> SUFFICES ASSUME Init
             PROVE  Link!Init
  OBVIOUS
<1>1. /\ sent = 0 /\ handled = <<>> /\ answered = 0 /\ received = <<>> /\ srv.closed = FALSE
  BY DEF Init
<1> DEFINE P == PacketUnits
<1>2. 0 \div P = 0
  <2>1. P \in Nat \ {0}
    BY PacketUnitsType
  <2> HIDE DEF P
  <2>2. 0 \in Nat /\ 0 \in 0..(P - 1) /\ (0 * P) + 0 = 0
    BY <2>1
  <2>3. ((0 * P) + 0) \div P = 0
    BY <2>1, <2>2, DivMod
  <2> QED
    BY <2>2, <2>3
<1>3. AskedPackets = 0
  BY <1>1, <1>2 DEF AskedPackets
<1>4. Numbers(<<>>) = <<>>
  BY DEF Numbers
<1>5. Numbers(ReceivedPackets) = <<>>
  <2>1. Len(received) \div P = 0
    BY <1>1, <1>2
  <2>2. Numbers(ReceivedPackets) = Counted(0)
    BY <2>1, InitConnInv, ReceivedCounted
  <2>3. Counted(0) = <<>>
    BY DEF Counted
  <2> QED
    BY <2>2, <2>3
<1> QED
  BY <1>1, <1>3, <1>4, <1>5 DEF Link!Init

\* Some steps are none of the link, and some end it.
LEMMA LinkEnds ==
  ASSUME UNCHANGED <<sent, handled, answered, received>>,
         srv.closed \in BOOLEAN, srv'.closed \in BOOLEAN, srv.closed => srv'.closed
  PROVE  [Link!Next]_(Link!vars)
<1>1. UNCHANGED <<AskedPackets, Numbers(handled), answered, Numbers(ReceivedPackets)>>
  BY DEF AskedPackets, ReceivedPackets
<1>2. CASE srv'.closed = srv.closed
  BY <1>1, <1>2 DEF Link!vars
<1>3. CASE srv'.closed # srv.closed
  <2>1. Link!End
    BY <1>1, <1>3 DEF Link!End
  <2> QED
    BY <2>1 DEF Link!Next
<1> QED
  BY <1>2, <1>3

\* Every step is a step of a PacketLink, or none.
LEMMA LinkStep ==
  ASSUME ConnInv, ConnInv', [Next]_vars
  PROVE  [Link!Next]_(Link!vars)
<1>0. /\ srv \in SrvType /\ srv' \in SrvType /\ handled \in Seq(Seq(Unit))
      /\ handled' \in Seq(Seq(Unit)) /\ sent \in Nat /\ sent' \in Nat
  BY DEF ConnInv, Shape
<1>00. srv.closed \in BOOLEAN /\ srv'.closed \in BOOLEAN
  BY <1>0 DEF SrvType
<1>1. CASE UNCHANGED vars
  BY <1>00, <1>1, LinkEnds DEF vars
<1>2. CASE Arrives
  <2>1. PICK n \in 1..InFlight, junk \in {"reset", "waits"} : Chunk(n, junk)
    BY <1>2 DEF Arrives
  <2>2. UNCHANGED <<sent, answered, received>>
    BY <2>1 DEF Chunk
  <2>3. /\ srv.closed => srv'.closed
        /\ handled' = handled \/ More(handled, handled', sent, srv.closed)
    BY <2>1, ChunkKeeps DEF Outcome
  <2>4. CASE handled' = handled
    BY <1>00, <2>2, <2>3, <2>4, LinkEnds
  <2>5. CASE handled' # handled /\ More(handled, handled', sent, srv.closed)
    <3>1. /\ Link!Further(AskedPackets, Numbers(handled), Numbers(handled'))
          /\ ~srv.closed => Link!Gapless(Numbers(handled'))
      BY <1>0, <1>00, <2>5, MoreHandled DEF AskedPackets
    <3>2. UNCHANGED <<AskedPackets, answered, Numbers(ReceivedPackets)>>
      BY <2>2 DEF AskedPackets, ReceivedPackets
    <3>3. srv.closed \in {FALSE, srv'.closed}
      BY <1>00, <2>3
    <3>4. Link!Handle
      BY <3>1, <3>2, <3>3 DEF Link!Handle
    <3> QED
      BY <3>4 DEF Link!Next
  <2> QED
    BY <2>3, <2>4, <2>5
<1>3. CASE SendPacket
  <2>1. UNCHANGED <<sent, handled, received>> /\ answered' = answered + 1
    BY <1>3 DEF SendPacket
  <2>2. srv'.closed = srv.closed
    BY <1>3, SendPacketKeeps
  <2>3. UNCHANGED <<AskedPackets, Numbers(handled), Numbers(ReceivedPackets)>>
    BY <2>1 DEF AskedPackets, ReceivedPackets
  <2>4. Link!AnswerPacket
    BY <2>1, <2>2, <2>3 DEF Link!AnswerPacket
  <2> QED
    BY <2>4 DEF Link!Next
<1>4. CASE ServerClose
  <2>1. UNCHANGED <<sent, handled, answered, received>> /\ ~srv.closed
    BY <1>4 DEF ServerClose
  <2> QED
    BY <1>00, <2>1, LinkEnds
<1>5. CASE RawClosed
  <2>1. UNCHANGED <<sent, handled, answered, received>> /\ srv'.closed
    BY <1>0, <1>5 DEF RawClosed, SrvType
  <2> QED
    BY <1>00, <2>1, LinkEnds
<1>6. CASE ClientStart \/ ClientRefuses \/ ClientSeesEnd \/ ClientLeaves
  <2>1. UNCHANGED <<sent, handled, answered, received, srv>>
    BY <1>6 DEF ClientStart, ClientRefuses, ClientSeesEnd, ClientLeaves
  <2> QED
    BY <1>00, <2>1, LinkEnds
<1>7. CASE ClientWrite
  <2>1. PICK n \in 1..MaxRecord : sent' = sent + n
    BY <1>7 DEF ClientWrite
  <2>2. UNCHANGED <<handled, answered, received, srv>>
    BY <1>7 DEF ClientWrite
  <2>3. UNCHANGED <<Numbers(handled), Numbers(ReceivedPackets)>>
    BY <2>2 DEF ReceivedPackets
  <2>4. sent <= sent'
    BY <1>0, <2>1
  <2>5. AskedPackets \in Nat /\ AskedPackets' \in Nat /\ AskedPackets <= AskedPackets'
    <3>1. PacketUnits \in Nat \ {0}
      BY PacketUnitsType
    <3>2. sent \div PacketUnits \in Nat /\ sent' \div PacketUnits \in Nat
      BY <1>0, <3>1, DivIs
    <3>3. sent \div PacketUnits <= sent' \div PacketUnits
      BY <1>0, <2>4, <3>1, DivMono
    <3> QED
      BY <3>2, <3>3 DEF AskedPackets
  <2>6. CASE AskedPackets' = AskedPackets
    BY <2>2, <2>3, <2>6 DEF Link!vars
  <2>7. CASE AskedPackets' # AskedPackets
    <3>1. AskedPackets' > AskedPackets
      BY <2>5, <2>7
    <3>2. Link!Ask
      BY <2>2, <2>3, <2>5, <3>1 DEF Link!Ask
    <3> QED
      BY <3>2 DEF Link!Next
  <2> QED
    BY <2>6, <2>7
<1>8. CASE ClientRead
  <2>1. UNCHANGED <<sent, handled, answered, srv>>
    BY <1>8 DEF ClientRead
  <2> DEFINE n == Len(received) \div PacketUnits
             m == Len(received') \div PacketUnits
  <2>2. n \in Nat /\ n <= answered /\ Numbers(ReceivedPackets) = Counted(n)
    BY ReceivedCounted
  <2>3. m \in Nat /\ m <= answered /\ Numbers(ReceivedPackets)' = Counted(m)
    <3>1. (ConnInv => n \in Nat /\ n <= answered /\ Numbers(ReceivedPackets) = Counted(n))'
      BY ReceivedCounted, PTL
    <3> QED
      BY <2>1, <3>1
  <2>4. n <= m
    <3>1. \/ received' = received
          \/ received' = received \o Head(down).body
      BY <1>8 DEF ClientRead
    <3>2. received \in Seq(Unit) /\ Head(down).body \in Seq(Unit)
      <4>1. received \in Seq(Unit) /\ down \in Seq(RecordType) /\ down # <<>>
        BY <1>8 DEF ConnInv, Shape, ClientRead
      <4>2. Head(down) \in RecordType
        BY <4>1, TailIs
      <4> QED
        BY <4>1, <4>2 DEF RecordType
    <3>3. Len(received) \in Nat /\ Len(received') \in Nat /\ Len(received) <= Len(received')
      BY <3>1, <3>2, Joined
    <3>4. PacketUnits \in Nat \ {0}
      BY PacketUnitsType
    <3> QED
      BY ONLY <3>3, <3>4, DivMono
  <2>5. UNCHANGED <<AskedPackets, Numbers(handled)>>
    BY <2>1 DEF AskedPackets
  <2>6. answered \in Nat
    BY TransportAssumption DEF ConnInv, Shape
  <2> HIDE DEF n, m
  <2>7. CASE m = n
    BY <2>1, <2>2, <2>3, <2>5, <2>7 DEF Link!vars
  <2>8. CASE m # n
    <3>1. n < m
      BY <2>2, <2>3, <2>4, <2>8
    <3>2. Link!Further(answered, Counted(n), Counted(m)) /\ Link!Gapless(Counted(m))
      BY <2>2, <2>3, <2>6, <3>1, CountedFurther
    <3>3. Link!Receive
      BY <2>1, <2>2, <2>3, <2>5, <3>2 DEF Link!Receive
    <3> QED
      BY <3>3 DEF Link!Next
  <2> QED
    BY <2>7, <2>8
<1> QED
  BY <1>1, <1>2, <1>3, <1>4, <1>5, <1>6, <1>7, <1>8 DEF Next

\* The connection implements PacketLink: whatever the sizes of packets and records,
\* the cuts of the stream and the way it ends, the packets of each side reach the
\* other whole, once, in order and, until it ends, without a gap.
THEOREM LinkImplemented == Spec => LinkSpec
<1>1. Init => Link!Init
  BY InitLink
<1>2. ConnInv /\ ConnInv' /\ [Next]_vars => [Link!Next]_(Link!vars)
  BY LinkStep
<1> QED
  BY <1>1, <1>2, ConnInvariant, PTL DEF Spec, LinkSpec, Link!Spec

=============================================================================
