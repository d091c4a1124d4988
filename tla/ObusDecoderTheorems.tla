------------------------ MODULE ObusDecoderTheorems -------------------------
(***************************************************************************)
(* Proofs about ObusDecoder, for all values of the constants: the decoder  *)
(* never loses its place in the stream, returns the packets in their order *)
(* and, on the first connection, passes none over.                         *)
(*                                                                         *)
(* The bytes in the buffer and those on the wire are one stream.  First    *)
(* what is known of such a stream, and that removing its first bytes,      *)
(* adding a packet or cutting it off keeps it; then each step of the       *)
(* decoder; then the inductive invariant, ReadInv, and the theorems.       *)
(***************************************************************************)
EXTENDS ObusDecoder, SequenceTheorems, WellFoundedInduction, TLAPS

-----------------------------------------------------------------------------
(***************************************************************************)
(* Streams of bytes.                                                       *)
(***************************************************************************)

\* Byte o of packet n, which is of kind k.
Byte == {b \in [n : Nat \ {0}, k : Kind, o : Nat] : b.o < Size[b.k]}

\* Bytes are in the order of their packets, and those of a packet are next to each
\* other, in their order.
Ordered(s) ==
    \A i, j \in 1..Len(s) : i < j =>
        s[i].n < s[j].n \/ (s[i].n = s[j].n /\ s[i].k = s[j].k /\ s[j].o = s[i].o + (j - i))

\* A packet goes on to its last byte, unless the stream ends in it.
Joined(s) ==
    \A i \in 1..Len(s), d \in Nat :
        s[i].o + d < Size[s[i].k] /\ i + d <= Len(s) => s[i + d].n = s[i].n

\* The stream does not end in a packet.
Ended(s) == \A i \in 1..Len(s) : i + Size[s[i].k] <= Len(s) + s[i].o + 1

\* A stream s of bytes after e (is its end reached), of packets of kinds q, of
\* which those in g have been returned.
Flow(s, e, q, g) ==
    /\ s \in Seq(Byte) /\ Ordered(s) /\ Joined(s)
    /\ ~e => /\ Ended(s) /\ \A i \in 1..Len(s) : s[i].n <= Len(q)
             /\ \A i \in 1..Len(g) : g[i] <= Len(q)
    /\ \A i \in 1..Len(g), j \in 1..Len(s) : g[i] < s[j].n
    /\ \A i, j \in 1..Len(g) : i < j => g[i] < g[j]
    /\ \A i \in 1..Len(s) : s[i].n <= Len(q) => s[i].k = q[s[i].n]

\* The stream is the bytes d of the buffer and then those of the wire w.
Split(s, d, w) ==
    /\ d \in Seq(Byte) /\ w \in Seq(Byte) /\ Len(s) = Len(d) + Len(w)
    /\ \A i \in 1..Len(d) : s[i] = d[i]
    /\ \A i \in 1..Len(w) : s[Len(d) + i] = w[i]

\* t is d without its first m bytes.
IsCut(t, d, m) ==
    /\ t \in Seq(Byte) /\ Len(t) = Len(d) - m
    /\ \A i \in 1..Len(t) : t[i] = d[i + m]

\* The first byte of a packet that can be decoded.
Start(b) == b.o = 0 /\ b.k \in Good

\* Of the packets that can be decoded none is missing.
Whole(s, q, g) ==
    \A x \in 1..Len(q) : q[x] \in Good =>
        (\E i \in 1..Len(g) : g[i] = x) \/ \E i \in 1..Len(s) : s[i].n = x /\ s[i].o = 0

LEMMA ByteIs ==
    ASSUME DecoderAssumption, NEW b \in Byte
    PROVE  /\ b.n \in Nat /\ b.n # 0 /\ b.k \in Kind /\ b.o \in Nat
           /\ Size[b.k] \in Nat /\ Size[b.k] >= HdrSize /\ b.o < Size[b.k]
           /\ HdrSize \in Nat /\ HdrSize >= 2
           /\ b = [n |-> b.n, k |-> b.k, o |-> b.o]
  BY DEF DecoderAssumption, Byte

\* Places in a stream of length l that loses its first m bytes.
LEMMA CutPlace ==
    ASSUME NEW l \in Nat, NEW m \in Nat, m <= l, NEW i \in 1..(l - m), NEW d \in Nat, i + d <= l - m
    PROVE  /\ i + m \in 1..l /\ (i + m) + d <= l
           /\ i + d \in 1..(l - m) /\ (i + d) + m = (i + m) + d
OBVIOUS

\* A stream that loses its first bytes.
LEMMA CutFlow ==
    ASSUME DecoderAssumption, NEW s \in Seq(Byte), NEW m \in 0..Len(s), NEW t, IsCut(t, s, m)
    PROVE  /\ Ordered(s) => Ordered(t)
           /\ Joined(s) => Joined(t)
           /\ Ended(s) => Ended(t)
<1>1. Len(s) \in Nat /\ m \in Nat /\ m <= Len(s)
  OBVIOUS
<1>2. t \in Seq(Byte) /\ Len(t) = Len(s) - m /\ \A i \in 1..Len(t) : t[i] = s[i + m]
  BY Zenon DEF IsCut
<1>3. ASSUME Ordered(s) PROVE Ordered(t)
  <2> SUFFICES ASSUME NEW i \in 1..Len(t), NEW j \in 1..Len(t), i < j
               PROVE  t[i].n < t[j].n
                      \/ (t[i].n = t[j].n /\ t[i].k = t[j].k /\ t[j].o = t[i].o + (j - i))
    BY Zenon DEF Ordered
  <2>1. i + m \in 1..Len(s) /\ j + m \in 1..Len(s) /\ i + m < j + m /\ (j + m) - (i + m) = j - i
    BY <1>1, <1>2
  <2>2. t[i] = s[i + m] /\ t[j] = s[j + m]
    BY <1>2, Zenon
  <2> QED
    BY <1>3, <2>1, <2>2 DEF Ordered
<1>4. ASSUME Joined(s) PROVE Joined(t)
  <2> SUFFICES ASSUME NEW i \in 1..Len(t), NEW d \in Nat,
                      t[i].o + d < Size[t[i].k], i + d <= Len(t)
               PROVE  t[i + d].n = t[i].n
    BY Zenon DEF Joined
  <2>0. i \in 1..(Len(s) - m) /\ i + d <= Len(s) - m
    BY <1>2, Zenon
  <2>1. /\ i + m \in 1..Len(s) /\ (i + m) + d <= Len(s)
        /\ i + d \in 1..Len(t) /\ (i + d) + m = (i + m) + d
    BY <1>1, <1>2, <2>0, CutPlace, Zenon
  <2>2. t[i] = s[i + m] /\ t[i + d] = s[(i + m) + d]
    BY <1>2, <2>1, Zenon
  <2> QED
    BY <1>4, <2>1, <2>2, Zenon DEF Joined
<1>5. ASSUME Ended(s) PROVE Ended(t)
  <2> SUFFICES ASSUME NEW i \in 1..Len(t)
               PROVE  i + Size[t[i].k] <= Len(t) + t[i].o + 1
    BY Zenon DEF Ended
  <2>1. i + m \in 1..Len(s) /\ t[i] = s[i + m] /\ t[i] \in Byte
    BY <1>1, <1>2
  <2>2. (i + m) + Size[t[i].k] <= Len(s) + t[i].o + 1
    BY <1>5, <2>1, Zenon DEF Ended
  <2>3. PICK z, o : z = Size[t[i].k] /\ o = t[i].o
    BY Zenon
  <2>4. z \in Nat /\ o \in Nat
    BY <2>1, <2>3, ByteIs, Zenon
  <2>6. (i + m) + z <= Len(s) + o + 1
    BY <2>2, <2>3, Zenon
  <2>7. Len(t) = Len(s) - m
    BY <1>2, Zenon
  <2>5. i + z <= Len(t) + o + 1
    BY <1>1, <2>4, <2>6, <2>7
  <2> QED
    BY <2>3, <2>5, Zenon
<1> QED
  BY <1>3, <1>4, <1>5, Zenon

\* The bytes that are left after a cut are the later ones of the same stream.
LEMMA CutSplit ==
    ASSUME NEW s \in Seq(Byte), NEW d, NEW w, Split(s, d, w), NEW m \in 0..Len(d),
           NEW e, IsCut(e, d, m), NEW t, IsCut(t, s, m)
    PROVE  Split(t, e, w)
<1>1. /\ d \in Seq(Byte) /\ w \in Seq(Byte) /\ Len(s) = Len(d) + Len(w)
      /\ \A i \in 1..Len(d) : s[i] = d[i]
      /\ \A i \in 1..Len(w) : s[Len(d) + i] = w[i]
  BY Zenon DEF Split
<1>2. /\ e \in Seq(Byte) /\ Len(e) = Len(d) - m /\ \A i \in 1..Len(e) : e[i] = d[i + m]
      /\ t \in Seq(Byte) /\ Len(t) = Len(s) - m /\ \A i \in 1..Len(t) : t[i] = s[i + m]
  BY Zenon DEF IsCut
<1>3. Len(d) \in Nat /\ Len(w) \in Nat /\ m \in Nat /\ m <= Len(d)
  BY <1>1
<1>4. ASSUME NEW i \in 1..Len(e) PROVE t[i] = e[i]
  <2>1. i \in 1..Len(t) /\ i + m \in 1..Len(d)
    BY <1>1, <1>2, <1>3
  <2> QED
    BY <1>1, <1>2, <2>1, Zenon
<1>5. ASSUME NEW i \in 1..Len(w) PROVE t[Len(e) + i] = w[i]
  <2>1. Len(e) + i \in 1..Len(t) /\ (Len(e) + i) + m = Len(d) + i
    BY <1>1, <1>2, <1>3
  <2> QED
    BY <1>1, <1>2, <2>1, Zenon
<1>6. Len(t) = Len(e) + Len(w)
  BY <1>1, <1>2, <1>3
<1> QED
  BY <1>1, <1>2, <1>4, <1>5, <1>6, Zenon DEF Split

\* What has been returned, and what is known of the packets, does not depend on
\* the bytes that are gone.
LEMMA FlowCut ==
    ASSUME DecoderAssumption, NEW s, NEW e, NEW q, NEW g, Flow(s, e, q, g), NEW m \in 0..Len(s),
           NEW t, IsCut(t, s, m)
    PROVE  Flow(t, e, q, g)
<1>1. s \in Seq(Byte) /\ Ordered(s) /\ Joined(s) /\ Len(s) \in Nat
  BY DEF Flow
<1>2. Ordered(t) /\ Joined(t) /\ (Ended(s) => Ended(t))
  BY <1>1, CutFlow, Zenon
<1>3. t \in Seq(Byte) /\ \A i \in 1..Len(t) : i + m \in 1..Len(s) /\ t[i] = s[i + m]
  BY <1>1 DEF IsCut
<1>4. ASSUME ~e PROVE /\ Ended(t) /\ \A i \in 1..Len(t) : t[i].n <= Len(q)
                      /\ \A i \in 1..Len(g) : g[i] <= Len(q)
  BY <1>2, <1>3, <1>4, Zenon DEF Flow
<1>5. /\ \A i \in 1..Len(g), j \in 1..Len(t) : g[i] < t[j].n
      /\ \A i, j \in 1..Len(g) : i < j => g[i] < g[j]
      /\ \A i \in 1..Len(t) : t[i].n <= Len(q) => t[i].k = q[t[i].n]
  BY <1>3, Zenon DEF Flow
<1> QED
  BY <1>2, <1>3, <1>4, <1>5, Zenon DEF Flow

LEMMA WholeCut ==
    ASSUME DecoderAssumption, NEW s, NEW e, NEW q \in Seq(Kind), NEW g,
           Flow(s, e, q, g), Whole(s, q, g),
           NEW m \in 0..Len(s), \A i \in 1..m : ~Start(s[i]),
           NEW t, IsCut(t, s, m)
    PROVE  Whole(t, q, g)
<1>1. s \in Seq(Byte) /\ Len(s) \in Nat
  BY DEF Flow
<1> SUFFICES ASSUME NEW x \in 1..Len(q), q[x] \in Good, ~\E i \in 1..Len(g) : g[i] = x
             PROVE  \E i \in 1..Len(t) : t[i].n = x /\ t[i].o = 0
  BY Zenon DEF Whole
<1>3. PICK i \in 1..Len(s) : s[i].n = x /\ s[i].o = 0
  BY Zenon DEF Whole
<1>4. s[i].k = q[x]
  <2>1. s[i].n <= Len(q)
    BY <1>3
  <2> QED
    BY <1>3, <2>1, Zenon DEF Flow
<1>5. ~(i \in 1..m)
  BY <1>3, <1>4, Zenon DEF Start
<1>6. i - m \in 1..Len(t) /\ t[i - m] = s[i]
  BY <1>1, <1>5 DEF IsCut
<1> QED
  BY <1>3, <1>6, Zenon

\* The first packet of the stream s, of number y and m bytes, is whole; without it
\* the stream is t, and what is returned with it is g2.
Leaving(s, e, q, g, m, t, y, g2) ==
    /\ q \in Seq(Kind) /\ g \in Seq(Nat) /\ Flow(s, e, q, g)
    /\ s # <<>> /\ s[1].o = 0 /\ m \in 0..Len(s) /\ Size[s[1].k] = m
    /\ IsCut(t, s, m) /\ s[1].n = y /\ g2 = Append(g, y)

\* A whole packet leaves the stream and is returned, or is dropped.
LEMMA PacketFlow ==
    ASSUME DecoderAssumption, NEW s, NEW e, NEW q, NEW g, NEW m, NEW t, NEW y, NEW g2,
           Leaving(s, e, q, g, m, t, y, g2)
    PROVE  /\ Flow(t, e, q, g) /\ Flow(t, e, q, g2) /\ g2 \in Seq(Nat)
           /\ Whole(s, q, g) => Whole(t, q, g2)
           /\ Whole(s, q, g) /\ s[1].k \notin Good => Whole(t, q, g)
<1>0. /\ q \in Seq(Kind) /\ g \in Seq(Nat) /\ Flow(s, e, q, g)
      /\ s # <<>> /\ s[1].o = 0 /\ m \in 0..Len(s) /\ Size[s[1].k] = m
      /\ IsCut(t, s, m) /\ s[1].n = y /\ g2 = Append(g, y)
  BY Zenon DEF Leaving
<1> USE <1>0
<1>1. /\ s \in Seq(Byte) /\ Ordered(s) /\ Joined(s)
      /\ Len(s) \in Nat /\ 1 \in 1..Len(s) /\ s[1] \in Byte
  BY DEF Flow
<1>2. m \in Nat /\ m # 0 /\ s[1].n \in Nat /\ m \in 0..Len(s)
  BY <1>1, ByteIs
<1>3. Flow(t, e, q, g)
  BY <1>1, <1>2, FlowCut, Zenon
<1>5. t \in Seq(Byte) /\ Len(t) = Len(s) - m
      /\ \A i \in 1..Len(t) : i + m \in 1..Len(s) /\ t[i] = s[i + m] /\ t[i] \in Byte
  <2>1. t \in Seq(Byte) /\ Len(t) = Len(s) - m /\ \A i \in 1..Len(t) : t[i] = s[i + m]
    BY Zenon DEF IsCut
  <2>2. PICK l : l = Len(s)
    BY Zenon
  <2>3. l \in Nat /\ Len(t) = l - m
    BY <1>1, <2>1, <2>2, Zenon
  <2>4. \A i \in 1..Len(t) : i + m \in 1..l
    BY <1>2, <2>3
  <2>5. \A i \in 1..Len(t) : t[i] \in Byte
    BY <2>1
  <2> QED
    BY <2>1, <2>2, <2>4, <2>5, Zenon
<1>6. ASSUME NEW j \in 1..Len(t) PROVE s[1].n < t[j].n
  <2>1. j + m \in 1..Len(s) /\ 1 < j + m /\ (j + m) - 1 >= m /\ t[j] = s[j + m]
    BY <1>2, <1>5
  <2>2. s[1].n < s[j + m].n
        \/ (s[1].n = s[j + m].n /\ s[1].k = s[j + m].k /\ s[j + m].o = s[1].o + ((j + m) - 1))
    BY <1>1, <2>1, Zenon DEF Ordered
  <2>3. t[j].o < Size[t[j].k]
    BY <1>5, ByteIs, Zenon
  <2>4. ~(s[1].k = t[j].k /\ t[j].o = s[1].o + ((j + m) - 1))
    <3>1. SUFFICES ASSUME s[1].k = t[j].k, t[j].o = s[1].o + ((j + m) - 1) PROVE FALSE
      BY Zenon
    <3>2. 0 + ((j + m) - 1) < m
      BY <2>3, <3>1, Zenon
    <3> QED
      BY <1>2, <2>1, <3>2, SMTT(30)
  <2> QED
    BY <2>1, <2>2, <2>4, Zenon
<1>7. /\ g2 \in Seq(Nat) /\ Len(g2) = Len(g) + 1 /\ Len(g) \in Nat
      /\ \A i \in 1..Len(g) : g2[i] = g[i] /\ i \in 1..Len(g2)
      /\ g2[Len(g) + 1] = s[1].n /\ Len(g) + 1 \in 1..Len(g2)
      /\ \A i \in 1..Len(g2) : i \in 1..Len(g) \/ i = Len(g) + 1
  BY <1>2
<1>8. Flow(t, e, q, g2)
  <2>1. ASSUME ~e PROVE \A i \in 1..Len(g2) : g2[i] <= Len(q)
    BY <1>1, <1>7, <2>1, Zenon DEF Flow
  <2>2. ASSUME NEW i \in 1..Len(g2), NEW j \in 1..Len(t) PROVE g2[i] < t[j].n
    BY <1>3, <1>6, <1>7, Zenon DEF Flow
  <2>3. ASSUME NEW i \in 1..Len(g2), NEW j \in 1..Len(g2), i < j PROVE g2[i] < g2[j]
    <3>1. i \in 1..Len(g)
      BY <1>7, <2>3
    <3>2. CASE j \in 1..Len(g)
      BY <1>7, <2>3, <3>1, <3>2, Zenon DEF Flow
    <3>3. CASE j = Len(g) + 1
      BY <1>1, <1>7, <3>1, <3>3, Zenon DEF Flow
    <3> QED
      BY <1>7, <3>2, <3>3, Zenon
  <2> QED
    BY <1>3, <2>1, <2>2, <2>3, Zenon DEF Flow
<1>9. ASSUME Whole(s, q, g), NEW x \in 1..Len(q), q[x] \in Good, ~\E i \in 1..Len(g) : g[i] = x,
             x # s[1].n
      PROVE  \E i \in 1..Len(t) : t[i].n = x /\ t[i].o = 0
  <2>1. PICK i \in 1..Len(s) : s[i].n = x /\ s[i].o = 0
    BY <1>9, Zenon DEF Whole
  <2>2. ~(i <= m)
    <3>1. SUFFICES ASSUME i <= m PROVE s[i].n = s[1].n
      BY <1>9, <2>1, Zenon
    <3>2. PICK d : d = i - 1
      BY Zenon
    <3>5. d \in Nat /\ 1 + d = i /\ 0 + d < m
      BY <1>2, <3>1, <3>2
    <3>3. s[1].o + d < Size[s[1].k] /\ 1 + d <= Len(s)
      BY <3>5
    <3>4. s[1 + d].n = s[1].n
      BY <1>1, <3>5, <3>3, Zenon DEF Joined
    <3> QED
      BY <3>5, <3>4, Zenon
  <2>3. i - m \in 1..Len(t) /\ t[i - m] = s[i]
    BY <1>1, <1>2, <1>5, <2>2
  <2> QED
    BY <2>1, <2>3, Zenon
<1>10. Whole(s, q, g) => Whole(t, q, g2)
  <2> SUFFICES ASSUME Whole(s, q, g), NEW x \in 1..Len(q), q[x] \in Good,
                      ~\E i \in 1..Len(g2) : g2[i] = x
               PROVE  \E i \in 1..Len(t) : t[i].n = x /\ t[i].o = 0
    BY Zenon DEF Whole
  <2>1. x # s[1].n /\ ~\E i \in 1..Len(g) : g[i] = x
    BY <1>7, Zenon
  <2> QED
    BY <1>9, <2>1, Zenon
<1>11. ASSUME Whole(s, q, g), s[1].k \notin Good PROVE Whole(t, q, g)
  <2> SUFFICES ASSUME NEW x \in 1..Len(q), q[x] \in Good, ~\E i \in 1..Len(g) : g[i] = x
               PROVE  \E i \in 1..Len(t) : t[i].n = x /\ t[i].o = 0
    BY Zenon DEF Whole
  <2>1. x # s[1].n
    <3>1. SUFFICES ASSUME x = s[1].n PROVE FALSE
      BY Zenon
    <3>2. s[1].n <= Len(q)
      BY <3>1
    <3>3. s[1].k = q[s[1].n]
      BY <1>1, <3>2, Zenon DEF Flow
    <3> QED
      BY <1>11, <3>1, <3>3, Zenon
  <2> QED
    BY <1>9, <1>11, <2>1, Zenon
<1> QED
  BY <1>2, <1>3, <1>7, <1>8, <1>10, <1>11, Zenon

-----------------------------------------------------------------------------
(***************************************************************************)
(* Buffers and headers.                                                    *)
(***************************************************************************)

\* A buffer, and what is left of it in the pool.
Buffer == [data : Seq(Byte), pos : Nat, cap : Int]
Spare == [pos : Nat, cap : Int]

\* The header of packet x has been decoded: the packet is at the start of the
\* buffer and its payload is next.
HeaderRead(b, x) ==
    /\ b.pos = HdrSize /\ Len(b.data) >= HdrSize
    /\ b.data[1].n = x /\ b.data[1].o = 0 /\ b.data[1].k \notin Alien

\* No packet that can be decoded begins before the read position.
Clear(b) == b.pos <= Len(b.data) /\ \A i \in 1..b.pos : ~Start(b.data[i])

\* Every set of natural numbers has a least element.
LEMMA Least == ASSUME NEW S, S \subseteq Nat, S # {} PROVE \E x \in S : \A y \in S : x <= y
<1>1. PICK R : R = OpToRel(<, Nat)
  BY Zenon
<1>2. IsWellFoundedOn(R, Nat)
  BY <1>1, NatLessThanWellFounded, Zenon
<1>3. PICK x \in S : \A y \in S : ~(<<y, x>> \in R)
  BY <1>2, WFMin, Zenon
<1>4. ASSUME NEW y \in S PROVE x <= y
  <2>1. y < x => <<y, x>> \in R
    BY <1>1, Zenon DEF OpToRel
  <2> QED
    BY <1>3, <2>1
<1> QED
  BY <1>4, Zenon

\* obus_buffer_remove_first with no more bytes than there are.
LEMMA Removed ==
    ASSUME NEW b \in Buffer, NEW m \in 0..Len(b.data), NEW c, c = RemoveFirst(b, m)
    PROVE  /\ c \in Buffer /\ IsCut(c.data, b.data, m) /\ c.cap = b.cap
           /\ m < Len(b.data) =>
                c.pos = IF m = 0 THEN b.pos ELSE IF b.pos > m THEN b.pos - m ELSE 0
<1>1. b.data \in Seq(Byte) /\ b.pos \in Nat /\ b.cap \in Int /\ Len(b.data) \in Nat /\ m \in Nat
      /\ m <= Len(b.data)
  BY DEF Buffer
<1>2. CASE m = 0
  <2>1. c = b
    BY <1>2, Zenon DEF RemoveFirst
  <2>2. IsCut(b.data, b.data, 0)
    BY <1>1 DEF IsCut
  <2> QED
    BY <1>1, <1>2, <2>1, <2>2, Zenon
<1>3. CASE m # 0 /\ m = Len(b.data)
  <2>0. PICK t : t = <<>>
    BY Zenon
  <2>1. c = [b EXCEPT !.data = t]
    BY <1>1, <1>3, <2>0 DEF RemoveFirst
  <2>2. t \in Seq(Byte) /\ Len(t) = 0
    BY <2>0
  <2>3. c \in Buffer /\ c.data = t /\ c.cap = b.cap
    BY <1>1, <2>1, <2>2, Zenon DEF Buffer
  <2>4. IsCut(t, b.data, m)
    BY <1>1, <1>3, <2>2 DEF IsCut
  <2> QED
    BY <1>1, <1>3, <2>3, <2>4
<1>4. CASE m # 0 /\ m < Len(b.data)
  <2>1. PICK t : t = SubSeq(b.data, m + 1, Len(b.data))
    BY Zenon
  <2>2. t \in Seq(Byte) /\ Len(t) = Len(b.data) - m /\ \A i \in 1..Len(t) : t[i] = b.data[i + m]
    BY <1>1, <1>4, <2>1
  <2>3. PICK p : p = IF b.pos > m THEN b.pos - m ELSE 0
    BY Zenon
  <2>4. p \in Nat
    BY <1>1, <2>3
  <2>5. c = [b EXCEPT !.data = t, !.pos = p]
    BY <1>1, <1>4, <2>1, <2>3 DEF RemoveFirst
  <2>6. c \in Buffer /\ c.data = t /\ c.pos = p /\ c.cap = b.cap
    BY <1>1, <2>2, <2>4, <2>5, Zenon DEF Buffer
  <2>7. IsCut(t, b.data, m)
    BY <2>2, Zenon DEF IsCut
  <2> QED
    BY <1>4, <2>3, <2>6, <2>7, Zenon
<1> QED
  BY <1>1, <1>2, <1>3, <1>4

\* The bytes of the buffer are in order as those of the stream are.
LEMMA PrefixFlow ==
    ASSUME NEW s \in Seq(Byte), NEW d \in Seq(Byte), Len(d) <= Len(s),
           \A i \in 1..Len(d) : s[i] = d[i], Ordered(s), Joined(s)
    PROVE  Ordered(d) /\ Joined(d)
<1>1. Len(s) \in Nat /\ Len(d) \in Nat
  OBVIOUS
<1>2. Ordered(d)
  BY <1>1, SMTT(30) DEF Ordered
<1>3. ASSUME NEW i \in 1..Len(d), NEW x \in Nat, d[i].o + x < Size[d[i].k], i + x <= Len(d)
      PROVE  d[i + x].n = d[i].n
  <2>1. /\ i \in 1..Len(s) /\ i + x \in 1..Len(d) /\ i + x <= Len(s)
        /\ s[i] = d[i] /\ s[i + x] = d[i + x]
    BY <1>1, <1>3
  <2> QED
    BY <1>3, <2>1, Zenon DEF Joined
<1> QED
  BY <1>2, <1>3, Zenon DEF Joined

\* The bytes of the packet that begins at place j.
LEMMA PacketAt ==
    ASSUME DecoderAssumption, NEW d \in Seq(Byte), Ordered(d), Joined(d),
           NEW j \in 1..Len(d), d[j].o = 0, NEW i \in Nat, i < Size[d[j].k], j + i <= Len(d)
    PROVE  d[j + i] = [n |-> d[j].n, k |-> d[j].k, o |-> i]
<1>1. Len(d) \in Nat /\ j \in Nat /\ j + i \in 1..Len(d) /\ d[j] \in Byte /\ d[j + i] \in Byte
  OBVIOUS
<1>2. d[j + i].n = d[j].n
  <2>1. d[j].o + i < Size[d[j].k]
    BY <1>1
  <2> QED
    BY <2>1, Zenon DEF Joined
<1>3. d[j + i].k = d[j].k /\ d[j + i].o = i
  <2>1. CASE i = 0
    BY <1>1, <2>1
  <2>2. CASE i # 0
    <3>1. j < j + i /\ (j + i) - j = i
      BY <1>1, <2>2
    <3>2. d[j].n < d[j + i].n \/ (d[j].k = d[j + i].k /\ d[j + i].o = d[j].o + ((j + i) - j))
      BY <1>1, <3>1, Zenon DEF Ordered
    <3>3. ~(d[j].n < d[j + i].n)
      BY <1>1, <1>2, ByteIs, SMTT(30)
    <3>4. d[j].o + ((j + i) - j) = i
      BY <1>1, <3>1
    <3> QED
      BY <3>2, <3>3, <3>4, Zenon
  <2> QED
    BY <2>1, <2>2, Zenon
<1>4. d[j + i] = [n |-> d[j + i].n, k |-> d[j + i].k, o |-> d[j + i].o]
  BY <1>1, ByteIs, Zenon
<1> QED
  BY <1>2, <1>3, <1>4, Zenon

\* Where a packet begins that can be decoded, and its header is in the buffer, there
\* is a header.
LEMMA StartHeader ==
    ASSUME DecoderAssumption, NEW d \in Seq(Byte), Ordered(d), Joined(d),
           NEW p \in Nat, p + HdrSize <= Len(d), Start(d[p + 1])
    PROVE  HeaderAt(d, p)
<1>1. HdrSize \in Nat /\ HdrSize >= 2 /\ Len(d) \in Nat /\ p + 1 \in 1..Len(d)
  BY DEF DecoderAssumption
<1>2. d[p + 1] \in Byte /\ d[p + 1].o = 0 /\ d[p + 1].k \notin Alien
  BY <1>1 DEF Start, DecoderAssumption
<1>3. Size[d[p + 1].k] \in Nat /\ Size[d[p + 1].k] >= HdrSize
  BY <1>2, ByteIs, Zenon
<1>4. ASSUME NEW i \in 1..HdrSize
      PROVE  d[p + i] = [d[p + 1] EXCEPT !.o = i - 1]
  <2>1. i - 1 \in Nat /\ i - 1 < Size[d[p + 1].k] /\ (p + 1) + (i - 1) <= Len(d)
        /\ (p + 1) + (i - 1) = p + i
    BY <1>1, <1>3
  <2>2. d[p + i] = [n |-> d[p + 1].n, k |-> d[p + 1].k, o |-> i - 1]
    BY <1>1, <1>2, <2>1, PacketAt
  <2>3. PICK x, y, z : d[p + 1] = [n |-> x, k |-> y, o |-> z]
    BY <1>2, ByteIs, ZenonT(40)
  <2>4. [d[p + 1] EXCEPT !.o = i - 1] = [n |-> x, k |-> y, o |-> i - 1]
    BY <2>3
  <2>5. d[p + 1].n = x /\ d[p + 1].k = y
    BY <2>3
  <2> QED
    BY <2>2, <2>4, <2>5, Zenon
<1> QED
  BY <1>2, <1>4, Zenon DEF HeaderAt

\* obus_packet_decode_header: the bytes that are removed begin no packet that can be
\* decoded, if those before the read position do not.
LEMMA HeaderIs ==
    ASSUME DecoderAssumption, NEW b \in Buffer, Ordered(b.data), Joined(b.data),
           NEW r, r = DecodeHeader(b)
    PROVE  /\ r.n \in Nat /\ r.b \in Buffer
           /\ r.n # 0 => HeaderRead(r.b, r.n)
           /\ \E m \in 0..Len(b.data) :
                /\ IsCut(r.b.data, b.data, m)
                /\ Clear(b) => /\ \A i \in 1..m : ~Start(b.data[i])
                               /\ r.n = 0 => Clear(r.b)
<1>1. PICK d, p : d = b.data /\ p = b.pos
  BY Zenon
<1>2. d \in Seq(Byte) /\ p \in Nat /\ b.cap \in Int /\ Len(d) \in Nat
  BY <1>1 DEF Buffer
<1>3. HdrSize \in Nat /\ HdrSize >= 2
  BY DEF DecoderAssumption
<1>4. PICK found : found = {x \in p..Len(d) : HeaderAt(d, x)}
  BY Zenon
<1>5. ASSUME Clear(b), NEW i \in Nat \ {0}, i + HdrSize <= Len(d) + 1, Start(d[i])
      PROVE  i - 1 \in found
  <2>1. ~(i \in 1..p)
    BY <1>1, <1>5, Zenon DEF Clear
  <2>2. i - 1 \in p..Len(d) /\ (i - 1) + HdrSize <= Len(d) /\ (i - 1) + 1 = i
    BY <1>2, <1>3, <1>5, <2>1
  <2>3. i - 1 \in Nat /\ Start(d[(i - 1) + 1])
    BY <1>2, <1>5, <2>2
  <2>4. Ordered(d) /\ Joined(d)
    BY <1>1, Zenon
  <2>5. HeaderAt(d, i - 1)
    BY <1>2, <2>2, <2>3, <2>4, StartHeader, Zenon
  <2> QED
    BY <1>4, <2>2, <2>5, Zenon
<1>6. CASE found # {}
  <2>1. PICK first : first = CHOOSE x \in found : \A y \in found : x <= y
    BY Zenon
  <2>2. found \subseteq Nat
    BY <1>2, <1>4
  <2>3. first \in found /\ \A y \in found : first <= y
    BY <1>6, <2>1, <2>2, Least, Zenon
  <2>4. first \in Nat /\ HeaderAt(d, first) /\ first + HdrSize <= Len(d) /\ first < Len(d)
    BY <1>2, <1>3, <1>4, <2>3 DEF HeaderAt
  <2>5. PICK c : c = [b EXCEPT !.pos = first + HdrSize]
    BY Zenon
  <2>6. c \in Buffer /\ c.data = d /\ c.pos = first + HdrSize
    BY <1>1, <1>2, <1>3, <2>4, <2>5 DEF Buffer
  <2>7. r = [b |-> RemoveFirst(c, first), n |-> d[first + 1].n]
    BY <1>1, <1>4, <1>6, <2>1, <2>5, Zenon DEF DecodeHeader
  <2>8. PICK a : a = RemoveFirst(c, first)
    BY Zenon
  <2>9. first \in 0..Len(c.data) /\ first < Len(c.data)
    BY <1>2, <2>4, <2>6
  <2>10. /\ a \in Buffer /\ IsCut(a.data, d, first)
         /\ a.pos = IF first = 0 THEN c.pos ELSE IF c.pos > first THEN c.pos - first ELSE 0
    BY <2>6, <2>8, <2>9, Removed, Zenon
  <2>11. a.pos = HdrSize
    BY <1>3, <2>4, <2>6, <2>10
  <2>12. r.b = a /\ r.n = d[first + 1].n
    BY <2>7, <2>8
  <2>13. first + 1 \in 1..Len(d) /\ d[first + 1] \in Byte /\ d[first + 1].n \in Nat
    <3>1. first + 1 \in 1..Len(d)
      BY <1>2, <2>4
    <3>2. d[first + 1] \in Byte
      BY <1>2, <3>1
    <3> QED
      BY <3>1, <3>2, ByteIs, Zenon
  <2>14. d[first + 1].k \notin Alien /\ d[first + 1].o = 0
    <3>1. d[first + 1] = [d[first + 1] EXCEPT !.o = 1 - 1]
      BY <1>3, <2>4 DEF HeaderAt
    <3>2. PICK x, y, z : d[first + 1] = [n |-> x, k |-> y, o |-> z]
      BY <2>13, ByteIs, Zenon
    <3>3. [d[first + 1] EXCEPT !.o = 1 - 1].o = 0
      BY <3>2
    <3> QED
      BY <2>4, <3>1, <3>3, Zenon DEF HeaderAt
  <2>15. a.data[1] = d[first + 1] /\ Len(a.data) >= HdrSize
    <3>1. Len(a.data) = Len(d) - first /\ \A i \in 1..Len(a.data) : a.data[i] = d[i + first]
      BY <2>10, Zenon DEF IsCut
    <3>2. 1 \in 1..Len(a.data) /\ Len(a.data) >= HdrSize /\ 1 + first = first + 1
      BY <1>2, <1>3, <2>4, <3>1
    <3> QED
      BY <3>1, <3>2, Zenon
  <2>16. HeaderRead(a, r.n)
    BY <2>11, <2>12, <2>14, <2>15, Zenon DEF HeaderRead
  <2>17. ASSUME Clear(b), NEW i \in 1..first PROVE ~Start(d[i])
    <3>1. i \in Nat \ {0} /\ i + HdrSize <= Len(d) + 1 /\ ~(first <= i - 1)
      BY <1>2, <1>3, <2>4
    <3> QED
      BY <1>5, <2>3, <2>17, <3>1, Zenon
  <2>18. r.n # 0
    BY <2>12, <2>13, ByteIs, Zenon
  <2> QED
    BY <1>1, <2>9, <2>6, <2>10, <2>12, <2>13, <2>16, <2>17, <2>18, Zenon
<1>7. CASE found = {} /\ Len(d) < HdrSize
  <2>1. r = [b |-> b, n |-> 0]
    BY <1>1, <1>2, <1>3, <1>4, <1>7 DEF DecodeHeader
  <2>2. IsCut(b.data, b.data, 0) /\ 0 \in 0..Len(b.data)
    BY <1>1, <1>2 DEF IsCut
  <2> QED
    BY <2>1, <2>2
<1>8. CASE found = {} /\ Len(d) >= HdrSize
  <2>1. PICK m : m = Len(d) - (HdrSize - 1)
    BY Zenon
  <2>2. m \in 0..Len(d) /\ m # 0 /\ m < Len(d) /\ m \in Nat
    BY <1>2, <1>3, <1>8, <2>1
  <2>3. PICK end : end = IF p + HdrSize <= Len(d) THEN m ELSE p
    BY Zenon
  <2>4. end \in Nat
    BY <1>2, <2>2, <2>3, Zenon
  <2>5. PICK c : c = [b EXCEPT !.pos = end]
    BY Zenon
  <2>6. c \in Buffer /\ c.data = d /\ c.pos = end
    BY <1>1, <1>2, <2>4, <2>5, Zenon DEF Buffer
  <2>7. r = [b |-> RemoveFirst(c, m), n |-> 0]
    BY <1>1, <1>4, <1>8, <2>1, <2>3, <2>5, Zenon DEF DecodeHeader
  <2>8. PICK a : a = RemoveFirst(c, m)
    BY Zenon
  <2>9. /\ a \in Buffer /\ IsCut(a.data, d, m)
        /\ a.pos = IF m = 0 THEN end ELSE IF end > m THEN end - m ELSE 0
    BY <2>2, <2>6, <2>8, Removed
  <2>10. r.b = a /\ r.n = 0
    BY <2>7, <2>8
  <2>11. ASSUME Clear(b), NEW i \in 1..m PROVE ~Start(d[i])
    <3>1. i \in Nat \ {0} /\ i + HdrSize <= Len(d) + 1
      BY <1>2, <1>3, <2>1, <2>2
    <3> QED
      BY <1>5, <1>8, <2>11, <3>1, Zenon
  <2>12. ASSUME Clear(b) PROVE Clear(a)
    <3>1. Len(a.data) = Len(d) - m /\ \A i \in 1..Len(a.data) : a.data[i] = d[i + m]
      BY <2>9, Zenon DEF IsCut
    <3>2. p <= Len(d) /\ \A i \in 1..p : ~Start(d[i])
      BY <1>1, <2>12, Zenon DEF Clear
    <3>3. a.pos \in Nat /\ a.pos <= Len(d) - m /\ (a.pos # 0 => a.pos = p - m)
      BY <1>2, <1>3, <2>1, <2>2, <2>3, <2>9, <3>2, SMTT(30)
    <3>4. ASSUME NEW i \in 1..a.pos PROVE ~Start(a.data[i])
      <4>1. i \in 1..Len(a.data) /\ i + m \in 1..p
        BY <1>2, <2>2, <3>1, <3>3
      <4> QED
        BY <3>1, <3>2, <4>1, Zenon
    <3> QED
      BY <3>1, <3>3, <3>4, Zenon DEF Clear
  <2> QED
    BY <1>1, <2>2, <2>9, <2>10, <2>11, <2>12
<1> QED
  BY <1>2, <1>3, <1>6, <1>7, <1>8

-----------------------------------------------------------------------------
(***************************************************************************)
(* What an iteration of obus_packet_decoder_read keeps.                    *)
(***************************************************************************)

\* The decoder of a connection: buffer b, header x (0 if none), bytes w on the wire.
Reads(b, x, w, e, q, g) ==
    /\ b \in Buffer /\ x \in Nat /\ q \in Seq(Kind) /\ g \in Seq(Nat)
    /\ x # 0 => HeaderRead(b, x)
    /\ MaxConns <= 1 /\ x = 0 => Clear(b)
    /\ \E s : Flow(s, e, q, g) /\ Split(s, b.data, w) /\ (MaxConns <= 1 => Whole(s, q, g))

\* A stream without its first bytes.
LEMMA HasCut ==
    ASSUME NEW s \in Seq(Byte), NEW m \in 0..Len(s)
    PROVE  \E t : IsCut(t, s, m)
<1>1. PICK t : t = SubSeq(s, m + 1, Len(s))
  BY Zenon
<1>2. t \in Seq(Byte) /\ Len(t) = Len(s) - m /\ \A i \in 1..Len(t) : t[i] = s[i + m]
  BY <1>1
<1> QED
  BY <1>2, Zenon DEF IsCut

\* Looking for a header loses nothing.
LEMMA HeaderKeeps ==
    ASSUME DecoderAssumption, NEW b, NEW w, NEW e, NEW q, NEW g, Reads(b, 0, w, e, q, g),
           NEW r, r = DecodeHeader(b)
    PROVE  Reads(r.b, r.n, w, e, q, g)
<1>1. b \in Buffer /\ q \in Seq(Kind) /\ g \in Seq(Nat) /\ (MaxConns <= 1 => Clear(b))
  BY Zenon DEF Reads
<1>2. PICK s : Flow(s, e, q, g) /\ Split(s, b.data, w) /\ (MaxConns <= 1 => Whole(s, q, g))
  BY Zenon DEF Reads
<1>3. /\ s \in Seq(Byte) /\ Ordered(s) /\ Joined(s) /\ b.data \in Seq(Byte)
      /\ Len(b.data) <= Len(s) /\ Len(b.data) \in Nat /\ Len(s) \in Nat
      /\ \A i \in 1..Len(b.data) : s[i] = b.data[i]
  BY <1>2 DEF Flow, Split
<1>4. Ordered(b.data) /\ Joined(b.data)
  BY <1>3, PrefixFlow, Zenon
<1>5. r.n \in Nat /\ r.b \in Buffer /\ (r.n # 0 => HeaderRead(r.b, r.n))
  BY <1>1, <1>4, HeaderIs, Zenon
<1>6. PICK m \in 0..Len(b.data) :
         /\ IsCut(r.b.data, b.data, m)
         /\ Clear(b) => /\ \A i \in 1..m : ~Start(b.data[i])
                        /\ r.n = 0 => Clear(r.b)
  BY <1>1, <1>4, HeaderIs, Zenon
<1>7. m \in 0..Len(s) /\ \A i \in 1..m : s[i] = b.data[i]
  BY <1>3
<1>8. PICK t : IsCut(t, s, m)
  BY <1>3, <1>7, HasCut, Zenon
<1>9. Flow(t, e, q, g)
  BY <1>2, <1>7, <1>8, FlowCut, Zenon
<1>10. Split(t, r.b.data, w)
  BY <1>2, <1>3, <1>6, <1>8, CutSplit, Zenon
<1>11. ASSUME MaxConns <= 1 PROVE Whole(t, q, g)
  <2>1. \A i \in 1..m : ~Start(s[i])
    BY <1>1, <1>6, <1>7, <1>11, Zenon
  <2> QED
    BY <1>1, <1>2, <1>7, <1>8, <1>11, <2>1, WholeCut, Zenon
<1> QED
  BY <1>1, <1>5, <1>6, <1>9, <1>10, <1>11, Zenon DEF Reads

\* A whole packet is returned or, if it cannot be decoded, dropped.
LEMMA PacketKeeps ==
    ASSUME DecoderAssumption, NEW b, NEW x, NEW w, NEW e, NEW q, NEW g,
           Reads(b, x, w, e, q, g), x # 0, NEW m \in Nat, m = Size[b.data[1].k],
           m <= Len(b.data), NEW c, c = [RemoveFirst(b, m) EXCEPT !.pos = 0],
           NEW g2, g2 = IF b.data[1].k \in Good /\ b.pos = HdrSize THEN Append(g, x) ELSE g
    PROVE  Reads(c, 0, w, e, q, g2)
<1>1. b \in Buffer /\ q \in Seq(Kind) /\ g \in Seq(Nat) /\ HeaderRead(b, x) /\ x \in Nat
  BY Zenon DEF Reads
<1>2. PICK s : Flow(s, e, q, g) /\ Split(s, b.data, w) /\ (MaxConns <= 1 => Whole(s, q, g))
  BY Zenon DEF Reads
<1>3. /\ s \in Seq(Byte) /\ b.data \in Seq(Byte)
      /\ Len(b.data) <= Len(s) /\ Len(b.data) \in Nat /\ Len(s) \in Nat
      /\ \A i \in 1..Len(b.data) : s[i] = b.data[i]
  BY <1>2 DEF Flow, Split
<1>4. HdrSize \in Nat /\ HdrSize >= 2 /\ 1 \in 1..Len(b.data)
  BY <1>1, <1>3, SMTT(30) DEF HeaderRead, DecoderAssumption
<1>5. s # <<>> /\ s[1] = b.data[1]
  BY <1>3, <1>4, SMTT(30)
<1>6. b.pos = HdrSize /\ s[1].o = 0 /\ s[1].n = x
  BY <1>1, <1>5, Zenon DEF HeaderRead
<1>7. m \in 0..Len(b.data) /\ m \in 0..Len(s) /\ Size[s[1].k] = m
  BY <1>3, <1>5
<1>8. PICK a : a = RemoveFirst(b, m)
  BY Zenon
<1>9. a \in Buffer /\ IsCut(a.data, b.data, m)
  BY <1>1, <1>7, <1>8, Removed, Zenon
<1>10. c \in Buffer /\ c.data = a.data /\ c.pos = 0
  BY <1>8, <1>9, Zenon DEF Buffer
<1>11. PICK t : IsCut(t, s, m)
  BY <1>3, <1>7, HasCut, Zenon
<1>12. PICK g3 : g3 = Append(g, x)
  BY Zenon
<1>13. /\ Flow(t, e, q, g) /\ Flow(t, e, q, g3) /\ g3 \in Seq(Nat)
       /\ Whole(s, q, g) => Whole(t, q, g3)
       /\ Whole(s, q, g) /\ s[1].k \notin Good => Whole(t, q, g)
  <2>1. Leaving(s, e, q, g, m, t, x, g3)
    BY <1>1, <1>2, <1>5, <1>6, <1>7, <1>11, <1>12, Zenon DEF Leaving
  <2> QED
    BY <2>1, PacketFlow, ZenonT(40)
<1>14. Split(t, c.data, w)
  BY <1>2, <1>3, <1>7, <1>9, <1>10, <1>11, CutSplit, Zenon
<1>15. g2 \in Seq(Nat) /\ Flow(t, e, q, g2) /\ (MaxConns <= 1 => Whole(t, q, g2))
  <2>1. CASE s[1].k \in Good
    <3>1. g2 = g3
      BY <1>5, <1>6, <1>12, <2>1, Zenon
    <3> QED
      BY <1>2, <1>13, <3>1, Zenon
  <2>2. CASE s[1].k \notin Good
    <3>1. g2 = g
      BY <1>5, <2>2, Zenon
    <3> QED
      BY <1>1, <1>2, <1>13, <2>2, <3>1, Zenon
  <2> QED
    BY <2>1, <2>2, Zenon
<1>16. Clear(c)
  <2>1. Len(c.data) \in Nat
    BY <1>10 DEF Buffer
  <2> QED
    BY <1>10, <2>1, SMTT(30) DEF Clear
<1> QED
  BY <1>1, <1>10, <1>14, <1>15, <1>16, Zenon DEF Reads

\* The part of an iteration that follows the read.
LEMMA DecodeKeeps ==
    ASSUME DecoderAssumption, NEW b, NEW w, Reads(b, hdr, w, eof, sent, got),
           Decode(b)
    PROVE  Reads(rx', hdr', w, eof, sent, got')
<1>1. PICK h : h = IF hdr = 0 THEN DecodeHeader(b) ELSE [b |-> b, n |-> hdr]
  BY Zenon
<1>2. Reads(h.b, h.n, w, eof, sent, got)
  <2>1. CASE hdr = 0
    BY <1>1, <2>1, HeaderKeeps, Zenon
  <2>2. CASE hdr # 0
    BY <1>1, <2>2, Zenon
  <2> QED
    BY <2>1, <2>2, Zenon
<1>3. CASE h.n # 0 /\ Len(h.b.data) >= Size[h.b.data[1].k]
  <2>1. DecodePacket(h.b, h.n)
    BY <1>1, <1>3, Zenon DEF Decode
  <2>2. PICK m : m = Size[h.b.data[1].k]
    BY Zenon
  <2>3. /\ rx' = [RemoveFirst(h.b, m) EXCEPT !.pos = 0] /\ hdr' = 0
        /\ got' = IF h.b.data[1].k \in Good /\ h.b.pos = HdrSize
                       THEN Append(got, h.n) ELSE got
    BY <2>1, <2>2, Zenon DEF DecodePacket
  <2>4. h.b.data \in Seq(Byte) /\ HeaderRead(h.b, h.n)
    BY <1>2, <1>3, Zenon DEF Reads, Buffer
  <2>5. 1 \in 1..Len(h.b.data)
    BY <2>4 DEF HeaderRead, DecoderAssumption
  <2>6. m \in Nat /\ m <= Len(h.b.data)
    BY <1>3, <2>2, <2>4, <2>5, ByteIs
  <2> QED
    BY <1>2, <1>3, <2>2, <2>3, <2>6, PacketKeeps, Zenon
<1>4. CASE ~(h.n # 0 /\ Len(h.b.data) >= Size[h.b.data[1].k])
  <2>1. rx' = h.b /\ hdr' = h.n /\ got' = got
    BY <1>1, <1>4, Zenon DEF Decode
  <2> QED
    BY <1>2, <2>1, Zenon
<1> QED
  BY <1>3, <1>4, Zenon

-----------------------------------------------------------------------------
(***************************************************************************)
(* Bytes that are read, sent and lost.                                     *)
(***************************************************************************)

\* One sequence of bytes, a, after another, d.
IsAfter(u, d, a) ==
    /\ u \in Seq(Byte) /\ Len(u) = Len(d) + Len(a)
    /\ \A i \in 1..(Len(d) + Len(a)) : i <= Len(d) => u[i] = d[i]
    /\ \A i \in 1..(Len(d) + Len(a)) : ~(i <= Len(d)) => u[i] = a[i - Len(d)]

\* Concatenation.
LEMMA After ==
    ASSUME NEW d \in Seq(Byte), NEW a \in Seq(Byte), NEW u, u = d \o a
    PROVE  IsAfter(u, d, a)
<1>1. d \o a \in Seq(Byte) /\ Len(d \o a) = Len(d) + Len(a)
  OBVIOUS
<1>2. /\ \A i \in 1..(Len(d) + Len(a)) : i <= Len(d) => (d \o a)[i] = d[i]
      /\ \A i \in 1..(Len(d) + Len(a)) : ~(i <= Len(d)) => (d \o a)[i] = a[i - Len(d)]
  BY ConcatProperties, Zenon
<1> QED
  BY <1>1, <1>2, Zenon DEF IsAfter

\* The first x bytes leave the wire and enter the buffer.
Moved(u, v, d, w, x) == u = d \o SubSeq(w, 1, x) /\ v = SubSeq(w, x + 1, Len(w))

\* Bytes that are read leave the wire and enter the buffer: the stream is the same.
LEMMA ReadSplit ==
    ASSUME NEW s, NEW d, NEW w, Split(s, d, w), NEW x \in 1..Len(w),
           NEW u, NEW v, Moved(u, v, d, w, x)
    PROVE  Split(s, u, v) /\ Len(u) = Len(d) + x /\ \A i \in 1..Len(d) : u[i] = d[i]
<1>1. /\ d \in Seq(Byte) /\ w \in Seq(Byte) /\ Len(s) = Len(d) + Len(w)
      /\ \A i \in 1..Len(d) : s[i] = d[i]
      /\ \A i \in 1..Len(w) : s[Len(d) + i] = w[i]
  BY Zenon DEF Split
<1>2. Len(d) \in Nat /\ Len(w) \in Nat /\ x \in Nat /\ x <= Len(w)
  BY <1>1
<1>3. PICK a : a = SubSeq(w, 1, x)
  BY Zenon
<1>4. a \in Seq(Byte) /\ Len(a) = x /\ \A i \in 1..x : a[i] = w[i]
  BY <1>1, <1>2, <1>3
<1>5. /\ u \in Seq(Byte) /\ Len(u) = Len(d) + x
      /\ \A i \in 1..(Len(d) + x) : i <= Len(d) => u[i] = d[i]
      /\ \A i \in 1..(Len(d) + x) : ~(i <= Len(d)) => u[i] = a[i - Len(d)]
  <2>1. u = d \o a
    BY <1>3, Zenon DEF Moved
  <2>2. IsAfter(u, d, a)
    BY <1>1, <1>4, <2>1, After, Zenon
  <2> QED
    BY <1>4, <2>2, Zenon DEF IsAfter
<1>6. v \in Seq(Byte) /\ Len(v) = Len(w) - x /\ \A i \in 1..Len(v) : v[i] = w[i + x]
  <2>1. PICK y : y = x + 1
    BY Zenon
  <2>2. v = SubSeq(w, y, Len(w))
    BY <2>1, Zenon DEF Moved
  <2>3. y \in 1..(Len(w) + 1) /\ y - 1 = x
    BY <1>2, <2>1
  <2>4. w \in Seq(Byte)
    BY <1>1, Zenon
  <2>5. v \in Seq(Byte) /\ Len(v) = Len(w) - y + 1 /\ \A i \in 1..Len(v) : v[i] = w[y + i - 1]
    BY <2>2, <2>3, <2>4, SubSeqProperties
  <2>6. Len(w) - y + 1 = Len(w) - x /\ \A i \in Nat : y + i - 1 = i + x
    BY <1>2, <2>1
  <2>7. \A i \in 1..Len(v) : i \in Nat
    BY <2>5
  <2> QED
    BY <2>5, <2>6, <2>7, Zenon
<1>7. ASSUME NEW i \in 1..Len(d) PROVE u[i] = d[i]
  BY <1>2, <1>5
<1>8. ASSUME NEW i \in 1..Len(u) PROVE s[i] = u[i]
  <2>1. CASE i <= Len(d)
    BY <1>1, <1>2, <1>5, <2>1
  <2>2. CASE ~(i <= Len(d))
    <3>1. i - Len(d) \in 1..x /\ i - Len(d) \in 1..Len(w) /\ Len(d) + (i - Len(d)) = i
      BY <1>2, <1>5, <2>2
    <3>2. s[i] = w[i - Len(d)]
      BY <1>1, <3>1, Zenon
    <3>3. u[i] = a[i - Len(d)]
      BY <1>5, <2>2, Zenon
    <3> QED
      BY <1>4, <3>1, <3>2, <3>3, Zenon
  <2> QED
    BY <2>1, <2>2, Zenon
<1>9. ASSUME NEW i \in 1..Len(v) PROVE s[Len(u) + i] = v[i]
  <2>1. i + x \in 1..Len(w) /\ Len(u) + i = Len(d) + (i + x)
    BY <1>2, <1>5, <1>6
  <2> QED
    BY <1>1, <1>6, <2>1, Zenon
<1>10. Len(s) = Len(u) + Len(v)
  <2>1. PICK y, z : y = Len(d) /\ z = Len(w)
    BY Zenon
  <2>2. y \in Nat /\ z \in Nat /\ y + z = (y + x) + (z - x)
    BY <1>2, <2>1
  <2>3. Len(u) = y + x /\ Len(v) = z - x /\ Len(s) = y + z
    BY <1>1, <1>5, <1>6, <2>1, Zenon
  <2> QED
    BY <2>2, <2>3, Zenon
<1> QED
  BY <1>5, <1>6, <1>7, <1>8, <1>9, <1>10, Zenon DEF Split

\* The bytes of a packet.
LEMMA BytesOfIs ==
    ASSUME DecoderAssumption, NEW x \in Nat \ {0}, NEW k \in Kind,
           NEW a, a = BytesOf(x, k)
    PROVE  /\ a \in Seq(Byte) /\ Len(a) = Size[k] /\ Size[k] \in Nat /\ Size[k] >= 2
           /\ \A i \in 1..Len(a) : a[i] = [n |-> x, k |-> k, o |-> i - 1]
<1>1. Size[k] \in Nat /\ Size[k] >= 2
  BY DEF DecoderAssumption
<1>2. a = [i \in 1..Size[k] |-> [n |-> x, k |-> k, o |-> i - 1]]
  BY Zenon DEF BytesOf
<1>3. ASSUME NEW i \in 1..Size[k] PROVE [n |-> x, k |-> k, o |-> i - 1] \in Byte
  BY <1>1 DEF Byte
<1>4. PICK z \in Nat : z = Size[k]
  BY <1>1, Zenon
<1>5. a \in [1..z -> Byte]
  BY <1>2, <1>3, <1>4, Zenon
<1>6. a \in Seq(Byte) /\ Len(a) = z
  BY <1>5
<1>7. \A i \in 1..z : a[i] = [n |-> x, k |-> k, o |-> i - 1]
  BY <1>2, <1>4, Zenon
<1> QED
  BY <1>1, <1>4, <1>6, <1>7, Zenon

\* A packet is added to a stream that ends with a packet.
LEMMA AddedFlow ==
    ASSUME DecoderAssumption, NEW s \in Seq(Byte), Ordered(s), Joined(s), Ended(s),
           NEW x \in Nat \ {0}, \A i \in 1..Len(s) : s[i].n < x, NEW k \in Kind,
           NEW t \in Seq(Byte), Len(t) = Len(s) + Size[k],
           \A i \in 1..Len(s) : t[i] = s[i],
           \A i \in (Len(s) + 1)..Len(t) : t[i] = [n |-> x, k |-> k, o |-> (i - Len(s)) - 1]
    PROVE  Ordered(t) /\ Joined(t) /\ Ended(t)
<1>1. Len(s) \in Nat /\ Len(t) \in Nat /\ Size[k] \in Nat
  BY DEF DecoderAssumption
<1>2. ASSUME NEW i \in 1..Len(t)
      PROVE  \/ i \in 1..Len(s) /\ t[i] = s[i] /\ t[i].n < x /\ s[i] \in Byte
             \/ /\ i > Len(s) /\ t[i].n = x /\ t[i].k = k /\ t[i].o = (i - Len(s)) - 1
  <2>1. CASE i <= Len(s)
    BY <1>1, <2>1, SMTT(30)
  <2>2. CASE i > Len(s)
    <3>1. t[i] = [n |-> x, k |-> k, o |-> (i - Len(s)) - 1]
      BY <1>1, <2>2
    <3> QED
      BY <2>2, <3>1
  <2> QED
    BY <1>1, <2>1, <2>2
<1>3. ASSUME NEW i \in 1..Len(t), NEW j \in 1..Len(t), i < j
      PROVE  t[i].n < t[j].n
             \/ (t[i].n = t[j].n /\ t[i].k = t[j].k /\ t[j].o = t[i].o + (j - i))
  <2>1. CASE j <= Len(s)
    <3>1. i \in 1..Len(s) /\ j \in 1..Len(s) /\ t[i] = s[i] /\ t[j] = s[j]
      BY <1>1, <1>3, <2>1
    <3> QED
      BY <1>3, <3>1, SMTT(30) DEF Ordered
  <2>2. CASE i <= Len(s) /\ j > Len(s)
    <3>1. ~(i > Len(s)) /\ ~(j \in 1..Len(s))
      BY <1>1, <2>2
    <3>2. t[i].n < x /\ t[j].n = x
      BY <1>2, <3>1, Zenon
    <3> QED
      BY <3>2, Zenon
  <2>3. CASE i > Len(s)
    <3>0. ~(i \in 1..Len(s)) /\ ~(j \in 1..Len(s))
      BY <1>1, <1>3, <2>3
    <3>1. t[i].n = x /\ t[i].k = k /\ t[i].o = (i - Len(s)) - 1
      BY <1>2, <3>0, Zenon
    <3>2. t[j].n = x /\ t[j].k = k /\ t[j].o = (j - Len(s)) - 1
      BY <1>2, <3>0, Zenon
    <3>3. (j - Len(s)) - 1 = ((i - Len(s)) - 1) + (j - i)
      BY <1>1
    <3> QED
      BY <3>1, <3>2, <3>3, Zenon
  <2> QED
    BY <1>1, <1>3, <2>1, <2>2, <2>3, SMTT(30)
<1>4. ASSUME NEW i \in 1..Len(s)
      PROVE  /\ s[i].o \in Nat /\ Size[s[i].k] \in Nat
             /\ i + Size[s[i].k] <= Len(s) + s[i].o + 1
  BY <1>4, ByteIs, SMTT(30) DEF Ended
<1>5. ASSUME NEW i \in 1..Len(t), NEW d \in Nat, t[i].o + d < Size[t[i].k], i + d <= Len(t)
      PROVE  t[i + d].n = t[i].n
  <2>1. CASE i <= Len(s)
    <3>1. i \in 1..Len(s) /\ t[i] = s[i]
      BY <1>1, <2>1
    <3>2. s[i].o + d < Size[s[i].k]
      BY <1>5, <3>1, Zenon
    <3>3. i + d <= Len(s)
      BY <1>1, <1>4, <3>1, <3>2, SMTT(30)
    <3>4. i + d \in 1..Len(s) /\ t[i + d] = s[i + d]
      BY <1>1, <3>1, <3>3, SMTT(30)
    <3> QED
      BY <3>1, <3>2, <3>3, <3>4, ZenonT(40) DEF Joined
  <2>2. CASE i > Len(s)
    <3>1. i + d \in 1..Len(t) /\ i + d > Len(s)
      BY <1>1, <1>5, <2>2
    <3>2. ~(i + d \in 1..Len(s)) /\ ~(i \in 1..Len(s))
      BY <1>1, <2>2, <3>1
    <3>3. t[i + d].n = x /\ t[i].n = x
      BY <1>2, <3>1, <3>2, Zenon
    <3> QED
      BY <3>3, Zenon
  <2> QED
    BY <1>1, <2>1, <2>2
<1>6. ASSUME NEW i \in 1..Len(t) PROVE i + Size[t[i].k] <= Len(t) + t[i].o + 1
  <2>1. CASE i <= Len(s)
    <3>1. i \in 1..Len(s) /\ t[i] = s[i]
      BY <1>1, <2>1
    <3>2. PICK y, z : y = Size[s[i].k] /\ z = s[i].o
      BY Zenon
    <3>3. y \in Nat /\ z \in Nat /\ i + y <= Len(s) + z + 1 /\ Len(s) <= Len(t)
      BY <1>1, <1>4, <3>1, <3>2, SMTT(30)
    <3>4. i + y <= Len(t) + z + 1
      BY <1>1, <3>3, SMTT(30)
    <3> QED
      BY <3>1, <3>2, <3>4, Zenon
  <2>2. CASE i > Len(s)
    <3>1. t[i].k = k /\ t[i].o = (i - Len(s)) - 1
      BY <1>1, <1>2, <2>2
    <3>2. i + Size[k] <= (Len(s) + Size[k]) + ((i - Len(s)) - 1) + 1
      BY <1>1, SMTT(30)
    <3> QED
      BY <3>1, <3>2, Zenon
  <2> QED
    BY <1>1, <2>1, <2>2
<1> QED
  BY <1>3, <1>5, <1>6, Zenon DEF Ordered, Joined, Ended

\* The server sends a packet.
LEMMA SendKeeps ==
    ASSUME DecoderAssumption, NEW b, NEW h, NEW w, NEW q, NEW g,
           Reads(b, h, w, FALSE, q, g), NEW k \in Kind,
           NEW q2, q2 = Append(q, k), NEW v, v = w \o BytesOf(Len(q) + 1, k)
    PROVE  Reads(b, h, v, FALSE, q2, g)
<1>1. b \in Buffer /\ q \in Seq(Kind) /\ g \in Seq(Nat)
  BY Zenon DEF Reads
<1>2. PICK s : Flow(s, FALSE, q, g) /\ Split(s, b.data, w) /\ (MaxConns <= 1 => Whole(s, q, g))
  BY Zenon DEF Reads
<1>3. /\ s \in Seq(Byte) /\ Ordered(s) /\ Joined(s) /\ Ended(s) /\ Len(s) \in Nat
      /\ \A i \in 1..Len(s) : s[i].n <= Len(q) /\ s[i].k = q[s[i].n]
      /\ \A i \in 1..Len(g) : g[i] <= Len(q)
      /\ \A i \in 1..Len(g), j \in 1..Len(s) : g[i] < s[j].n
      /\ \A i, j \in 1..Len(g) : i < j => g[i] < g[j]
  BY <1>2 DEF Flow
<1>4. /\ b.data \in Seq(Byte) /\ w \in Seq(Byte) /\ Len(s) = Len(b.data) + Len(w)
      /\ \A i \in 1..Len(b.data) : s[i] = b.data[i]
      /\ \A i \in 1..Len(w) : s[Len(b.data) + i] = w[i]
  BY <1>2, Zenon DEF Split
<1>5. PICK x : x = Len(q) + 1
  BY Zenon
<1>6. x \in Nat \ {0} /\ Len(q) \in Nat
  BY <1>1, <1>5
<1>7. PICK a : a = BytesOf(x, k)
  BY Zenon
<1>8. /\ a \in Seq(Byte) /\ Len(a) = Size[k] /\ Size[k] \in Nat /\ Size[k] >= 2
      /\ \A i \in 1..Len(a) : a[i] = [n |-> x, k |-> k, o |-> i - 1]
  BY <1>6, <1>7, BytesOfIs
<1>9. v = w \o a
  BY <1>5, <1>7, Zenon
<1>10. PICK t : t = s \o a
  BY Zenon
<1>11. /\ t \in Seq(Byte) /\ Len(t) = Len(s) + Len(a)
       /\ \A i \in 1..(Len(s) + Len(a)) : i <= Len(s) => t[i] = s[i]
       /\ \A i \in 1..(Len(s) + Len(a)) : ~(i <= Len(s)) => t[i] = a[i - Len(s)]
  <2>1. IsAfter(t, s, a)
    BY <1>3, <1>8, <1>10, After, Zenon
  <2> QED
    BY <2>1, Zenon DEF IsAfter
<1>12. /\ v \in Seq(Byte) /\ Len(v) = Len(w) + Len(a)
       /\ \A i \in 1..(Len(w) + Len(a)) : i <= Len(w) => v[i] = w[i]
       /\ \A i \in 1..(Len(w) + Len(a)) : ~(i <= Len(w)) => v[i] = a[i - Len(w)]
  <2>1. IsAfter(v, w, a)
    BY <1>4, <1>8, <1>9, After, Zenon
  <2> QED
    BY <2>1, Zenon DEF IsAfter
<1>13. ASSUME NEW i \in 1..Len(s) PROVE t[i] = s[i] /\ i \in 1..Len(t)
  BY <1>3, <1>8, <1>11, SMTT(30)
<1>14. ASSUME NEW i \in (Len(s) + 1)..Len(t)
       PROVE  t[i] = [n |-> x, k |-> k, o |-> (i - Len(s)) - 1]
  <2>1. i \in 1..(Len(s) + Len(a)) /\ ~(i <= Len(s)) /\ i - Len(s) \in 1..Len(a)
    BY <1>3, <1>8, <1>11, SMTT(30)
  <2> QED
    BY <1>8, <1>11, <2>1, Zenon
<1>15. Ordered(t) /\ Joined(t) /\ Ended(t)
  <2>1. \A i \in 1..Len(s) : s[i].n < x
    <3> SUFFICES ASSUME NEW i \in 1..Len(s) PROVE s[i].n < x
      BY Zenon
    <3>1. s[i].n \in Nat /\ s[i].n <= Len(q)
      BY <1>3, ByteIs
    <3> QED
      BY <1>5, <1>6, <3>1
  <2>2. Len(t) = Len(s) + Size[k]
    BY <1>8, <1>11, Zenon
  <2> QED
    BY <1>3, <1>6, <1>11, <1>13, <1>14, <2>1, <2>2, AddedFlow, Zenon
<1>16. /\ q2 \in Seq(Kind) /\ Len(q2) = x /\ q2[x] = k
       /\ \A i \in 1..Len(q) : q2[i] = q[i]
  BY <1>1, <1>5, AppendProperties
<1>17. ASSUME NEW i \in 1..Len(t)
       PROVE  \/ i \in 1..Len(s) /\ t[i] = s[i]
              \/ ~(i \in 1..Len(s)) /\ t[i].n = x /\ t[i].k = k
  <2>1. CASE i \in 1..Len(s)
    BY <1>13, <2>1, Zenon
  <2>2. CASE ~(i \in 1..Len(s))
    <3>1. i \in (Len(s) + 1)..Len(t)
      BY <1>3, <1>11, <2>2
    <3>2. t[i] = [n |-> x, k |-> k, o |-> (i - Len(s)) - 1]
      BY <1>14, <3>1, Zenon
    <3>3. t[i].n = x /\ t[i].k = k
      BY <3>2
    <3> QED
      BY <2>2, <3>3, Zenon
  <2> QED
    BY <2>1, <2>2, Zenon
<1>18. Flow(t, FALSE, q2, g)
  <2>1. ASSUME NEW i \in 1..Len(t) PROVE t[i].n <= Len(q2) /\ t[i].k = q2[t[i].n]
    <3>1. CASE i \in 1..Len(s)
      <4>1. t[i] = s[i] /\ s[i] \in Byte /\ s[i].n \in 1..Len(q)
        BY <1>3, <1>6, <1>13, <3>1, ByteIs, SMTT(30)
      <4>2. s[i].n <= x
        BY <1>5, <1>6, <4>1
      <4> QED
        BY <1>3, <1>16, <3>1, <4>1, <4>2, Zenon
    <3>2. CASE ~(i \in 1..Len(s))
      BY <1>6, <1>16, <1>17, <3>2, SMTT(30)
    <3> QED
      BY <3>1, <3>2, Zenon
  <2>2. ASSUME NEW i \in 1..Len(g) PROVE g[i] <= Len(q2) /\ g[i] < x
    BY <1>1, <1>3, <1>5, <1>6, <1>16
  <2>3. ASSUME NEW i \in 1..Len(g), NEW j \in 1..Len(t) PROVE g[i] < t[j].n
    BY <1>3, <1>17, <2>2, Zenon
  <2> QED
    BY <1>3, <1>11, <1>15, <2>1, <2>2, <2>3, Zenon DEF Flow
<1>19. Split(t, b.data, v)
  <2>1. ASSUME NEW i \in 1..Len(b.data) PROVE t[i] = b.data[i]
    <3>1. i \in 1..Len(s)
      BY <1>3, <1>4
    <3> QED
      BY <1>4, <1>13, <3>1, Zenon
  <2>2. ASSUME NEW i \in 1..Len(v) PROVE t[Len(b.data) + i] = v[i]
    <3>1. CASE i <= Len(w)
      <4>1. i \in 1..Len(w) /\ Len(b.data) + i \in 1..Len(s) /\ i \in 1..(Len(w) + Len(a))
        BY <1>4, <1>8, <1>12, <3>1
      <4> QED
        BY <1>4, <1>12, <1>13, <3>1, <4>1, Zenon
    <3>2. CASE ~(i <= Len(w))
      <4>1. /\ i \in 1..(Len(w) + Len(a)) /\ Len(b.data) + i \in 1..(Len(s) + Len(a))
            /\ ~(Len(b.data) + i <= Len(s)) /\ (Len(b.data) + i) - Len(s) = i - Len(w)
        BY <1>4, <1>8, <1>12, <3>2, SMTT(30)
      <4> QED
        BY <1>11, <1>12, <3>2, <4>1, Zenon
    <3> QED
      BY <3>1, <3>2, Zenon
  <2>3. Len(t) = Len(b.data) + Len(v)
    <3>1. PICK y, z, c : y = Len(b.data) /\ z = Len(w) /\ c = Len(a)
      BY Zenon
    <3>2. y \in Nat /\ z \in Nat /\ c \in Nat
      BY <1>4, <1>8, <3>1
    <3>3. (y + z) + c = y + (z + c)
      BY <3>2
    <3> QED
      BY <1>4, <1>11, <1>12, <3>1, <3>3, Zenon
  <2> QED
    BY <1>4, <1>12, <2>1, <2>2, <2>3, Zenon DEF Split
<1>20. ASSUME MaxConns <= 1 PROVE Whole(t, q2, g)
  <2> SUFFICES ASSUME NEW z \in 1..Len(q2), q2[z] \in Good, ~\E i \in 1..Len(g) : g[i] = z
               PROVE  \E i \in 1..Len(t) : t[i].n = z /\ t[i].o = 0
    BY Zenon DEF Whole
  <2>1. CASE z = x
    <3>1. /\ Len(s) + 1 \in (Len(s) + 1)..Len(t) /\ Len(s) + 1 \in 1..Len(t)
          /\ ((Len(s) + 1) - Len(s)) - 1 = 0
      BY <1>3, <1>8, <1>11, SMTT(30)
    <3>3. t[Len(s) + 1] = [n |-> x, k |-> k, o |-> ((Len(s) + 1) - Len(s)) - 1]
      BY <1>14, <3>1, Zenon
    <3>4. t[Len(s) + 1] = [n |-> x, k |-> k, o |-> 0]
      BY <3>1, <3>3, Zenon
    <3>2. t[Len(s) + 1].n = x /\ t[Len(s) + 1].o = 0
      BY <3>4
    <3> QED
      BY <2>1, <3>1, <3>2, Zenon
  <2>2. CASE z # x
    <3>1. z \in 1..Len(q) /\ q2[z] = q[z]
      BY <1>5, <1>6, <1>16, <2>2
    <3>2. PICK i \in 1..Len(s) : s[i].n = z /\ s[i].o = 0
      BY <1>2, <1>20, <3>1, Zenon DEF Whole
    <3> QED
      BY <1>13, <3>2, Zenon
  <2> QED
    BY <2>1, <2>2, Zenon
<1> QED
  BY <1>16, <1>18, <1>19, <1>20, Zenon DEF Reads

\* Only the first i bytes of w arrive, v, and q2 are the packets that are then sent.
Arriving(v, q2, q, w, i) ==
    /\ v = SubSeq(w, 1, i)
    /\ q2 = IF i < Len(w) THEN SubSeq(q, 1, w[i + 1].n - 1) ELSE q

\* Arithmetic that the proof below needs by itself.
LEMMA Sum == ASSUME NEW x \in Nat, NEW y \in Nat PROVE x + (y + 1) = (x + y) + 1
  OBVIOUS

\* The server closes: the stream ends before its end, and the packets that are cut
\* off, or come after the cut, have not been sent.
LEMMA CloseKeeps ==
    ASSUME DecoderAssumption, NEW b, NEW h, NEW w, NEW q, NEW g,
           Reads(b, h, w, FALSE, q, g), NEW i \in 0..Len(w), NEW v, NEW q2,
           Arriving(v, q2, q, w, i)
    PROVE  Reads(b, h, v, TRUE, q2, g)
<1>1. b \in Buffer /\ q \in Seq(Kind) /\ g \in Seq(Nat) /\ Len(q) \in Nat
  BY DEF Reads
<1>2. PICK s : Flow(s, FALSE, q, g) /\ Split(s, b.data, w) /\ (MaxConns <= 1 => Whole(s, q, g))
  BY Zenon DEF Reads
<1>3. /\ s \in Seq(Byte) /\ Ordered(s) /\ Joined(s) /\ Len(s) \in Nat
      /\ \A j \in 1..Len(s) : s[j].n <= Len(q) /\ s[j].k = q[s[j].n]
      /\ \A x \in 1..Len(g), j \in 1..Len(s) : g[x] < s[j].n
      /\ \A x, j \in 1..Len(g) : x < j => g[x] < g[j]
  <2>1. /\ s \in Seq(Byte) /\ Ordered(s) /\ Joined(s)
        /\ \A j \in 1..Len(s) : s[j].n <= Len(q)
        /\ \A j \in 1..Len(s) : s[j].n <= Len(q) => s[j].k = q[s[j].n]
        /\ \A x \in 1..Len(g), j \in 1..Len(s) : g[x] < s[j].n
        /\ \A x, j \in 1..Len(g) : x < j => g[x] < g[j]
    BY <1>2, Zenon DEF Flow
  <2>2. Len(s) \in Nat
    BY <2>1
  <2> QED
    BY <2>1, <2>2, Zenon
<1>4. /\ b.data \in Seq(Byte) /\ w \in Seq(Byte) /\ Len(s) = Len(b.data) + Len(w)
      /\ \A j \in 1..Len(b.data) : s[j] = b.data[j]
      /\ \A j \in 1..Len(w) : s[Len(b.data) + j] = w[j]
  BY <1>2, Zenon DEF Split
<1>5. PICK m : m = Len(b.data) + i
  BY Zenon
<1>6. Len(b.data) \in Nat /\ Len(w) \in Nat /\ i \in Nat /\ i <= Len(w) /\ m \in Nat /\ m <= Len(s)
  BY <1>4, <1>5
<1>7. PICK t : t = SubSeq(s, 1, m)
  BY Zenon
<1>8. t \in Seq(Byte) /\ Len(t) = m /\ \A j \in 1..m : t[j] = s[j]
  BY <1>3, <1>6, <1>7
<1>9. v \in Seq(Byte) /\ Len(v) = i /\ \A j \in 1..i : v[j] = w[j]
  BY <1>4, <1>6 DEF Arriving
<1>10. Ordered(t) /\ Joined(t)
  <2>1. Len(t) <= Len(s) /\ \A j \in 1..Len(t) : s[j] = t[j]
    BY <1>6, <1>8, Zenon
  <2> QED
    BY <1>3, <1>8, <2>1, PrefixFlow, Zenon
<1>11. /\ q2 \in Seq(Kind) /\ Len(q2) \in Nat /\ Len(q2) <= Len(q)
       /\ \A x \in 1..Len(q2) : q2[x] = q[x]
       /\ i < Len(w) => m + 1 \in 1..Len(s) /\ Len(q2) < s[m + 1].n
  <2>1. CASE i < Len(w)
    <3>1. i + 1 \in 1..Len(w) /\ Len(b.data) + (i + 1) = m + 1 /\ m + 1 \in 1..Len(s)
      <4>1. i + 1 \in 1..Len(w)
        BY <1>6, <2>1
      <4>2. Len(b.data) + (i + 1) = m + 1
        BY <1>5, <1>6, Sum, Zenon
      <4>3. m + 1 \in 1..Len(s)
        BY <1>4, <1>5, <1>6, <2>1, SMTT(30)
      <4> QED
        BY <4>1, <4>2, <4>3, Zenon
    <3>2. w[i + 1] = s[m + 1] /\ s[m + 1] \in Byte
      <4>1. s[Len(b.data) + (i + 1)] = w[i + 1]
        BY <1>4, <3>1, Zenon
      <4>2. s[m + 1] \in Byte
        BY <1>3, <3>1
      <4> QED
        BY <3>1, <4>1, <4>2, Zenon
    <3>3. PICK y : y = s[m + 1].n
      BY Zenon
    <3>4. y \in Nat /\ y # 0 /\ y <= Len(q)
      BY <1>3, <3>1, <3>2, <3>3, ByteIs, Zenon
    <3>5. q2 = SubSeq(q, 1, y - 1)
      BY <2>1, <3>2, <3>3, Zenon DEF Arriving
    <3>7. y - 1 \in Nat /\ y - 1 <= Len(q) /\ y - 1 < y
      BY <1>1, <3>4
    <3>8. PICK z : z = y - 1
      BY Zenon
    <3>9. z \in Nat /\ z <= Len(q) /\ z < y /\ q2 = SubSeq(q, 1, z)
      BY <3>5, <3>7, <3>8, Zenon
    <3>6. q2 \in Seq(Kind) /\ Len(q2) = z /\ \A x \in 1..z : q2[x] = q[x]
      BY <1>1, <3>9
    <3> QED
      BY <3>1, <3>3, <3>6, <3>9, Zenon
  <2>2. CASE ~(i < Len(w))
    BY <1>1, <2>2 DEF Arriving
  <2> QED
    BY <2>1, <2>2, Zenon
<1>12. Flow(t, TRUE, q2, g)
  <2>1. ASSUME NEW j \in 1..Len(t) PROVE j \in 1..Len(s) /\ t[j] = s[j]
    BY <1>6, <1>8
  <2>2. ASSUME NEW j \in 1..Len(t), t[j].n <= Len(q2) PROVE t[j].k = q2[t[j].n]
    <3>1. j \in 1..Len(s) /\ t[j] = s[j] /\ s[j] \in Byte
      BY <1>3, <2>1
    <3>3. s[j].n \in Nat /\ s[j].n # 0 /\ s[j].n <= Len(q2)
      BY <2>2, <3>1, ByteIs, Zenon
    <3>2. s[j].n \in 1..Len(q2) /\ s[j].k = q[s[j].n]
      BY <1>3, <1>11, <3>1, <3>3
    <3> QED
      BY <1>11, <3>1, <3>2, Zenon
  <2> QED
    BY <1>3, <1>8, <1>10, <2>1, <2>2, Zenon DEF Flow
<1>13. Split(t, b.data, v)
  <2>1. ASSUME NEW j \in 1..Len(b.data) PROVE t[j] = b.data[j]
    <3>1. PICK l : l = Len(b.data)
      BY Zenon
    <3>2. l \in Nat /\ m = l + i /\ j \in 1..l
      BY <1>5, <1>6, <3>1, Zenon
    <3>3. j \in 1..m
      BY <1>6, <3>2
    <3> QED
      BY <1>4, <1>8, <3>3, Zenon
  <2>2. ASSUME NEW j \in 1..Len(v) PROVE t[Len(b.data) + j] = v[j]
    <3>1. j \in 1..i /\ j \in 1..Len(w) /\ Len(b.data) + j \in 1..m
      BY <1>5, <1>6, <1>9
    <3> QED
      BY <1>4, <1>8, <1>9, <3>1, Zenon
  <2> QED
    BY <1>4, <1>5, <1>8, <1>9, <2>1, <2>2, Zenon DEF Split
<1>14. ASSUME MaxConns <= 1 PROVE Whole(t, q2, g)
  <2> SUFFICES ASSUME NEW x \in 1..Len(q2), q2[x] \in Good, ~\E j \in 1..Len(g) : g[j] = x
               PROVE  \E j \in 1..Len(t) : t[j].n = x /\ t[j].o = 0
    BY Zenon DEF Whole
  <2>1. x \in 1..Len(q) /\ q[x] \in Good
    BY <1>1, <1>11
  <2>2. PICK j \in 1..Len(s) : s[j].n = x /\ s[j].o = 0
    BY <1>2, <1>14, <2>1, Zenon DEF Whole
  <2>3. j <= m
    <3>1. SUFFICES ASSUME ~(j <= m) PROVE FALSE
      BY Zenon
    <3>2. i < Len(w)
      BY <1>4, <1>5, <1>6, <3>1, SMTT(30)
    <3>3. m + 1 \in 1..Len(s) /\ Len(q2) < s[m + 1].n /\ s[m + 1] \in Byte
      BY <1>3, <1>11, <3>2
    <3>8. s[m + 1].n \in Nat
      BY <3>3, ByteIs, Zenon
    <3>4. s[m + 1].n \in Nat /\ ~(s[m + 1].n <= x)
      BY <1>11, <3>3, <3>8, SMTT(30)
    <3>5. j # m + 1
      BY <2>2, <3>4
    <3>6. m + 1 < j
      BY <1>6, <3>1, <3>5
    <3>7. s[m + 1].n < s[j].n \/ s[m + 1].n = s[j].n
      BY <1>3, <3>3, <3>6, Zenon DEF Ordered
    <3> QED
      BY <2>2, <3>4, <3>7
  <2>4. j \in 1..m
    BY <2>3, <1>6
  <2> QED
    BY <1>8, <2>2, <2>4, Zenon
<1> QED
  BY <1>11, <1>12, <1>13, <1>14, Zenon DEF Reads

\* Bytes are read into the buffer.
LEMMA ReadKeeps ==
    ASSUME DecoderAssumption, NEW b, NEW h, NEW w, NEW e, NEW q, NEW g,
           Reads(b, h, w, e, q, g), NEW x \in 1..Len(w), NEW y \in Int,
           NEW u, NEW v, Moved(u, v, b.data, w, x),
           NEW c, c = [b EXCEPT !.data = u, !.cap = y]
    PROVE  Reads(c, h, v, e, q, g)
<1>1. /\ b \in Buffer /\ b.data \in Seq(Byte) /\ b.pos \in Nat /\ h \in Nat
      /\ q \in Seq(Kind) /\ g \in Seq(Nat)
      /\ h # 0 => HeaderRead(b, h)
      /\ MaxConns <= 1 /\ h = 0 => Clear(b)
  BY Zenon DEF Reads, Buffer
<1>2. PICK s : Flow(s, e, q, g) /\ Split(s, b.data, w) /\ (MaxConns <= 1 => Whole(s, q, g))
  BY Zenon DEF Reads
<1>4. Split(s, u, v) /\ Len(u) = Len(b.data) + x /\ \A i \in 1..Len(b.data) : u[i] = b.data[i]
  <2>1. PICK d : d = b.data
    BY Zenon
  <2>2. Split(s, d, w) /\ Moved(u, v, d, w, x)
    BY <1>2, <2>1, Zenon
  <2>3. Split(s, u, v) /\ Len(u) = Len(d) + x /\ \A i \in 1..Len(d) : u[i] = d[i]
    BY <2>2, ReadSplit
  <2> QED
    BY <2>1, <2>3, Zenon
<1>5. u \in Seq(Byte) /\ Len(b.data) \in Nat /\ x \in Nat
  BY <1>1, <1>2, <1>4, SMTT(30) DEF Split
<1>7. c \in Buffer /\ c.data = u /\ c.pos = b.pos
  BY <1>1, <1>5, Zenon DEF Buffer
<1>8. ASSUME h # 0 PROVE HeaderRead(c, h)
  <2>0. HdrSize \in Nat /\ HdrSize >= 2
    BY DEF DecoderAssumption
  <2>1. HdrSize \in Nat /\ HdrSize >= 2 /\ Len(b.data) >= HdrSize
    BY <1>1, <1>8, <2>0, Zenon DEF HeaderRead
  <2>2. 1 \in 1..Len(b.data) /\ Len(u) >= HdrSize
    BY <1>4, <1>5, <2>1, SMTT(30)
  <2>3. u[1] = b.data[1]
    BY <1>4, <2>2, Zenon
  <2> QED
    BY <1>1, <1>7, <1>8, <2>2, <2>3, Zenon DEF HeaderRead
<1>9. ASSUME Clear(b) PROVE Clear(c)
  <2>1. b.pos <= Len(u) /\ \A i \in 1..b.pos : i \in 1..Len(b.data)
    BY <1>1, <1>4, <1>5, <1>9, SMTT(30) DEF Clear
  <2> QED
    BY <1>4, <1>7, <1>9, <2>1, Zenon DEF Clear
<1> QED
  BY <1>1, <1>2, <1>4, <1>7, <1>8, <1>9, Zenon DEF Reads

-----------------------------------------------------------------------------
(***************************************************************************)
(* The invariant and the theorems.                                         *)
(***************************************************************************)

\* The inductive invariant of the decoder: while the client is connected, the bytes of
\* the buffer and those of the wire are a stream of packets that the decoder is rightly
\* placed in.  On the first connection its buffer is new, and so is its read position.
ReadInv ==
    /\ rx \in Buffer /\ free \in Seq(Spare) /\ conns \in Nat /\ eof \in BOOLEAN
    /\ ctl = "read" => up
    /\ up => Reads(rx, hdr, wire, eof, sent, got)
    /\ ~up => wire = <<>> /\ sent = <<>> /\ got = <<>> /\ eof = FALSE
    /\ MaxConns <= 1 => IF up THEN conns # 0 ELSE conns # 0 \/ free = <<>>

\* A new connection: there are no bytes yet.
LEMMA NothingReads ==
    ASSUME NEW b \in Buffer, b.data = <<>>, MaxConns <= 1 => b.pos = 0
    PROVE  Reads(b, 0, <<>>, FALSE, <<>>, <<>>)
<1>1. \A i \in 1..0 : FALSE
  OBVIOUS
<1>2. Len(<<>>) = 0 /\ <<>> \in Seq(Byte) /\ <<>> \in Seq(Nat) /\ <<>> \in Seq(Kind)
  OBVIOUS
<1>3. Flow(<<>>, FALSE, <<>>, <<>>)
  BY <1>1, <1>2, Zenon DEF Flow, Ordered, Joined, Ended
<1>4. Split(<<>>, b.data, <<>>)
  BY <1>1, <1>2 DEF Split
<1>5. Whole(<<>>, <<>>, <<>>)
  BY <1>1, <1>2, Zenon DEF Whole
<1>6. ASSUME MaxConns <= 1 PROVE Clear(b)
  BY <1>1, <1>2, <1>6 DEF Clear
<1> QED
  BY <1>2, <1>3, <1>4, <1>5, <1>6, Zenon DEF Reads

\* obus_buffer_pool_peek and obus_buffer_unref.
LEMMA PoolIs ==
    ASSUME DecoderAssumption, NEW f \in Seq(Spare)
    PROVE  /\ Peeked(f) \in Spare /\ Left(f) \in Seq(Spare)
           /\ Rotated(f) \in Seq(Spare)
           /\ f = <<>> => Peeked(f).pos = 0
<1>1. NewBuffer \in Spare /\ NewBuffer.pos = 0
  BY DEF DecoderAssumption, NewBuffer, Spare
<1>2. Peeked(f) \in Spare /\ (f = <<>> => Peeked(f).pos = 0)
  BY <1>1 DEF Peeked
<1>3. Left(f) \in Seq(Spare)
  BY DEF Left
<1> QED
  BY <1>2, <1>3 DEF Rotated

\* The buffer after the space for a read has been made.
LEMMA SpaceIs ==
    ASSUME rx \in Buffer
    PROVE  /\ rx.data \in Seq(Byte) /\ rx.pos \in Nat /\ rx.cap \in Int
           /\ Len(rx.data) + Space \in Int
<1>1. rx.data \in Seq(Byte) /\ rx.pos \in Nat /\ rx.cap \in Int
  BY Zenon DEF Buffer
<1>2. Len(rx.data) \in Nat
  BY <1>1
<1>3. Space \in Int
  BY <1>1, <1>2 DEF Space
<1> QED
  BY <1>1, <1>2, <1>3

\* At first nothing is connected, and the pool is empty.
LEMMA ReadInit == ASSUME DecoderAssumption, Init PROVE ReadInv
<1>1. /\ up = FALSE /\ conns = 0 /\ sent = <<>> /\ wire = <<>> /\ eof = FALSE
      /\ rx = [data |-> <<>>, pos |-> 0, cap |-> BufSize] /\ ctl = "loop"
      /\ got = <<>> /\ free = <<>>
  BY Zenon DEF Init
<1>2. rx \in Buffer
  BY <1>1 DEF Buffer, DecoderAssumption
<1>3. free \in Seq(Spare) /\ conns \in Nat /\ eof \in BOOLEAN
  <2>1. <<>> \in Seq(Spare) /\ 0 \in Nat /\ FALSE \in BOOLEAN
    OBVIOUS
  <2> QED
    BY <1>1, <2>1, Zenon
<1>4. ~(ctl = "read") /\ ~up
  BY <1>1, Zenon
<1> QED
  BY <1>1, <1>2, <1>3, <1>4, Zenon DEF ReadInv

\* An iteration of obus_packet_decoder_read.
LEMMA DecodeAgainKeeps ==
    ASSUME DecoderAssumption, ReadInv, DecodeAgain
    PROVE  ReadInv'
<1>1. /\ ctl = "read" /\ Decode(rx)
      /\ up' = up /\ conns' = conns /\ ctl' = ctl /\ free' = free
      /\ sent' = sent /\ wire' = wire /\ eof' = eof
  BY Zenon DEF DecodeAgain, netVars
<1>2. up /\ Reads(rx, hdr, wire, eof, sent, got)
  BY <1>1, Zenon DEF ReadInv
<1>3. Reads(rx', hdr', wire', eof', sent', got')
  BY <1>1, <1>2, DecodeKeeps, Zenon
<1>4. rx' \in Buffer
  BY <1>3, Zenon DEF Reads
<1> QED
  BY <1>1, <1>2, <1>3, <1>4, Zenon DEF ReadInv

\* An iteration that reads first.
LEMMA ReadSomeKeeps ==
    ASSUME DecoderAssumption, ReadInv, NEW x \in 1..Len(wire), ReadSome(x)
    PROVE  ReadInv'
<1>1. PICK b, y, u, v : /\ b = [rx EXCEPT !.data = u, !.cap = y]
                        /\ y = Len(rx.data) + Space
                        /\ u = rx.data \o SubSeq(wire, 1, x)
                        /\ v = SubSeq(wire, x + 1, Len(wire))
  BY Zenon
<1>2. b = [rx EXCEPT !.data = @ \o SubSeq(wire, 1, x), !.cap = Len(rx.data) + Space]
  BY <1>1, Zenon
<1>3. /\ ctl = "read" /\ Decode(b)
      /\ up' = up /\ conns' = conns /\ ctl' = ctl /\ free' = free
      /\ sent' = sent /\ wire' = v /\ eof' = eof
  BY <1>1, <1>2, Zenon DEF ReadSome
<1>4. up /\ Reads(rx, hdr, wire, eof, sent, got) /\ rx \in Buffer
  BY <1>3, Zenon DEF ReadInv
<1>5. y \in Int /\ Moved(u, v, rx.data, wire, x)
  BY <1>1, <1>4, SpaceIs, Zenon DEF Moved
<1>6. b = [rx EXCEPT !.data = u, !.cap = y]
  BY <1>1, Zenon
<1>7. Reads(b, hdr, v, eof, sent, got)
  BY <1>4, <1>5, <1>6, ReadKeeps, Zenon
<1>8. Reads(rx', hdr', v, eof, sent, got')
  BY <1>3, <1>7, DecodeKeeps, Zenon
<1>9. Reads(rx', hdr', wire', eof', sent', got')
  BY <1>3, <1>8, Zenon
<1>10. rx' \in Buffer
  BY <1>9, Zenon DEF Reads
<1> QED
  BY <1>3, <1>4, <1>9, <1>10, Zenon DEF ReadInv

\* A larger buffer holds the same bytes.
LEMMA ReadAgainKeeps ==
    ASSUME DecoderAssumption, ReadInv, ReadAgain
    PROVE  ReadInv'
<1>1. PICK y : y = Len(rx.data) + Space
  BY Zenon
<1>2. /\ ctl = "read" /\ rx' = [rx EXCEPT !.cap = y] /\ ctl' = "loop"
      /\ up' = up /\ conns' = conns /\ hdr' = hdr /\ got' = got /\ free' = free
      /\ sent' = sent /\ wire' = wire /\ eof' = eof
  BY <1>1, Zenon DEF ReadAgain, netVars
<1>3. up /\ Reads(rx, hdr, wire, eof, sent, got) /\ rx \in Buffer
  BY <1>2, Zenon DEF ReadInv
<1>4. y \in Int
  BY <1>1, <1>3, SpaceIs, Zenon
<1>5. rx' \in Buffer /\ rx'.data = rx.data /\ rx'.pos = rx.pos
  BY <1>2, <1>3, <1>4, Zenon DEF Buffer
<1>6. Reads(rx', hdr, wire, eof, sent, got)
  BY <1>3, <1>5, Zenon DEF Reads, HeaderRead, Clear
<1>7. Reads(rx', hdr', wire', eof', sent', got')
  BY <1>2, <1>6, Zenon
<1> QED
  BY <1>2, <1>3, <1>5, <1>7, Zenon DEF ReadInv

\* The buffer goes back to the pool with its read position.
LEMMA DisconnectKeeps ==
    ASSUME DecoderAssumption, ReadInv, up, Disconnect
    PROVE  ReadInv'
<1>1. /\ ~up' /\ ctl' = "loop" /\ rx' = [rx EXCEPT !.data = <<>>]
      /\ free' = Append(free, [pos |-> rx.pos, cap |-> rx.cap])
      /\ sent' = <<>> /\ wire' = <<>> /\ eof' = FALSE /\ got' = <<>> /\ conns' = conns
  BY Zenon DEF Disconnect
<1>2. /\ rx \in Buffer /\ free \in Seq(Spare) /\ conns \in Nat
      /\ MaxConns <= 1 => conns # 0
  BY Zenon DEF ReadInv
<1>3. rx' \in Buffer
  <2>1. PICK e : e = <<>>
    BY Zenon
  <2>2. e \in Seq(Byte) /\ rx' = [rx EXCEPT !.data = e]
    BY <1>1, <2>1
  <2> QED
    BY <1>2, <2>2, Zenon DEF Buffer
<1>4. [pos |-> rx.pos, cap |-> rx.cap] \in Spare
  BY <1>2, SpaceIs, Zenon DEF Spare
<1>5. free' \in Seq(Spare)
  BY <1>1, <1>2, <1>4
<1> QED
  BY <1>1, <1>2, <1>3, <1>5, Zenon DEF ReadInv

\* The decoder starts with the read position of a buffer of the pool.
LEMMA ConnectKeeps ==
    ASSUME DecoderAssumption, ReadInv, Connect
    PROVE  ReadInv'
<1>1. PICK p : p = Peeked(free)
  BY Zenon
<1>2. /\ ~up /\ conns < MaxConns /\ up' = TRUE /\ conns' = conns + 1
      /\ rx' = [data |-> <<>>, pos |-> p.pos, cap |-> p.cap] /\ hdr' = 0
      /\ free' = Rotated(Left(free)) /\ ctl' = ctl
      /\ sent' = sent /\ wire' = wire /\ eof' = eof /\ got' = got
  BY <1>1, Zenon DEF Connect, netVars
<1>3. /\ free \in Seq(Spare) /\ conns \in Nat
      /\ wire = <<>> /\ sent = <<>> /\ got = <<>> /\ eof = FALSE
      /\ MaxConns <= 1 => conns # 0 \/ free = <<>>
  BY <1>2, Zenon DEF ReadInv
<1>4. p \in Spare /\ free' \in Seq(Spare) /\ (free = <<>> => p.pos = 0)
  BY <1>1, <1>2, <1>3, PoolIs, Zenon
<1>5. rx' \in Buffer /\ rx'.data = <<>> /\ rx'.pos = p.pos
  BY <1>2, <1>4 DEF Buffer, Spare
<1>6. conns' \in Nat /\ conns' # 0
  BY <1>2, <1>3
<1>7. MaxConns <= 1 => rx'.pos = 0
  <2>1. MaxConns \in Nat
    BY Zenon DEF DecoderAssumption
  <2>2. MaxConns <= 1 => conns = 0
    BY <1>2, <1>3, <2>1
  <2> QED
    BY <1>3, <1>4, <1>5, <2>2, Zenon
<1>8. Reads(rx', 0, <<>>, FALSE, <<>>, <<>>)
  BY <1>5, <1>7, NothingReads, Zenon
<1>9. Reads(rx', hdr', wire', eof', sent', got')
  BY <1>2, <1>3, <1>8, Zenon
<1> QED
  BY <1>2, <1>3, <1>4, <1>5, <1>6, <1>9, Zenon DEF ReadInv

\* A whole packet is added to the stream.
LEMMA ServerSendsKeeps ==
    ASSUME DecoderAssumption, ReadInv, NEW k \in Kind, ServerSends(k)
    PROVE  ReadInv'
<1>1. /\ up /\ ~eof /\ sent' = Append(sent, k)
      /\ wire' = wire \o BytesOf(Len(sent) + 1, k)
      /\ up' = up /\ conns' = conns /\ eof' = eof /\ rx' = rx /\ hdr' = hdr /\ ctl' = ctl
      /\ got' = got /\ free' = free
  BY Zenon DEF ServerSends
<1>2. Reads(rx, hdr, wire, eof, sent, got) /\ eof = FALSE
  BY <1>1, Zenon DEF ReadInv
<1>3. Reads(rx, hdr, wire, FALSE, sent, got)
  BY <1>2, Zenon
<1>4. Reads(rx, hdr, wire', FALSE, sent', got)
  BY <1>1, <1>3, SendKeeps, Zenon
<1>5. Reads(rx', hdr', wire', eof', sent', got')
  BY <1>1, <1>2, <1>4, Zenon
<1> QED
  BY <1>1, <1>2, <1>5, Zenon DEF ReadInv

\* The stream is cut off.
LEMMA ServerClosesKeeps ==
    ASSUME DecoderAssumption, ReadInv, NEW i \in 0..Len(wire), ServerCloses(i)
    PROVE  ReadInv'
<1>1. /\ up /\ ~eof /\ eof' = TRUE
      /\ up' = up /\ conns' = conns /\ rx' = rx /\ hdr' = hdr /\ ctl' = ctl
      /\ got' = got /\ free' = free
  BY Zenon DEF ServerCloses
<1>2. Arriving(wire', sent', sent, wire, i)
  BY Zenon DEF ServerCloses, Arriving
<1>3. Reads(rx, hdr, wire, eof, sent, got) /\ eof = FALSE
  BY <1>1, Zenon DEF ReadInv
<1>4. Reads(rx, hdr, wire, FALSE, sent, got)
  BY <1>3, Zenon
<1>5. Reads(rx, hdr, wire', TRUE, sent', got)
  BY <1>2, <1>4, CloseKeeps, Zenon
<1>6. Reads(rx', hdr', wire', eof', sent', got')
  BY <1>1, <1>5, Zenon
<1> QED
  BY <1>1, <1>6, Zenon DEF ReadInv

\* A step that leaves the connection, the stream and the decoder alone.
LEMMA PoolKeeps ==
    ASSUME ReadInv, up, free' \in Seq(Spare), ctl' = "read" => up',
           up' = up, conns' = conns, rx' = rx, hdr' = hdr, wire' = wire, eof' = eof,
           sent' = sent, got' = got
    PROVE  ReadInv'
<1>1. Reads(rx, hdr, wire, eof, sent, got)
  BY Zenon DEF ReadInv
<1>2. Reads(rx', hdr', wire', eof', sent', got')
  BY <1>1, Zenon
<1> QED
  BY <1>2, Zenon DEF ReadInv

\* Every step preserves ReadInv.
LEMMA ReadNext ==
    ASSUME DecoderAssumption, ReadInv, [Next]_(vars)
    PROVE  ReadInv'
<1>1. CASE DecodeAgain
  BY <1>1, DecodeAgainKeeps, Zenon
<1>2. ASSUME NEW x \in 1..Len(wire), ReadSome(x) PROVE ReadInv'
  BY <1>2, ReadSomeKeeps, Zenon
<1>3. CASE ReadAgain
  BY <1>3, ReadAgainKeeps, Zenon
<1>4. CASE ReadFails
  <2>1. ctl = "read" /\ Disconnect
    BY <1>4, Zenon DEF ReadFails
  <2>2. up
    BY <2>1, Zenon DEF ReadInv
  <2> QED
    BY <2>1, <2>2, DisconnectKeeps, Zenon
<1>5. CASE ReadEvent
  <2>1. /\ up /\ ctl' = "read" /\ up' = up /\ conns' = conns /\ sent' = sent
        /\ wire' = wire /\ eof' = eof /\ rx' = rx /\ hdr' = hdr /\ got' = got
        /\ free' = free
    BY <1>5, Zenon DEF ReadEvent, netVars
  <2>2. free' \in Seq(Spare)
    BY <2>1, Zenon DEF ReadInv
  <2> QED
    BY <2>1, <2>2, PoolKeeps, Zenon
<1>6. CASE ErrorEvent
  BY <1>6, DisconnectKeeps, Zenon DEF ErrorEvent
<1>7. CASE Connect
  BY <1>7, ConnectKeeps, Zenon
<1>8. CASE Call
  <2>1. /\ up /\ ctl' = ctl /\ up' = up /\ conns' = conns /\ sent' = sent
        /\ wire' = wire /\ eof' = eof /\ rx' = rx /\ hdr' = hdr /\ got' = got
        /\ free' = Rotated(free)
    BY <1>8, Zenon DEF Call, netVars
  <2>2. free' \in Seq(Spare)
    BY <2>1, PoolIs, Zenon DEF ReadInv
  <2> QED
    BY <2>1, <2>2, PoolKeeps, Zenon
<1>9. ASSUME NEW k \in Kind, ServerSends(k) PROVE ReadInv'
  BY <1>9, ServerSendsKeeps, Zenon
<1>10. ASSUME NEW i \in 0..Len(wire), ServerCloses(i) PROVE ReadInv'
  BY <1>10, ServerClosesKeeps, Zenon
<1>11. CASE UNCHANGED vars
  BY <1>11, Zenon DEF ReadInv, vars, netVars
<1> QED
  BY <1>1, <1>2, <1>3, <1>4, <1>5, <1>6, <1>7, <1>8, <1>9, <1>10, <1>11, Zenon
  DEF Next, ReadStep

\* ReadInv is an invariant of the decoder, the server and the wire.
LEMMA ReadCorrect ==
    ASSUME DecoderAssumption
    PROVE  Spec => []ReadInv
<1>1. Init => ReadInv
  BY ReadInit, Zenon
<1>2. ReadInv /\ [Next]_(vars) => ReadInv'
  BY ReadNext, Zenon
<1> QED
  BY <1>1, <1>2, PTL DEF Spec

\* What ReadInv says of the header that the decoder remembers.
LEMMA ReadHeader ==
    ASSUME DecoderAssumption, ReadInv
    PROVE  HeaderAtStart
<1> SUFFICES ASSUME up, hdr # 0
             PROVE  /\ rx.pos = HdrSize /\ Len(rx.data) >= HdrSize
                    /\ \A i \in 1..Len(rx.data) :
                         i <= Size[rx.data[1].k] =>
                             rx.data[i] = [n |-> hdr, k |-> rx.data[1].k, o |-> i - 1]
  BY Zenon DEF HeaderAtStart
<1>1. Reads(rx, hdr, wire, eof, sent, got)
  BY Zenon DEF ReadInv
<1>2. HeaderRead(rx, hdr)
  BY <1>1, Zenon DEF Reads
<1>3. PICK s : Flow(s, eof, sent, got) /\ Split(s, rx.data, wire)
  BY <1>1, Zenon DEF Reads
<1>4. PICK d : d = rx.data
  BY Zenon
<1>5. /\ d \in Seq(Byte) /\ s \in Seq(Byte) /\ Ordered(s) /\ Joined(s)
      /\ Len(s) = Len(d) + Len(wire) /\ wire \in Seq(Byte)
      /\ \A i \in 1..Len(d) : s[i] = d[i]
  BY <1>3, <1>4, Zenon DEF Flow, Split
<1>6. Len(d) <= Len(s)
  BY <1>5
<1>7. Ordered(d) /\ Joined(d)
  BY <1>5, <1>6, PrefixFlow, Zenon
<1>8. rx.pos = HdrSize /\ Len(d) >= HdrSize /\ d[1].n = hdr /\ d[1].o = 0
  BY <1>2, <1>4, Zenon DEF HeaderRead
<1>9. ASSUME NEW i \in 1..Len(d), i <= Size[d[1].k]
      PROVE  d[i] = [n |-> hdr, k |-> d[1].k, o |-> i - 1]
  <2>1. Len(d) \in Nat /\ i \in Nat /\ 1 \in 1..Len(d)
    BY <1>5
  <2>2. d[1] \in Byte
    BY <1>5, <2>1
  <2>3. Size[d[1].k] \in Nat
    BY <2>2, ByteIs, Zenon
  <2>4. PICK x : x = i - 1
    BY Zenon
  <2>5. x \in Nat /\ x < Size[d[1].k] /\ 1 + x = i /\ 1 + x <= Len(d)
    BY <1>9, <2>1, <2>3, <2>4, SMTT(30)
  <2>6. d[1 + x] = [n |-> d[1].n, k |-> d[1].k, o |-> x]
    BY <1>5, <1>7, <1>8, <2>1, <2>5, PacketAt
  <2> QED
    BY <1>8, <2>4, <2>5, <2>6, Zenon
<1> QED
  BY <1>4, <1>8, <1>9, Zenon

\* What ReadInv says of the packets returned.
LEMMA ReadOrder == ASSUME ReadInv PROVE InOrder
<1>1. CASE up
  <2>1. Reads(rx, hdr, wire, eof, sent, got)
    BY <1>1, Zenon DEF ReadInv
  <2>2. PICK s : Flow(s, eof, sent, got)
    BY <2>1, Zenon DEF Reads
  <2> QED
    BY <2>2, Zenon DEF Flow, InOrder
<1>2. CASE ~up
  <2>1. Len(got) = 0
    BY <1>2 DEF ReadInv
  <2> QED
    BY <2>1 DEF InOrder
<1> QED
  BY <1>1, <1>2, Zenon

\* What ReadInv says of the packets that are not returned yet.
LEMMA ReadWhole == ASSUME MaxConns <= 1, ReadInv PROVE NothingSkipped
<1> SUFFICES ASSUME up, NEW x \in 1..Len(sent), sent[x] \in Good,
                    ~\E i \in 1..Len(got) : got[i] = x
             PROVE  \/ \E i \in 1..Len(rx.data) : rx.data[i].n = x /\ rx.data[i].o = 0
                    \/ \E i \in 1..Len(wire) : wire[i].n = x /\ wire[i].o = 0
  BY Zenon DEF NothingSkipped
<1>1. Reads(rx, hdr, wire, eof, sent, got)
  BY Zenon DEF ReadInv
<1>2. PICK s : Split(s, rx.data, wire) /\ Whole(s, sent, got)
  BY <1>1, Zenon DEF Reads
<1>3. PICK j \in 1..Len(s) : s[j].n = x /\ s[j].o = 0
  BY <1>2, Zenon DEF Whole
<1>4. PICK d : d = rx.data
  BY Zenon
<1>5. /\ d \in Seq(Byte) /\ wire \in Seq(Byte) /\ Len(s) = Len(d) + Len(wire)
      /\ \A i \in 1..Len(d) : s[i] = d[i]
      /\ \A i \in 1..Len(wire) : s[Len(d) + i] = wire[i]
  BY <1>2, <1>4, Zenon DEF Split
<1>6. Len(d) \in Nat /\ Len(wire) \in Nat
  BY <1>5
<1>7. CASE j <= Len(d)
  <2>1. j \in 1..Len(d)
    BY <1>6, <1>7
  <2>2. s[j] = d[j]
    BY <1>5, <2>1, Zenon
  <2> QED
    BY <1>3, <1>4, <2>1, <2>2, Zenon
<1>8. CASE ~(j <= Len(d))
  <2>1. PICK i : i = j - Len(d)
    BY Zenon
  <2>2. i \in 1..Len(wire) /\ Len(d) + i = j
    BY <1>5, <1>6, <1>8, <2>1
  <2>3. s[Len(d) + i] = wire[i]
    BY <1>5, <2>2, Zenon
  <2> QED
    BY <1>3, <2>2, <2>3, Zenon
<1> QED
  BY <1>7, <1>8, Zenon

\* obus_packet_decoder_read never mistakes a packet for another: the header that it
\* remembers between two events is that of the packet at the start of the buffer, the
\* payload is read from where the header ends, and packets are returned in the order in
\* which they were sent, none twice.  This is so for any packets, sizes, pieces in which
\* they arrive and reconnections, with the read positions that buffers bring along from
\* the pool.
THEOREM InOrderCorrect ==
    ASSUME DecoderAssumption
    PROVE  Spec => [](HeaderAtStart /\ InOrder)
<1>1. ReadInv => HeaderAtStart /\ InOrder
  BY ReadHeader, ReadOrder, Zenon
<1> QED
  BY <1>1, ReadCorrect, PTL

\* On the first connection obus_packet_decode_header passes over no packet that can be
\* decoded, whatever the pieces in which it arrives and whatever precedes it: it has been
\* returned, or its first byte is in the buffer or still to be read.
THEOREM NothingSkippedCorrect ==
    ASSUME DecoderAssumption, MaxConns <= 1
    PROVE  Spec => []NothingSkipped
<1>1. ReadInv => NothingSkipped
  BY ReadWhole, Zenon
<1> QED
  BY <1>1, ReadCorrect, PTL
=============================================================================
