--------------------------- MODULE ObusIoChannel ----------------------------
(***************************************************************************)
(* The queues of ObusIo, with their partial writes, implement the channels *)
(* of ObusChannel, for any number of connections, buffers and packets.     *)
(***************************************************************************)
EXTENDS ObusIoTheorems

Frame == [pkt : Nat, n : Nat]

\* The packets of s that have wholly left, as Whole has them.
WholeOf(s) ==
    LET whole == {j \in 1..Len(s) : \A x \in 1..j : s[x].n = PacketLen}
    IN  [j \in whole |-> s[j].pkt]

\* The socket has taken from bytes of packet p, after whole packets.
Begun(s, p, from) ==
    /\ \A j \in 1..(Len(s) - (IF from = 0 THEN 0 ELSE 1)) : s[j].n = PacketLen
    /\ from # 0 => s # <<>> /\ s[Len(s)] = [pkt |-> p, n |-> from]

\* The packet that is to leave next.
First(i) == content[Head(queue[i])]

\* An io that can be written to has sent whole packets, and what it remembers to
\* have written of the first one that waits.
Sound(i) ==
    i \in open \ dead => written[i] \in 0..(PacketLen - 1) /\ Begun(out[i], First(i), written[i])

Frames == out \in [Io -> Seq(Frame)] /\ \A i \in Io : Sound(i)

\* The packets in the buffers, and who may write.
Packets ==
    /\ content \in [Buf -> 0..MaxPackets] /\ npkt \in 0..MaxPackets /\ faults \in Nat
    /\ \A i \in Io \ open : queue[i] = <<>>
    /\ ctx.at = "send_peers" => ctx.todo \subseteq open /\ content[ctx.buf] \in Packet

\* What makes the refinement inductive, with WatchedInv and RefInv.
ChannelInv == Packets /\ (faults = 0 => Frames)

LEMMA WholeFirst ==
    ASSUME NEW s \in Seq(Frame), NEW w \in 0..Len(s),
           \A j \in 1..w : s[j].n = PacketLen,
           w # Len(s) => s[w + 1].n # PacketLen
    PROVE  WholeOf(s) = [j \in 1..w |-> s[j].pkt] /\ WholeOf(s) \in Seq(Nat) /\ Len(WholeOf(s)) = w
<1>1. Len(s) \in Nat
  BY LenProperties, Zenon
<1>2. {j \in 1..Len(s) : \A x \in 1..j : s[x].n = PacketLen} = 1..w
  <2>1. ASSUME NEW j \in 1..Len(s), \A x \in 1..j : s[x].n = PacketLen PROVE j \in 1..w
    BY <1>1, <2>1
  <2>2. ASSUME NEW j \in 1..w PROVE j \in 1..Len(s) /\ \A x \in 1..j : s[x].n = PacketLen
    BY <1>1
  <2> QED
    BY <2>1, <2>2, Zenon
<1>3. WholeOf(s) = [j \in 1..w |-> s[j].pkt]
  BY <1>2, Zenon DEF WholeOf
<1>4. ASSUME NEW j \in 1..w PROVE s[j].pkt \in Nat
  <2>1. j \in 1..Len(s)
    BY <1>1
  <2>2. s[j] \in Frame
    BY <2>1, ElementOfSeq, Zenon
  <2> QED
    BY <2>2, Zenon DEF Frame
<1>5. [j \in 1..w |-> s[j].pkt] \in Seq(Nat)
  BY <1>4, IsASeq
<1> QED
  BY <1>1, <1>3, <1>5, LenProperties

LEMMA IsAppend ==
    ASSUME NEW s \in Seq(Nat), NEW t \in Seq(Nat), NEW p \in Nat, Len(t) = Len(s) + 1,
           \A j \in 1..Len(s) : t[j] = s[j], t[Len(s) + 1] = p
    PROVE  t = Append(s, p)
<1>1. /\ Append(s, p) \in Seq(Nat) /\ Len(Append(s, p)) = Len(s) + 1 /\ Len(s) \in Nat
      /\ \A j \in 1..Len(s) : Append(s, p)[j] = s[j]
      /\ Append(s, p)[Len(s) + 1] = p
  BY AppendProperties, LenProperties
<1>2. \A j \in 1..Len(t) : t[j] = Append(s, p)[j]
  BY <1>1
<1> QED
  BY <1>1, <1>2, SeqEqual, Zenon

\* The socket takes something of a packet: what that makes of the frames.
Taken(s, t, p, from, k) ==
    /\ t \in Seq(Frame)
    /\ from + k # PacketLen => Begun(t, p, from + k) /\ WholeOf(t) = WholeOf(s)
    /\ from + k = PacketLen => Begun(t, p, 0) /\ WholeOf(t) = Append(WholeOf(s), p)

LEMMA TakenFirst ==
    ASSUME NEW s \in Seq(Frame), NEW p \in Nat, NEW k \in 1..PacketLen, Begun(s, p, 0),
           NEW t, t = Append(s, [pkt |-> p, n |-> k])
    PROVE  Taken(s, t, p, 0, k)
<1>1. PacketLen \in Nat \ {0} /\ Len(s) \in Nat /\ [pkt |-> p, n |-> k] \in Frame
  BY IoAssumption, LenProperties DEF Frame
<1>2. /\ t \in Seq(Frame) /\ Len(t) = Len(s) + 1
      /\ \A j \in 1..Len(s) : t[j] = s[j]
      /\ t[Len(s) + 1] = [pkt |-> p, n |-> k]
  BY <1>1, AppendProperties
<1>3. t # <<>>
  BY <1>1, <1>2
<1>4. \A j \in 1..Len(s) : s[j].n = PacketLen /\ t[j].n = PacketLen
  BY <1>1, <1>2 DEF Begun
<1>5. /\ WholeOf(s) = [j \in 1..Len(s) |-> s[j].pkt]
      /\ WholeOf(s) \in Seq(Nat) /\ Len(WholeOf(s)) = Len(s)
  BY <1>1, <1>4, WholeFirst
<1>6. CASE k # PacketLen
  <2>1. WholeOf(t) = [j \in 1..Len(s) |-> t[j].pkt]
    <3>1. Len(s) \in 0..Len(t) /\ Len(s) # Len(t) /\ t[Len(s) + 1].n # PacketLen
      BY <1>1, <1>2, <1>6
    <3> QED
      BY <1>2, <1>4, <3>1, WholeFirst, ZenonT(30)
  <2>2. WholeOf(t) = WholeOf(s)
    BY <1>2, <1>5, <2>1, Zenon
  <2>3. Begun(t, p, k)
    BY <1>1, <1>2, <1>3, <1>4, SMTT(30) DEF Begun
  <2> QED
    BY <1>1, <1>2, <1>6, <2>2, <2>3, SMTT(30) DEF Taken
<1>7. CASE k = PacketLen
  <2>1. \A j \in 1..Len(t) : t[j].n = PacketLen
    BY <1>1, <1>2, <1>4, <1>7, SMTT(30)
  <2>2. /\ WholeOf(t) = [j \in 1..Len(t) |-> t[j].pkt]
        /\ WholeOf(t) \in Seq(Nat) /\ Len(WholeOf(t)) = Len(t)
    <3>1. Len(t) \in 0..Len(t)
      BY <1>1, <1>2
    <3> QED
      BY <1>2, <2>1, <3>1, WholeFirst, Zenon
  <2>3. /\ \A j \in 1..Len(s) : WholeOf(t)[j] = WholeOf(s)[j]
        /\ WholeOf(t)[Len(s) + 1] = p
    BY <1>1, <1>2, <1>5, <2>2, SMTT(30)
  <2>4. WholeOf(t) = Append(WholeOf(s), p)
    BY <1>2, <1>5, <2>2, <2>3, IsAppend, SMTT(30)
  <2>5. Begun(t, p, 0)
    BY <1>1, <1>2, <2>1, SMTT(30) DEF Begun
  <2> QED
    BY <1>1, <1>2, <1>7, <2>4, <2>5, SMTT(30) DEF Taken
<1> QED
  BY <1>6, <1>7, Zenon

\* The last frame, after w whole ones, grows by k.
Grows(s, t, w, p, from, k) ==
    /\ s \in Seq(Frame) /\ t \in Seq(Frame) /\ w \in Nat
    /\ from \in Nat \ {0} /\ k \in Nat /\ from # PacketLen
    /\ Len(s) = w + 1 /\ Len(t) = w + 1
    /\ s[w + 1].n = from /\ t[w + 1] = [pkt |-> p, n |-> from + k]
    /\ \A j \in 1..w : s[j].n = PacketLen /\ t[j] = s[j]

LEMMA FrameGrows ==
    ASSUME NEW s, NEW t, NEW w, NEW p \in Nat, NEW from, NEW k, Grows(s, t, w, p, from, k)
    PROVE  Taken(s, t, p, from, k)
<1> USE DEF Grows
<1>1. t[w + 1].pkt = p /\ t[w + 1].n = from + k
  OBVIOUS
<1>2. t # <<>> /\ \A j \in 1..w : t[j].n = PacketLen
  OBVIOUS
<1>3. /\ WholeOf(s) = [j \in 1..w |-> s[j].pkt]
      /\ WholeOf(s) \in Seq(Nat) /\ Len(WholeOf(s)) = w
  <2>1. w \in 0..Len(s) /\ s[w + 1].n # PacketLen
    OBVIOUS
  <2> QED
    BY <2>1, WholeFirst, Zenon
<1>4. CASE from + k # PacketLen
  <2>1. w \in 0..Len(t) /\ t[w + 1].n # PacketLen
    BY <1>1, <1>4, SMTT(30)
  <2>2. WholeOf(t) = [j \in 1..w |-> t[j].pkt]
    BY <1>2, <2>1, WholeFirst, Zenon
  <2>3. WholeOf(t) = WholeOf(s)
    BY <1>3, <2>2, Zenon
  <2>4. Begun(t, p, from + k)
    BY <1>1, <1>2, SMTT(30) DEF Begun
  <2> QED
    BY <1>4, <2>3, <2>4, Zenon DEF Taken
<1>5. CASE from + k = PacketLen
  <2>1. \A j \in 1..Len(t) : t[j].n = PacketLen
    BY <1>1, <1>2, <1>5, SMTT(30)
  <2>2. /\ WholeOf(t) = [j \in 1..Len(t) |-> t[j].pkt]
        /\ WholeOf(t) \in Seq(Nat) /\ Len(WholeOf(t)) = Len(t)
    <3>1. Len(t) \in 0..Len(t)
      OBVIOUS
    <3> QED
      BY <2>1, <3>1, WholeFirst, Zenon
  <2>3. (\A j \in 1..w : WholeOf(t)[j] = WholeOf(s)[j]) /\ WholeOf(t)[w + 1] = p
    BY <1>1, <1>3, <2>2, SMTT(30)
  <2>4. WholeOf(t) = Append(WholeOf(s), p)
    BY <1>3, <2>2, <2>3, IsAppend, SMTT(30)
  <2>5. Begun(t, p, 0)
    BY <2>1, SMTT(30) DEF Begun
  <2> QED
    BY <1>5, <2>4, <2>5, Zenon DEF Taken
<1> QED
  BY <1>4, <1>5, Zenon

LEMMA TakenMore ==
    ASSUME NEW s \in Seq(Frame), NEW p \in Nat, NEW from \in 1..(PacketLen - 1),
           NEW k \in 1..(PacketLen - from), Begun(s, p, from),
           NEW t, t = [s EXCEPT ![Len(s)] = [pkt |-> IF @.pkt = p /\ @.n = from THEN p ELSE 0,
                                             n |-> from + k]]
    PROVE  Taken(s, t, p, from, k)
<1>0. PacketLen \in Nat \ {0} /\ from # 0 /\ from \in Nat /\ k \in Nat /\ from + k \in 1..PacketLen
  BY IoAssumption
<1>w. \E w \in Nat : Len(s) = w + 1
  <2>1. Len(s) \in Nat \ {0}
    BY <1>0, LenProperties, EmptySeq, Zenon DEF Begun
  <2>2. Len(s) - 1 \in Nat /\ Len(s) = (Len(s) - 1) + 1
    BY <2>1
  <2> QED
    BY <2>2, Zenon
<1> PICK w \in Nat : Len(s) = w + 1
  BY <1>w, Zenon
<1>1. s[w + 1] = [pkt |-> p, n |-> from] /\ \A j \in 1..w : s[j].n = PacketLen
  BY <1>0 DEF Begun
<1>2. s[w + 1].pkt = p /\ s[w + 1].n = from
  BY <1>1
<1>3. t = [s EXCEPT ![w + 1] = [pkt |-> p, n |-> from + k]]
  BY <1>2, Zenon
<1>4. [pkt |-> p, n |-> from + k] \in Frame
  BY <1>0 DEF Frame
<1>5. /\ t \in Seq(Frame) /\ Len(t) = w + 1
      /\ \A j \in 1..Len(s) : t[j] = IF j = w + 1 THEN [pkt |-> p, n |-> from + k] ELSE s[j]
  <2>1. w + 1 \in 1..Len(s)
    OBVIOUS
  <2> QED
    BY <1>3, <1>4, <2>1, ExceptSeq, SMTT(30)
<1>6. /\ t[w + 1] = [pkt |-> p, n |-> from + k] /\ t[w + 1].pkt = p /\ t[w + 1].n = from + k
      /\ \A j \in 1..w : t[j] = s[j]
  BY <1>5
<1>7. from \in Nat \ {0} /\ from # PacketLen /\ k \in Nat
  BY <1>0
<1>8. \A j \in 1..w : s[j].n = PacketLen /\ t[j] = s[j]
  BY <1>1, <1>6, SMTT(30)
<1>9. Grows(s, t, w, p, from, k)
  BY <1>2, <1>5, <1>6, <1>7, <1>8, SMTT(30) DEF Grows
<1> QED
  BY <1>9, FrameGrows, Zenon

LEMMA TakeFrames ==
    ASSUME out \in [Io -> Seq(Frame)], NEW i \in Io, NEW p \in Nat, NEW from \in 0..(PacketLen - 1),
           NEW k \in 0..(PacketLen - from), Begun(out[i], p, from), out' = Take(i, p, from, k)
    PROVE  /\ out' \in [Io -> Seq(Frame)] /\ \A x \in Io : x # i => out'[x] = out[x]
           /\ Taken(out[i], out'[i], p, from, k)
<1>0. PacketLen \in Nat \ {0} /\ from \in Nat /\ k \in Nat
  BY IoAssumption
<1>1. CASE k = 0
  <2>1. out' = out /\ from + k = from /\ from # PacketLen
    BY <1>0, <1>1 DEF Take
  <2>2. Taken(out[i], out'[i], p, from, k)
    BY <2>1, Zenon DEF Taken
  <2> QED
    BY <2>1, <2>2, Zenon
<1>2. CASE k # 0 /\ from = 0
  <2>1. out' = [out EXCEPT ![i] = Append(@, [pkt |-> p, n |-> k])]
    BY <1>2, Zenon DEF Take
  <2>2. out'[i] = Append(out[i], [pkt |-> p, n |-> k])
    BY <2>1, Zenon
  <2>3. k \in 1..PacketLen /\ out[i] \in Seq(Frame)
    BY <1>0, <1>2, SMTT(30)
  <2>4. Taken(out[i], out'[i], p, from, k)
    BY <1>2, <2>2, <2>3, TakenFirst, Zenon
  <2>5. out'[i] \in Seq(Frame)
    BY <2>4, Zenon DEF Taken
  <2> QED
    BY <2>1, <2>4, <2>5, Zenon
<1>3. CASE k # 0 /\ from # 0
  <2> DEFINE m == Len(out[i])
             t == [out[i] EXCEPT ![m] = [pkt |-> IF @.pkt = p /\ @.n = from THEN p ELSE 0,
                                         n |-> from + k]]
  <2>1. out' = [out EXCEPT ![i] = t]
    BY <1>3, Zenon DEF Take
  <2>2. out'[i] = t
    BY <2>1, Zenon
  <2>3. from \in 1..(PacketLen - 1) /\ k \in 1..(PacketLen - from) /\ out[i] \in Seq(Frame)
    BY <1>0, <1>3, SMTT(30)
  <2>4. Taken(out[i], t, p, from, k)
    BY <2>3, TakenMore, Zenon
  <2>5. t \in Seq(Frame)
    BY <2>4, Zenon DEF Taken
  <2> HIDE DEF t
  <2> QED
    BY <2>1, <2>2, <2>4, <2>5, Zenon
<1> QED
  BY <1>1, <1>2, <1>3, Zenon

\* Nothing happens to the other ios.
Others(i) ==
    \A x \in Io : x # i =>
        /\ out'[x] = out[x] /\ queue'[x] = queue[x] /\ written'[x] = written[x]
        /\ x \in open' \ dead' => x \in open \ dead

\* The packets that wait are not overwritten.
Intact == \A x \in Io, b \in Buf : Queued(x, b) => content'[b] = content[b]

LEMMA NothingWritten == WatchedInv => \A i \in Io : queue[i] = <<>> => written[i] = 0
  BY Zenon DEF WatchedInv, Watched

LEMMA WholeIs == \A i : Whole(i) = WholeOf(out[i]) /\ Whole(i)' = WholeOf(out'[i])
  BY Zenon DEF Whole, WholeOf

LEMMA SameQueue ==
    ASSUME WatchedInv, Intact, NEW x \in Io, queue'[x] = queue[x]
    PROVE  Waiting(x)' = Waiting(x) /\ (queue[x] # <<>> => First(x)' = First(x))
<1>1. queue[x] \in Seq(Buf)
  BY Zenon DEF WatchedInv, WriteTypes
<1>2. ASSUME NEW j \in 1..Len(queue[x]) PROVE content'[queue[x][j]] = content[queue[x][j]]
  <2>1. queue[x][j] \in Buf /\ Queued(x, queue[x][j])
    BY <1>1, ElementOfSeq, Zenon DEF Queued
  <2> QED
    BY <2>1, Zenon DEF Intact
<1>3. queue[x] # <<>> => Head(queue[x]) = queue[x][1] /\ 1 \in 1..Len(queue[x])
  BY <1>1, HeadTailProperties, LenProperties, EmptySeq, SMTT(30)
<1> QED
  BY <1>2, <1>3, Zenon DEF Waiting, First

LEMMA OthersSound ==
    ASSUME WatchedInv, Frames, Intact, NEW i, Others(i), NEW x \in Io, x # i
    PROVE  Sound(x)' /\ Whole(x)' = Whole(x) /\ Waiting(x)' = Waiting(x)
<1>1. /\ out'[x] = out[x] /\ queue'[x] = queue[x] /\ written'[x] = written[x]
      /\ x \in open' \ dead' => x \in open \ dead
  BY Zenon DEF Others
<1>2. Waiting(x)' = Waiting(x) /\ (queue[x] # <<>> => First(x)' = First(x))
  BY <1>1, SameQueue, Zenon
<1>3. Whole(x)' = Whole(x)
  BY <1>1, Zenon DEF Whole
<1>4. ASSUME x \in open' \ dead'
      PROVE  written'[x] \in 0..(PacketLen - 1) /\ Begun(out'[x], First(x)', written'[x])
  <2>1. written[x] \in 0..(PacketLen - 1) /\ Begun(out[x], First(x), written[x])
    BY <1>1, <1>4, Zenon DEF Frames, Sound
  <2>2. CASE queue[x] # <<>>
    BY <1>1, <1>2, <2>1, <2>2, Zenon
  <2>3. CASE queue[x] = <<>>
    BY <1>1, <2>1, <2>3, NothingWritten, Zenon DEF Begun
  <2> QED
    BY <2>2, <2>3, Zenon
<1>5. Sound(x)'
  BY <1>4, Zenon DEF Sound
<1> QED
  BY <1>2, <1>3, <1>5, Zenon

\* Only the channel of i passes packets on, and only the packets that wait there
\* change.
Passed(i, v) == Whole(i)' = v /\ \A x \in Io : x # i => Whole(x)' = Whole(x)
Left(i, v) == Waiting(i)' = v /\ \A x \in Io : x # i => Waiting(x)' = Waiting(x)

LEMMA NoneWaits == \A i : queue[i] = <<>> => Waiting(i) = <<>>
  BY DEF Waiting

\* A channel that has sent whole packets only has begun none.
LEMMA BegunAny == \A s, p, q : Begun(s, p, 0) => Begun(s, q, 0)
  BY Zenon DEF Begun

LEMMA NowStep ==
    ASSUME WatchedInv, Frames, Intact, NEW i \in Io, i \in open, NEW p \in Packet,
           WriteSync(i, p), open' = open
    PROVE  Frames' /\ Channel!Next
<1>0. PacketLen \in Nat \ {0} /\ p \in Nat
  BY IoAssumption, SMTT(30) DEF Packet
<1>1. /\ queue[i] = <<>> /\ i \notin dead /\ out' = Take(i, p, 0, PacketLen)
      /\ UNCHANGED <<dead, queue, written>>
  BY Zenon DEF WriteSync, queueVars
<1>2. written[i] = 0 /\ Begun(out[i], First(i), 0)
  BY <1>1, NothingWritten, Zenon DEF Frames, Sound
<1>3. Begun(out[i], p, 0) /\ 0 \in 0..(PacketLen - 1) /\ PacketLen \in 0..(PacketLen - 0)
  BY <1>0, <1>2, BegunAny, SMTT(30)
<1>4. /\ out' \in [Io -> Seq(Frame)] /\ \A x \in Io : x # i => out'[x] = out[x]
      /\ Taken(out[i], out'[i], p, 0, PacketLen)
  BY <1>0, <1>1, <1>3, TakeFrames, Zenon DEF Frames
<1>5. Begun(out'[i], p, 0) /\ WholeOf(out'[i]) = Append(WholeOf(out[i]), p)
  BY <1>0, <1>4, SMTT(30) DEF Taken
<1>6. Others(i)
  BY <1>1, <1>4, Zenon DEF Others
<1>7. \A x \in Io : x # i => Sound(x)' /\ Whole(x)' = Whole(x) /\ Waiting(x)' = Waiting(x)
  BY <1>6, OthersSound, Zenon
<1>8. Sound(i)'
  <2>1. written'[i] = 0
    BY <1>1, <1>2, Zenon
  <2>2. Begun(out'[i], First(i)', 0)
    BY <1>5, BegunAny, Zenon
  <2> QED
    BY <1>3, <2>1, <2>2, Zenon DEF Sound
<1>9. Frames'
  BY <1>4, <1>7, <1>8, Zenon DEF Frames
<1>10. Passed(i, Append(Whole(i), p)) /\ Left(i, Waiting(i)) /\ Waiting(i) = <<>>
  BY <1>1, <1>5, <1>7, WholeIs, NoneWaits, SameQueue, ZenonT(40) DEF Passed, Left
<1>11. Channel!SendNow(i, p)
  BY <1>10, Zenon DEF Channel!SendNow, Passed, Left
<1> QED
  BY <1>9, <1>11, Zenon DEF Channel!Next

\* The packets that wait, after one more.
LEMMA WaitingMore ==
    ASSUME WatchedInv, Intact, content \in [Buf -> 0..MaxPackets], content' \in [Buf -> 0..MaxPackets],
           NEW i \in Io, NEW b \in Buf, queue' = [queue EXCEPT ![i] = Append(@, b)]
    PROVE  Waiting(i)' = Append(Waiting(i), content'[b])
<1> DEFINE m == Len(queue[i])
<1>1. queue[i] \in Seq(Buf) /\ queue'[i] = Append(queue[i], b) /\ m \in Nat
  BY LenProperties, Zenon DEF WatchedInv, WriteTypes
<1>2. /\ queue'[i] \in Seq(Buf) /\ Len(queue'[i]) = m + 1
      /\ \A j \in 1..m : queue'[i][j] = queue[i][j]
      /\ queue'[i][m + 1] = b
  BY <1>1, AppendProperties
<1>3. ASSUME NEW j \in 1..m PROVE content'[queue[i][j]] = content[queue[i][j]]
  <2>1. queue[i][j] \in Buf /\ Queued(i, queue[i][j])
    BY <1>1, ElementOfSeq, Zenon DEF Queued
  <2> QED
    BY <2>1, Zenon DEF Intact
<1>4. MaxPackets \in Nat /\ 0..MaxPackets \subseteq Nat
  BY IoAssumption
<1>5. ASSUME NEW j \in 1..m PROVE content[queue[i][j]] \in Nat
  BY <1>1, <1>4, ElementOfSeq, Zenon
<1>6. ASSUME NEW j \in 1..(m + 1) PROVE content'[queue'[i][j]] \in Nat
  BY <1>2, <1>4, ElementOfSeq, Zenon
<1> DEFINE s == [j \in 1..m |-> content[queue[i][j]]]
           u == [j \in 1..(m + 1) |-> content'[queue'[i][j]]]
<1>7. Waiting(i) = s /\ Waiting(i)' = u
  BY <1>2, Zenon DEF Waiting
<1>8. s \in Seq(Nat) /\ Len(s) = m
  BY <1>1, <1>5, IsASeq, SMTT(30)
<1>9. u \in Seq(Nat) /\ Len(u) = m + 1
  BY <1>1, <1>6, IsASeq, SMTT(30)
<1>10. (\A j \in 1..m : u[j] = s[j]) /\ u[m + 1] = content'[b]
  BY <1>1, <1>2, <1>3, SMTT(30)
<1>11. content'[b] \in Nat
  BY <1>4, Zenon
<1> HIDE DEF s, u, m
<1> QED
  BY <1>7, <1>8, <1>9, <1>10, <1>11, IsAppend, ZenonT(40)

LEMMA LaterStep ==
    ASSUME WatchedInv, Packets, Frames, Intact, NEW i \in Io, i \in open, NEW b \in Buf,
           content' \in [Buf -> 0..MaxPackets], content'[b] \in Packet,
           WriteQueued(i, b) \/ WriteBlocked(i, b, content'[b]), open' = open
    PROVE  Frames' /\ Channel!Next
<1> SUFFICES ASSUME NEW p \in Packet, p = content'[b] PROVE Frames' /\ Channel!Next
  BY Zenon
<1>0. PacketLen \in Nat \ {0} /\ p \in Nat
  BY IoAssumption, SMTT(30) DEF Packet
<1>1. queue' = [queue EXCEPT ![i] = Append(@, b)] /\ queue \in [Io -> Seq(Buf)]
  BY WaitingQueue, Zenon DEF WatchedInv, WriteTypes
<1>2. dead' = dead
  BY Zenon DEF WriteQueued, WriteBlocked, socketVars
<1>3. Waiting(i)' = Append(Waiting(i), p)
  BY <1>1, WaitingMore, Zenon DEF Packets
<1>4. /\ out' \in [Io -> Seq(Frame)] /\ Others(i) /\ Sound(i)' /\ Whole(i)' = Whole(i)
  <2>1. CASE WriteQueued(i, b)
    <3>1. queue[i] # <<>> /\ UNCHANGED <<written, out>>
      BY <2>1, Zenon DEF WriteQueued, socketVars
    <3>2. Others(i)
      BY <1>1, <1>2, <3>1, Zenon DEF Others
    <3>3. queue[i] \in Seq(Buf) /\ Head(queue'[i]) = Head(queue[i])
      BY <1>1, <3>1, HeadTailAppend, Zenon
    <3>4. Head(queue[i]) \in Buf /\ Queued(i, Head(queue[i]))
      <4>1. /\ Head(queue[i]) = queue[i][1] /\ 1 \in 1..Len(queue[i])
            /\ Head(queue[i]) \in Buf
        BY <3>1, <3>3, HeadTailProperties, LenProperties, EmptySeq, SMTT(30)
      <4> QED
        BY <4>1, Zenon DEF Queued
    <3>5. First(i)' = First(i)
      BY <3>3, <3>4, Zenon DEF First, Intact
    <3>6. Sound(i)'
      BY <1>2, <3>1, <3>5, Zenon DEF Frames, Sound
    <3> QED
      BY <3>1, <3>2, <3>6, Zenon DEF Frames, Whole
  <2>2. CASE WriteBlocked(i, b, p)
    <3>1. queue[i] = <<>> /\ i \notin dead
      BY <2>2, Zenon DEF WriteBlocked
    <3>2. PICK k \in 0..(PacketLen - 1) :
            out' = Take(i, p, 0, k) /\ written' = [written EXCEPT ![i] = k]
      BY <2>2, Zenon DEF WriteBlocked
    <3>3. written[i] = 0 /\ Begun(out[i], First(i), 0)
      BY <3>1, NothingWritten, Zenon DEF Frames, Sound
    <3>4. Begun(out[i], p, 0) /\ 0 \in 0..(PacketLen - 1) /\ k \in 0..(PacketLen - 0) /\ 0 + k = k
          /\ k # PacketLen
      BY <1>0, <3>3, BegunAny, SMTT(30)
    <3>5. /\ out' \in [Io -> Seq(Frame)] /\ \A x \in Io : x # i => out'[x] = out[x]
          /\ Taken(out[i], out'[i], p, 0, k)
      BY <1>0, <3>2, <3>4, TakeFrames, ZenonT(40) DEF Frames
    <3>6. Begun(out'[i], p, k) /\ WholeOf(out'[i]) = WholeOf(out[i])
      BY <3>4, <3>5, Zenon DEF Taken
    <3>7. Others(i)
      BY <1>1, <1>2, <3>2, <3>5, Zenon DEF Others, WatchedInv, WriteTypes
    <3>8. queue'[i] = <<b>> /\ Head(queue'[i]) = b
      BY <1>1, <3>1
    <3>9. written'[i] = k
      BY <3>2, Zenon DEF WatchedInv, WriteTypes
    <3>10. First(i)' = p
      BY <3>8, Zenon DEF First
    <3>11. Sound(i)'
      BY <3>2, <3>6, <3>9, <3>10, ZenonT(40) DEF Sound
    <3> QED
      BY <3>5, <3>6, <3>7, <3>11, WholeIs, ZenonT(40)
  <2> QED
    BY <2>1, <2>2, Zenon
<1>5. \A x \in Io : x # i => Sound(x)' /\ Whole(x)' = Whole(x) /\ Waiting(x)' = Waiting(x)
  BY <1>4, OthersSound, Zenon
<1>6. Frames'
  BY <1>4, <1>5, Zenon DEF Frames
<1>7. Passed(i, Whole(i)) /\ Left(i, Append(Waiting(i), p))
  BY <1>3, <1>4, <1>5, Zenon DEF Passed, Left
<1>8. Channel!SendLater(i, p)
  BY <1>7, Zenon DEF Channel!SendLater, Passed, Left
<1> QED
  BY <1>6, <1>8, Zenon DEF Channel!Next

\* The socket takes at most a part of a packet.
OnlyPart(i) ==
    /\ out' \in [Io -> Seq(Frame)] /\ \A x \in Io : x # i => out'[x] = out[x]
    /\ Whole(i)' = Whole(i)

LEMMA FailedWrite ==
    ASSUME Frames, NEW i \in Io, i \in open, NEW p \in Nat, NEW from,
           i \notin dead => from \in 0..(PacketLen - 1) /\ Begun(out[i], p, from),
           SocketFails(i, p, from)
    PROVE  OnlyPart(i)
<1>1. PICK k \in 0..(PacketLen - from - 1) : (i \in dead => k = 0) /\ out' = Take(i, p, from, k)
  BY Zenon DEF SocketFails
<1>2. CASE i \in dead
  <2>1. out' = out
    BY <1>1, <1>2, Zenon DEF Take
  <2> QED
    BY <2>1, Zenon DEF OnlyPart, Frames, Whole
<1>3. CASE i \notin dead
  <2>1. from \in 0..(PacketLen - 1) /\ PacketLen \in Nat
    BY <1>3, IoAssumption, Zenon
  <2>2. k \in 0..(PacketLen - from) /\ from + k # PacketLen
    BY <1>1, <2>1, SMTT(30)
  <2>3. /\ out' \in [Io -> Seq(Frame)] /\ \A x \in Io : x # i => out'[x] = out[x]
        /\ Taken(out[i], out'[i], p, from, k)
    BY <1>1, <1>3, <2>1, <2>2, TakeFrames, ZenonT(40) DEF Frames
  <2> QED
    BY <2>2, <2>3, WholeIs, Zenon DEF Taken, OnlyPart
<1> QED
  BY <1>2, <1>3, Zenon

LEMMA ClosedStep ==
    ASSUME WatchedInv, Frames, Intact, NEW i \in Io, i \in open, NEW done, CloseIo(i, done), OnlyPart(i)
    PROVE  Frames' /\ Channel!Next
<1>1. /\ open' = open \ {i} /\ dead' = dead \ {i} /\ queue' = [queue EXCEPT ![i] = <<>>]
      /\ written' = [written EXCEPT ![i] = 0]
  BY Zenon DEF CloseIo
<1>2. Others(i)
  BY <1>1, Zenon DEF Others, OnlyPart, WatchedInv, WriteTypes
<1>3. \A x \in Io : x # i => Sound(x)' /\ Whole(x)' = Whole(x) /\ Waiting(x)' = Waiting(x)
  BY <1>2, OthersSound, Zenon
<1>4. Sound(i)'
  BY <1>1, Zenon DEF Sound
<1>5. Frames'
  BY <1>3, <1>4, Zenon DEF Frames, OnlyPart
<1>6. queue'[i] = <<>>
  BY <1>1, Zenon DEF WatchedInv, WriteTypes
<1>7. Waiting(i)' = <<>>
  BY <1>6 DEF Waiting
<1>8. Passed(i, Whole(i)) /\ Left(i, <<>>)
  BY <1>3, <1>7, Zenon DEF Passed, Left, OnlyPart
<1>9. Channel!Close(i)
  BY <1>1, <1>8, Zenon DEF Channel!Close, Passed, Left
<1> QED
  BY <1>5, <1>9, Zenon DEF Channel!Next

\* Steps that the channels do not see.
LEMMA HiddenStep ==
    ASSUME WatchedInv, Frames, Intact, NEW i \in Io, Others(i), queue'[i] = queue[i], open' = open,
           OnlyPart(i), Sound(i)'
    PROVE  Frames' /\ UNCHANGED Channel!vars
<1>1. \A x \in Io : x # i => Sound(x)' /\ Whole(x)' = Whole(x) /\ Waiting(x)' = Waiting(x)
  BY OthersSound, Zenon
<1>2. Waiting(i)' = Waiting(i)
  BY SameQueue, Zenon
<1>3. \A x \in Io : Whole(x)' = Whole(x) /\ Waiting(x)' = Waiting(x)
  BY <1>1, <1>2, Zenon DEF OnlyPart
<1>4. Frames'
  BY <1>1, Zenon DEF Frames, OnlyPart
<1> QED
  BY <1>3, <1>4, Zenon DEF Channel!vars

LEMMA QuietStep ==
    ASSUME WatchedInv, Frames, Intact, UNCHANGED <<open, queue, written, out>>, dead \subseteq dead'
    PROVE  Frames' /\ UNCHANGED Channel!vars
<1>1. None \notin Io
  BY IoAssumption, Zenon
<1>2. Others(None)
  BY Zenon DEF Others
<1>3. \A x \in Io : Sound(x)' /\ Whole(x)' = Whole(x) /\ Waiting(x)' = Waiting(x)
  BY <1>1, <1>2, OthersSound, Zenon
<1>4. Frames'
  BY <1>3, Zenon DEF Frames
<1> QED
  BY <1>3, <1>4, Zenon DEF Channel!vars

LEMMA OpenedStep ==
    ASSUME WatchedInv, Packets, Frames, Intact, NEW i \in Io, OpenIo(i)
    PROVE  Frames' /\ Channel!Next
<1>1. /\ i \notin open /\ open' = open \cup {i} /\ out' = [out EXCEPT ![i] = <<>>]
      /\ UNCHANGED <<queue, written, dead>>
  BY Zenon DEF OpenIo, queueVars
<1>2. queue[i] = <<>> /\ written[i] = 0
  BY <1>1, NothingWritten, Zenon DEF Packets
<1>3. Others(i)
  BY <1>1, Zenon DEF Others, Frames
<1>4. \A x \in Io : x # i => Sound(x)' /\ Whole(x)' = Whole(x) /\ Waiting(x)' = Waiting(x)
  BY <1>3, OthersSound, Zenon
<1>5. out' \in [Io -> Seq(Frame)] /\ out'[i] = <<>>
  BY <1>1, SMTT(30) DEF Frames
<1>6. Sound(i)'
  <2>1. 0 \in 0..(PacketLen - 1)
    BY IoAssumption
  <2>2. Begun(out'[i], First(i)', 0)
    BY <1>5 DEF Begun
  <2> QED
    BY <1>1, <1>2, <2>1, <2>2, Zenon DEF Sound
<1>7. Frames'
  BY <1>4, <1>5, <1>6, Zenon DEF Frames
<1>8. Whole(i)' = <<>>
  BY <1>5, SMTT(30) DEF Whole
<1>9. Passed(i, <<>>) /\ Left(i, Waiting(i))
  BY <1>1, <1>4, <1>8, SameQueue, Zenon DEF Passed, Left
<1>10. Channel!Open(i)
  BY <1>1, <1>9, Zenon DEF Channel!Open, Passed, Left
<1> QED
  BY <1>7, <1>10, Zenon DEF Channel!Next

\* The first packet that waits has a number, and is the first of the queue.
LEMMA FirstPacket ==
    ASSUME WatchedInv, Packets, NEW i \in Io, queue[i] # <<>>
    PROVE  First(i) \in Nat /\ Waiting(i) # <<>> /\ Head(Waiting(i)) = First(i) /\ i \in open
<1>1. queue[i] \in Seq(Buf)
  BY Zenon DEF WatchedInv, WriteTypes
<1>2. Head(queue[i]) \in Buf /\ Head(queue[i]) = queue[i][1] /\ Len(queue[i]) \in Nat \ {0}
  BY <1>1, HeadTailProperties, LenProperties, EmptySeq, SMTT(30)
<1>3. First(i) \in Nat
  BY <1>2, IoAssumption DEF First, Packets
<1>4. Waiting(i) # <<>> /\ Waiting(i)[1] = First(i)
  BY <1>2 DEF Waiting, First
<1> QED
  BY <1>3, <1>4 DEF Packets

LEMMA WaitingLess ==
    ASSUME WatchedInv, Packets, content' = content, NEW i \in Io, queue[i] # <<>>,
           queue' = [queue EXCEPT ![i] = Tail(@)]
    PROVE  Waiting(i)' = Tail(Waiting(i))
<1> DEFINE m == Len(queue[i])
           s == [j \in 1..m |-> content[queue[i][j]]]
           u == [j \in 1..(m - 1) |-> content[queue[i][j + 1]]]
<1>1. queue[i] \in Seq(Buf) /\ queue'[i] = Tail(queue[i])
  BY Zenon DEF WatchedInv, WriteTypes
<1>2. /\ m \in Nat \ {0} /\ Len(queue'[i]) = m - 1
      /\ \A j \in 1..(m - 1) : queue'[i][j] = queue[i][j + 1]
  BY <1>1, HeadTailProperties, LenProperties, EmptySeq, Zenon
<1>3. ASSUME NEW j \in 1..m PROVE content[queue[i][j]] \in Nat
  <2>1. queue[i][j] \in Buf
    BY <1>1, ElementOfSeq, Zenon
  <2> QED
    BY <2>1, IoAssumption DEF Packets
<1>4. s \in Seq(Nat) /\ Len(s) = m
  BY <1>2, <1>3, IsASeq, SMTT(30)
<1>5. u \in Seq(Nat) /\ Len(u) = m - 1
  <2>1. \A j \in 1..(m - 1) : content[queue[i][j + 1]] \in Nat
    BY <1>2, <1>3
  <2> QED
    BY <1>2, <2>1, IsASeq, SMTT(30)
<1>6. Waiting(i) = s /\ Waiting(i)' = u
  BY <1>2 DEF Waiting
<1>7. s # <<>>
  BY <1>2, <1>4, Zenon
<1>8. /\ Tail(s) \in Seq(Nat) /\ Len(Tail(s)) = m - 1
      /\ \A j \in 1..(m - 1) : Tail(s)[j] = s[j + 1]
  <2> HIDE DEF s
  <2> QED
    BY <1>4, <1>7, HeadTailProperties, Zenon
<1>9. \A j \in 1..(m - 1) : u[j] = s[j + 1]
  BY <1>2
<1>10. u = Tail(s)
  <2> HIDE DEF s, u, m
  <2> QED
    BY <1>5, <1>8, <1>9, SeqEqual, SMTT(30)
<1> QED
  BY <1>6, <1>10, Zenon

LEMMA PassStep ==
    ASSUME WatchedInv, Packets, Frames, NEW i \in Io, WriteDone(i)
    PROVE  Frames' /\ Channel!Next
<1> SUFFICES ASSUME NEW p, p = First(i), NEW from, from = written[i]
             PROVE  Frames' /\ Channel!Next
  BY Zenon
<1>1. /\ queue[i] # <<>> /\ i \notin dead /\ out' = Take(i, p, from, PacketLen - from)
      /\ queue' = [queue EXCEPT ![i] = Tail(@)] /\ written' = [written EXCEPT ![i] = 0]
      /\ UNCHANGED <<open, dead, content>>
  BY Zenon DEF WriteDone, First
<1>2. p \in Nat /\ Waiting(i) # <<>> /\ Head(Waiting(i)) = p /\ i \in open
  BY <1>1, FirstPacket, Zenon
<1>3. from \in 0..(PacketLen - 1) /\ Begun(out[i], p, from)
  BY <1>1, <1>2, Zenon DEF Frames, Sound
<1>4. PacketLen - from \in 0..(PacketLen - from) /\ from + (PacketLen - from) = PacketLen
  BY <1>3, IoAssumption, SMTT(30)
<1>5. /\ out' \in [Io -> Seq(Frame)] /\ \A x \in Io : x # i => out'[x] = out[x]
      /\ Taken(out[i], out'[i], p, from, PacketLen - from)
  BY <1>1, <1>2, <1>3, <1>4, TakeFrames, Zenon DEF Frames
<1>6. Begun(out'[i], p, 0) /\ WholeOf(out'[i]) = Append(WholeOf(out[i]), p)
  BY <1>4, <1>5, Zenon DEF Taken
<1>7. Others(i) /\ Intact
  BY <1>1, <1>5, Zenon DEF Others, Intact, WatchedInv, WriteTypes
<1>8. \A x \in Io : x # i => Sound(x)' /\ Whole(x)' = Whole(x) /\ Waiting(x)' = Waiting(x)
  BY <1>7, OthersSound, Zenon
<1>9. Sound(i)'
  <2>1. written'[i] = 0
    BY <1>1, Zenon DEF WatchedInv, WriteTypes
  <2>z. 0 \in 0..(PacketLen - 1)
    BY IoAssumption, SMTT(30)
  <2>2. Begun(out'[i], First(i)', 0)
    BY <1>6, BegunAny, Zenon
  <2> QED
    BY <2>1, <2>z, <2>2, Zenon DEF Sound
<1>10. Frames'
  BY <1>5, <1>8, <1>9, Zenon DEF Frames
<1>11. Passed(i, Append(Whole(i), Head(Waiting(i)))) /\ Left(i, Tail(Waiting(i)))
  BY <1>1, <1>2, <1>6, <1>8, WholeIs, WaitingLess, Zenon DEF Passed, Left
<1>12. Channel!Pass(i)
  BY <1>1, <1>2, <1>11, Zenon DEF Channel!Pass, Passed, Left
<1> QED
  BY <1>10, <1>12, Zenon DEF Channel!Next

LEMMA AgainStep ==
    ASSUME WatchedInv, Packets, Frames, NEW i \in Io, WriteAgain(i)
    PROVE  Frames' /\ UNCHANGED Channel!vars
<1> SUFFICES ASSUME NEW p, p = First(i), NEW from, from = written[i]
             PROVE  Frames' /\ UNCHANGED Channel!vars
  BY Zenon
<1>1. queue[i] # <<>> /\ i \notin dead /\ UNCHANGED <<open, queue, dead, content>>
  BY Zenon DEF WriteAgain
<1>2. PICK k \in (IF ctx.first THEN 1 ELSE 0)..(PacketLen - from - 1) :
        out' = Take(i, p, from, k) /\ written' = [written EXCEPT ![i] = @ + k]
  BY Zenon DEF WriteAgain, First
<1>3. p \in Nat /\ i \in open
  BY <1>1, FirstPacket, Zenon
<1>4. from \in 0..(PacketLen - 1) /\ Begun(out[i], p, from)
  BY <1>1, <1>3, Zenon DEF Frames, Sound
<1>5. k \in 0..(PacketLen - from) /\ from + k # PacketLen /\ from + k \in 0..(PacketLen - 1)
  <2>1. (IF ctx.first THEN 1 ELSE 0) \in Nat
    BY Zenon
  <2> QED
    BY <1>2, <1>4, <2>1, IoAssumption, SMTT(30)
<1>6. /\ out' \in [Io -> Seq(Frame)] /\ \A x \in Io : x # i => out'[x] = out[x]
      /\ Taken(out[i], out'[i], p, from, k)
  BY <1>2, <1>3, <1>4, <1>5, TakeFrames, Zenon DEF Frames
<1>7. Begun(out'[i], p, from + k) /\ WholeOf(out'[i]) = WholeOf(out[i])
  BY <1>5, <1>6, Zenon DEF Taken
<1>8. Others(i) /\ Intact
  BY <1>1, <1>2, <1>6, Zenon DEF Others, Intact, WatchedInv, WriteTypes
<1>9. written'[i] = from + k /\ First(i)' = p
  BY <1>1, <1>2, Zenon DEF WatchedInv, WriteTypes, First
<1>10. Sound(i)' /\ OnlyPart(i)
  BY <1>5, <1>6, <1>7, <1>9, WholeIs, Zenon DEF Sound, OnlyPart
<1> QED
  BY <1>1, <1>8, <1>10, HiddenStep, Zenon

\* A packet is encoded in a buffer that nobody uses.
LEMMA FreshPacket ==
    ASSUME WatchedInv, RefInv, Packets, NEW b \in free, NEW v, content' = [content EXCEPT ![b] = v]
    PROVE  Intact
  BY FreeBuffer, Zenon DEF Intact, Packets

LEMMA Encoded ==
    ASSUME WatchedInv, Packets, NEW b \in free, Encode(b)
    PROVE  /\ content' = [content EXCEPT ![b] = npkt'] /\ content'[b] = npkt' /\ npkt' \in Packet
           /\ content' \in [Buf -> 0..MaxPackets] /\ npkt' \in 0..MaxPackets
<1>1. b \in Buf /\ npkt' = npkt + 1 /\ npkt < MaxPackets /\ npkt \in 0..MaxPackets
  BY Zenon DEF Encode, WatchedInv, WriteTypes, Packets
<1>2. npkt + 1 \in 1..MaxPackets /\ npkt + 1 \in 0..MaxPackets
  BY <1>1, IoAssumption
<1> QED
  BY <1>1, <1>2, Zenon DEF Encode, Packets, Packet

LEMMA FaultsGrow == ASSUME Packets, [Next]_vars PROVE faults' \in {faults, faults + 1}
<1>1. ASSUME NEW i \in Io, NEW kept \in BOOLEAN, Send(i, kept) PROVE faults' \in {faults, faults + 1}
  <2>1. PICK b : \/ WriteSync(i, npkt') \/ WriteQueued(i, b) \/ WriteBlocked(i, b, npkt')
                 \/ WriteFails(i, npkt')
    BY <1>1, Zenon DEF Send
  <2> QED
    BY <2>1, Zenon DEF WriteSync, WriteQueued, WriteBlocked, WriteFails, SocketFails, Fault
<1>2. ASSUME NEW i \in Io, SendPeer(i) PROVE faults' \in {faults, faults + 1}
  <2>1. PICK b, p : WriteSync(i, p) \/ WriteQueued(i, b) \/ WriteBlocked(i, b, p) \/ WriteFails(i, p)
    BY <1>2, Zenon DEF SendPeer
  <2> QED
    BY <2>1, Zenon DEF WriteSync, WriteQueued, WriteBlocked, WriteFails, SocketFails, Fault
<1>3. ASSUME NEW i \in Io, WriteStep(i) PROVE faults' \in {faults, faults + 1}
  BY <1>3, Zenon DEF WriteStep, WriteDone, WriteAgain, WriteError, WriteEnd, SocketFails
<1>4. ASSUME NEW i \in Io,
             OpenIo(i) \/ DestroyIo(i) \/ SocketDies(i) \/ WriteEvents(i) \/ WriteGivenUp(i)
      PROVE  faults' \in {faults, faults + 1}
  BY <1>4, Zenon DEF OpenIo, DestroyIo, SocketDies, WriteEvents, WriteGivenUp
<1>5. ASSUME NEW todo, SendPeers(todo) PROVE faults' \in {faults, faults + 1}
  BY <1>5, Zenon DEF SendPeers
<1>6. CASE SendPeersEnd \/ UNCHANGED vars
  BY <1>6, Zenon DEF SendPeersEnd, vars
<1> QED
  BY <1>1, <1>2, <1>3, <1>4, <1>5, <1>6, ZenonT(30) DEF Next

\* A step that leaves the packets alone and only closes ios.
LEMMA PacketsSame ==
    ASSUME Packets, UNCHANGED <<content, npkt>>, faults' \in {faults, faults + 1},
           \A i \in Io \ open' : queue'[i] = <<>>,
           ctx'.at = "send_peers" => SameBuffer /\ ctx'.todo \subseteq open'
    PROVE  Packets'
<1>1. content' \in [Buf -> 0..MaxPackets] /\ npkt' \in 0..MaxPackets
  <2>1. content' = content /\ npkt' = npkt
    BY Zenon
  <2>2. content \in [Buf -> 0..MaxPackets] /\ npkt \in 0..MaxPackets
    BY Zenon DEF Packets
  <2> QED BY <2>1, <2>2, Zenon
<1>2. faults' \in Nat
  <2>1. faults \in Nat
    BY Zenon DEF Packets
  <2> QED BY <2>1
<1>3. ASSUME ctx'.at = "send_peers"
      PROVE  ctx'.todo \subseteq open' /\ content'[ctx'.buf] \in Packet
  <2>1. ctx.at = "send_peers" /\ ctx'.buf = ctx.buf /\ ctx'.todo \subseteq open'
    BY <1>3, Zenon DEF SameBuffer
  <2>2. content[ctx.buf] \in Packet
    BY <2>1, Zenon DEF Packets
  <2> QED
    BY <2>1, <2>2, Zenon
<1> QED
  BY <1>1, <1>2, <1>3, Zenon DEF Packets

\* The queues of the closed ios stay empty.
LEMMA ClosedQueues ==
    ASSUME WatchedInv, Packets, NEW i \in Io, NEW done, CloseIo(i, done)
    PROVE  \A x \in Io \ open' : queue'[x] = <<>>
  BY Zenon DEF CloseIo, Packets, WatchedInv, WriteTypes

LEMMA WaitingQueues ==
    ASSUME WatchedInv, Packets, NEW i \in Io, i \in open, NEW v, queue' = [queue EXCEPT ![i] = v],
           open' = open
    PROVE  \A x \in Io \ open' : queue'[x] = <<>>
  BY Zenon DEF Packets, WatchedInv, WriteTypes

LEMMA PacketsStep ==
    ASSUME WatchedInv, RefInv, Packets, [Next]_vars
    PROVE  Packets'
<1>f. faults' \in {faults, faults + 1} /\ faults' \in Nat
  BY FaultsGrow DEF Packets
<1>loop. Loop.at # "send_peers" /\ Crashed.at # "send_peers"
         /\ \A i, first : Writing(i, first).at # "send_peers"
  BY Zenon DEF Loop, Crashed, Writing
<1>closed. \A i \in Io \ open : queue[i] = <<>>
  BY Zenon DEF Packets
<1>1. ASSUME NEW i \in Io, OpenIo(i) PROVE Packets'
  <2>1. PICK b \in free : content' = [content EXCEPT ![b] = 0]
    BY <1>1, Zenon DEF OpenIo
  <2>2. ctx = Loop /\ ctx' = ctx /\ open' = open \cup {i} /\ queue' = queue /\ npkt' = npkt
    BY <1>1, Zenon DEF OpenIo, queueVars
  <2>3. content' \in [Buf -> 0..MaxPackets]
    <3>1. 0 \in 0..MaxPackets
      BY IoAssumption
    <3> QED
      BY <2>1, <3>1, Zenon DEF Packets
  <2> QED
    BY <2>2, <2>3, <1>f, <1>loop, Zenon DEF Packets
<1>2. ASSUME NEW i \in Io, DestroyIo(i) PROVE Packets'
  <2>1. CloseIo(i, 0) /\ ctx = Loop /\ UNCHANGED <<content, npkt, ctx>>
    BY <1>2, Zenon DEF DestroyIo
  <2> QED
    BY <2>1, <1>f, <1>loop, ClosedQueues, PacketsSame, ZenonT(40)
<1>3. ASSUME NEW i \in Io, SocketDies(i) PROVE Packets'
  <2>1. UNCHANGED <<open, queue, content, npkt, ctx>>
    BY <1>3, Zenon DEF SocketDies, queueVars
  <2> QED
    BY <2>1, <1>f, <1>closed, PacketsSame, ZenonT(40) DEF SameBuffer, Packets
<1>4. ASSUME NEW i \in Io, NEW kept \in BOOLEAN, Send(i, kept) PROVE Packets'
  <2>1. ctx = Loop /\ ctx' = ctx /\ i \in open
    BY <1>4, Zenon DEF Send
  <2>2. PICK b \in free :
          /\ Encode(b)
          /\ \/ UNCHANGED <<open, queue>>
             \/ (WriteQueued(i, b) \/ WriteBlocked(i, b, npkt')) /\ UNCHANGED open
             \/ CloseIo(i, 0)
    BY <1>4, Zenon DEF Send, WriteSync, queueVars
  <2>3. content' \in [Buf -> 0..MaxPackets] /\ npkt' \in 0..MaxPackets /\ b \in Buf
    BY <2>2, Encoded, Zenon DEF WatchedInv, WriteTypes
  <2>4. \A x \in Io \ open' : queue'[x] = <<>>
    <3>1. CASE UNCHANGED <<open, queue>>
      BY <3>1, <1>closed, Zenon
    <3>2. CASE (WriteQueued(i, b) \/ WriteBlocked(i, b, npkt')) /\ UNCHANGED open
      BY <2>1, <2>3, <3>2, WaitingQueue, WaitingQueues, ZenonT(40)
    <3>3. CASE CloseIo(i, 0)
      BY <3>3, ClosedQueues, Zenon
    <3> QED
      BY <2>2, <3>1, <3>2, <3>3, SMTT(30)
  <2> QED
    BY <2>1, <2>3, <2>4, <1>f, <1>loop, ZenonT(40) DEF Packets
<1>5. ASSUME NEW i \in Io, SendPeer(i) PROVE Packets'
  <2>1. /\ ctx.at = "send_peers" /\ i \in ctx.todo /\ ctx' = [ctx EXCEPT !.todo = @ \ {i}]
        /\ UNCHANGED <<content, npkt>> /\ ctx.buf \in Buf
    BY <1>5, Zenon DEF SendPeer, WatchedInv
  <2>2. SameBuffer /\ ctx'.todo = ctx.todo \ {i} /\ ctx.todo \subseteq open
    BY <2>1, Zenon DEF WatchedInv, WriteTypes, SameBuffer, Packets
  <2>3. \/ UNCHANGED <<open, queue>>
        \/ /\ WriteQueued(i, ctx.buf) \/ WriteBlocked(i, ctx.buf, content[ctx.buf])
           /\ UNCHANGED open
        \/ CloseIo(i, 0)
    BY <1>5, Zenon DEF SendPeer, WriteSync, queueVars
  <2>4. open' \in {open, open \ {i}} /\ \A x \in Io \ open' : queue'[x] = <<>>
    <3>1. CASE UNCHANGED <<open, queue>>
      BY <3>1, <1>closed, Zenon
    <3>2. CASE /\ WriteQueued(i, ctx.buf) \/ WriteBlocked(i, ctx.buf, content[ctx.buf])
               /\ UNCHANGED open
      BY <2>1, <2>2, <3>2, WaitingQueue, WaitingQueues, ZenonT(40)
    <3>3. CASE CloseIo(i, 0)
      <4>1. open' = open \ {i}
        BY <3>3, Zenon DEF CloseIo
      <4> QED
        BY <3>3, <4>1, ClosedQueues, Zenon
    <3> QED
      BY <2>3, <3>1, <3>2, <3>3, ZenonT(40)
  <2>5. ctx'.todo \subseteq open'
    BY <2>2, <2>4, Zenon
  <2> QED
    BY <2>1, <2>2, <2>4, <2>5, <1>f, PacketsSame, SMTT(30)
<1>6. ASSUME NEW todo \in SUBSET open, SendPeers(todo) PROVE Packets'
  <2>1. PICK b \in free : ctx' = Sending(b, todo) /\ Encode(b)
    BY <1>6, Zenon DEF SendPeers
  <2>2. UNCHANGED <<open, queue>>
    BY <1>6, Zenon DEF SendPeers, queueVars
  <2>3. ctx'.buf = b /\ ctx'.todo = todo
    BY <2>1, Zenon DEF Sending, Loop
  <2>4. /\ content'[b] \in Packet
        /\ content' \in [Buf -> 0..MaxPackets] /\ npkt' \in 0..MaxPackets
    BY <2>1, Encoded, Zenon
  <2> QED
    BY <2>2, <2>3, <2>4, <1>f, <1>closed, Zenon DEF Packets
<1>7. CASE SendPeersEnd
  <2>1. ctx' = Loop /\ UNCHANGED <<open, queue, content, npkt>>
    BY <1>7, Zenon DEF SendPeersEnd, queueVars
  <2> QED
    BY <2>1, <1>f, <1>loop, <1>closed, PacketsSame, SMTT(30)
<1>8. ASSUME NEW i \in Io, WriteEvents(i) PROVE Packets'
  <2>1. ctx' = Writing(i, TRUE) /\ UNCHANGED <<open, queue, content, npkt>>
    BY <1>8, Zenon DEF WriteEvents
  <2> QED
    BY <2>1, <1>f, <1>loop, <1>closed, PacketsSame, ZenonT(40)
<1>9. ASSUME NEW i \in Io, WriteDone(i) PROVE Packets'
  <2>1. /\ ctx' = Writing(i, FALSE) /\ UNCHANGED <<open, content, npkt>> /\ queue[i] # <<>>
        /\ queue' = [queue EXCEPT ![i] = Tail(@)]
    BY <1>9, Zenon DEF WriteDone
  <2>2. i \in open
    BY <2>1, <1>closed, Zenon
  <2>3. \A x \in Io \ open' : queue'[x] = <<>>
    BY <2>1, <2>2, WaitingQueues, Zenon
  <2> QED
    BY <2>1, <2>3, <1>f, <1>loop, PacketsSame, ZenonT(40)
<1>10. ASSUME NEW i \in Io, WriteAgain(i) \/ WriteEnd(i) PROVE Packets'
  <2>1. ctx' = Loop /\ UNCHANGED <<open, queue, content, npkt>>
    BY <1>10, Zenon DEF WriteAgain, WriteEnd
  <2> QED
    BY <2>1, <1>f, <1>loop, <1>closed, PacketsSame, Zenon
<1>11. ASSUME NEW i \in Io, WriteError(i) PROVE Packets'
  <2>1. ctx' \in {Loop, Crashed} /\ CloseIo(i, 1) /\ UNCHANGED <<content, npkt>>
    BY <1>11, Zenon DEF WriteError
  <2> QED
    BY <2>1, <1>f, <1>loop, ClosedQueues, PacketsSame, Zenon
<1>12. ASSUME NEW i \in Io, WriteGivenUp(i) PROVE Packets'
  <2>1. ctx = Loop /\ UNCHANGED <<content, npkt, ctx>> /\ CompleteFailed(i)
    BY <1>12, Zenon DEF WriteGivenUp
  <2>2. \A x \in Io \ open' : queue'[x] = <<>>
    BY <2>1, <1>closed, ClosedQueues, Zenon DEF CompleteFailed
  <2> QED
    BY <2>1, <2>2, <1>f, <1>loop, PacketsSame, Zenon
<1>13. CASE UNCHANGED vars
  BY <1>13, <1>f, <1>closed, PacketsSame, Zenon DEF vars, queueVars, SameBuffer, Packets
<1> QED
  BY <1>1, <1>2, <1>3, <1>4, <1>5, <1>6, <1>7, <1>8, <1>9, <1>10, <1>11, <1>12, <1>13, Zenon
     DEF Next, WriteStep

\* Without a fault every step is a step of the channels, or hidden from them.
Seen == Frames' /\ (Channel!Next \/ UNCHANGED Channel!vars)

\* A packet is handed to obus_io_write: by the users (content' has it already) and
\* by obus_server_send_peers.
LEMMA WriteSeen ==
    ASSUME WatchedInv, Packets, Frames, Intact, faults' = faults, NEW i \in Io, i \in open,
           NEW b \in Buf, NEW p \in Packet, content'[b] = p, content' \in [Buf -> 0..MaxPackets],
           \/ WriteSync(i, p) /\ UNCHANGED open
           \/ (WriteQueued(i, b) \/ WriteBlocked(i, b, p)) /\ UNCHANGED open
           \/ WriteFails(i, p) /\ dead' = dead \cup {i} /\ UNCHANGED <<open, queueVars>>
           \/ WriteFails(i, p) /\ CloseIo(i, 0)
    PROVE  Seen
<1>1. CASE WriteSync(i, p) /\ UNCHANGED open
  BY <1>1, NowStep, Zenon DEF Seen
<1>2. CASE (WriteQueued(i, b) \/ WriteBlocked(i, b, p)) /\ UNCHANGED open
  BY <1>2, LaterStep, Zenon DEF Seen
<1>3. CASE WriteFails(i, p)
  <2>f. ~Fault
    <3>1. faults \in Nat
      BY Zenon DEF Packets
    <3>2. faults' # faults + 1
      BY <3>1
    <3> QED
      BY <3>2, Zenon DEF Fault
  <2>1. queue[i] = <<>> /\ SocketFails(i, p, 0)
    BY <1>3, <2>f, Zenon DEF WriteFails
  <2>2. i \notin dead => 0 \in 0..(PacketLen - 1) /\ Begun(out[i], p, 0)
    BY <2>1, NothingWritten, BegunAny, Zenon DEF Frames, Sound
  <2>3. p \in Nat
    BY IoAssumption DEF Packet
  <2>4. OnlyPart(i)
    BY <2>1, <2>2, <2>3, FailedWrite, Zenon
  <2>5. CASE CloseIo(i, 0)
    BY <2>4, <2>5, ClosedStep, Zenon DEF Seen
  <2>6. CASE dead' = dead \cup {i} /\ UNCHANGED <<open, queueVars>>
    <3>1. Others(i) /\ Sound(i)' /\ queue'[i] = queue[i]
      BY <2>4, <2>6, Zenon DEF Others, OnlyPart, Sound, queueVars
    <3> QED
      BY <2>4, <2>6, <3>1, HiddenStep, Zenon DEF Seen
  <2> QED
    BY <1>1, <1>2, <2>1, <2>5, <2>6, <1>3, ZenonT(40)
<1> QED
  BY <1>1, <1>2, <1>3, Zenon

\* The ios that nobody writes to.
LEMMA ClosedSeen ==
    ASSUME WatchedInv, Frames, NEW i \in Io, i \in open, NEW done, CloseIo(i, done),
           UNCHANGED <<content, out>>
    PROVE  Seen
<1>1. Intact /\ OnlyPart(i)
  BY Zenon DEF Intact, OnlyPart, Frames, Whole
<1> QED
  BY <1>1, ClosedStep, Zenon DEF Seen

LEMMA ErrorSeen ==
    ASSUME WatchedInv, Packets, Frames, NEW i \in Io, WriteError(i)
    PROVE  Seen
<1>1. /\ queue[i] # <<>> /\ SocketFails(i, First(i), written[i]) /\ CloseIo(i, 1)
      /\ content' = content
  BY Zenon DEF WriteError, First
<1>2. First(i) \in Nat /\ i \in open
  BY <1>1, FirstPacket, Zenon
<1>3. i \notin dead => written[i] \in 0..(PacketLen - 1) /\ Begun(out[i], First(i), written[i])
  BY <1>2, Zenon DEF Frames, Sound
<1>4. OnlyPart(i) /\ Intact
  BY <1>1, <1>2, <1>3, FailedWrite, Zenon DEF Intact
<1> QED
  BY <1>1, <1>2, <1>4, ClosedStep, ZenonT(40) DEF Seen

LEMMA SendSeen ==
    ASSUME WatchedInv, RefInv, Packets, Frames, faults' = faults,
           NEW i \in Io, NEW kept \in BOOLEAN, Send(i, kept)
    PROVE  Seen
<1>1. i \in open
  BY Zenon DEF Send
<1>2. PICK b \in free :
        /\ Encode(b)
        /\ \/ WriteSync(i, npkt') /\ UNCHANGED open
           \/ (WriteQueued(i, b) \/ WriteBlocked(i, b, npkt')) /\ UNCHANGED open
           \/ WriteFails(i, npkt') /\ dead' = dead \cup {i} /\ UNCHANGED <<open, queueVars>>
           \/ WriteFails(i, npkt') /\ CloseIo(i, 0)
  BY Zenon DEF Send
<1>3. /\ content' = [content EXCEPT ![b] = npkt'] /\ content'[b] = npkt' /\ npkt' \in Packet
      /\ content' \in [Buf -> 0..MaxPackets] /\ b \in Buf
  BY <1>2, Encoded, Zenon DEF WatchedInv, WriteTypes
<1>4. Intact
  BY <1>3, FreshPacket, Zenon
<1> QED
  BY <1>1, <1>2, <1>3, <1>4, WriteSeen, ZenonT(40)

LEMMA SendPeerSeen ==
    ASSUME WatchedInv, Packets, Frames, faults' = faults, NEW i \in Io, SendPeer(i)
    PROVE  Seen
<1>1. /\ ctx.at = "send_peers" /\ i \in ctx.todo /\ content' = content /\ ctx.buf \in Buf
  BY Zenon DEF SendPeer, WatchedInv
<1>2. i \in open /\ content[ctx.buf] \in Packet /\ content' \in [Buf -> 0..MaxPackets]
  BY <1>1, Zenon DEF Packets
<1>3. \/ WriteSync(i, content[ctx.buf]) /\ UNCHANGED open
      \/ /\ WriteQueued(i, ctx.buf) \/ WriteBlocked(i, ctx.buf, content[ctx.buf])
         /\ UNCHANGED open
      \/ WriteFails(i, content[ctx.buf]) /\ CloseIo(i, 0)
  BY Zenon DEF SendPeer
<1>4. Intact
  BY <1>1, Zenon DEF Intact
<1> QED
  BY <1>1, <1>2, <1>3, <1>4, WriteSeen, ZenonT(40)

LEMMA StepSeen ==
    ASSUME WatchedInv, RefInv, Packets, Frames, faults' = faults, [Next]_vars
    PROVE  Seen
<1>quiet. ASSUME Intact, UNCHANGED <<open, queue, written, out>>, dead \subseteq dead' PROVE Seen
  BY <1>quiet, QuietStep, Zenon DEF Seen
<1>same. ASSUME UNCHANGED <<open, queue, written, out, content>>, dead \subseteq dead' PROVE Seen
  BY <1>same, <1>quiet, Zenon DEF Intact
<1>1. ASSUME NEW i \in Io, OpenIo(i) PROVE Seen
  <2>1. Intact
    BY <1>1, FreshPacket, Zenon DEF OpenIo
  <2> QED
    BY <1>1, <2>1, OpenedStep, Zenon DEF Seen
<1>2. ASSUME NEW i \in Io, DestroyIo(i) PROVE Seen
  BY <1>2, ClosedSeen, Zenon DEF DestroyIo
<1>3. ASSUME NEW i \in Io, SocketDies(i) PROVE Seen
  BY <1>3, <1>same, Zenon DEF SocketDies, queueVars
<1>4. ASSUME NEW i \in Io, NEW kept \in BOOLEAN, Send(i, kept) PROVE Seen
  BY <1>4, SendSeen, Zenon
<1>5. ASSUME NEW i \in Io, SendPeer(i) PROVE Seen
  BY <1>5, SendPeerSeen, Zenon
<1>6. ASSUME NEW todo \in SUBSET open, SendPeers(todo) PROVE Seen
  <2>1. PICK b \in free : Encode(b)
    BY <1>6, Zenon DEF SendPeers
  <2>2. Intact
    BY <2>1, Encoded, FreshPacket, ZenonT(40)
  <2> QED
    BY <1>6, <2>2, <1>quiet, ZenonT(40) DEF SendPeers, queueVars, socketVars
<1>7. CASE SendPeersEnd
  BY <1>7, <1>same, Zenon DEF SendPeersEnd, queueVars, socketVars
<1>8. ASSUME NEW i \in Io, WriteEvents(i) PROVE Seen
  BY <1>8, <1>same, Zenon DEF WriteEvents, socketVars
<1>9. ASSUME NEW i \in Io, WriteDone(i) PROVE Seen
  BY <1>9, PassStep, Zenon DEF Seen
<1>10. ASSUME NEW i \in Io, WriteAgain(i) PROVE Seen
  BY <1>10, AgainStep, Zenon DEF Seen
<1>11. ASSUME NEW i \in Io, WriteError(i) PROVE Seen
  BY <1>11, ErrorSeen, Zenon
<1>12. ASSUME NEW i \in Io, WriteEnd(i) PROVE Seen
  BY <1>12, <1>same, Zenon DEF WriteEnd, socketVars
<1>13. ASSUME NEW i \in Io, WriteGivenUp(i) PROVE Seen
  <2>1. CompleteFailed(i) /\ UNCHANGED <<content, out>>
    BY <1>13, Zenon DEF WriteGivenUp
  <2>2. CASE queue[i] # <<>>
    <3>1. CloseIo(i, 1) /\ i \in open
      BY <2>1, <2>2, Zenon DEF CompleteFailed, Packets
    <3> QED
      BY <2>1, <3>1, ClosedSeen, ZenonT(40)
  <2>3. CASE queue[i] = <<>>
    BY <2>1, <2>3, <1>same, ZenonT(40) DEF CompleteFailed
  <2> QED
    BY <2>2, <2>3, Zenon
<1>14. CASE UNCHANGED vars
  BY <1>14, <1>same, Zenon DEF vars, queueVars, socketVars
<1> QED
  BY <1>1, <1>2, <1>3, <1>4, <1>5, <1>6, <1>7, <1>8, <1>9, <1>10, <1>11, <1>12, <1>13, <1>14, Zenon
     DEF Next, WriteStep

LEMMA ChannelInit == Init => ChannelInv /\ Channel!Init
<1> SUFFICES ASSUME Init PROVE ChannelInv /\ Channel!Init
  BY Zenon
<1>1. /\ open = {} /\ queue = [i \in Io |-> <<>>] /\ content = [b \in Buf |-> 0]
      /\ out = [i \in Io |-> <<>>] /\ ctx = Loop /\ npkt = 0 /\ faults = 0
  BY Zenon DEF Init
<1>2. 0 \in 0..MaxPackets /\ <<>> \in Seq(Frame)
  BY IoAssumption, SMTT(30)
<1>3. Packets
  BY <1>1, <1>2, Contexts, Zenon DEF Packets
<1>4. Frames
  BY <1>1, <1>2, Zenon DEF Frames, Sound
<1>5. \A i \in Io : Whole(i) = <<>> /\ Waiting(i) = <<>>
  BY <1>1 DEF Whole, Waiting
<1> QED
  BY <1>1, <1>3, <1>4, <1>5, Zenon DEF ChannelInv, Channel!Init

LEMMA ChannelStep ==
    WatchedInv /\ RefInv /\ ChannelInv /\ [Next]_vars
        => ChannelInv' /\ [Channel!Next \/ faults' # 0]_(Channel!vars)
<1> SUFFICES ASSUME WatchedInv, RefInv, ChannelInv, [Next]_vars
             PROVE  ChannelInv' /\ (Channel!Next \/ faults' # 0 \/ UNCHANGED Channel!vars)
  BY Zenon
<1>1. Packets /\ Packets' /\ faults' \in {faults, faults + 1} /\ faults \in Nat
  BY PacketsStep, FaultsGrow, Zenon DEF ChannelInv, Packets
<1>2. CASE faults' # 0
  BY <1>1, <1>2, Zenon DEF ChannelInv
<1>3. CASE faults' = 0
  <2>1. faults = 0 /\ faults' = faults
    BY <1>1, <1>3
  <2>2. Seen
    BY <1>1, <2>1, StepSeen, Zenon DEF ChannelInv
  <2> QED
    BY <1>1, <2>2, Zenon DEF Seen, ChannelInv
<1> QED
  BY <1>2, <1>3, Zenon

\* obus_io_write and obus_io_write_events, with their partial writes and shared,
\* recycled buffers, implement channels that pass packets on whole, once and in
\* the order of the writes, until the first failed allocation or registration:
\* for any number of connections, buffers, packets and any packet length.
THEOREM ChannelCorrect == Spec => ChannelSpec
<1>1. Init => WatchedInv /\ RefInv /\ ChannelInv /\ Channel!Init
  BY WatchedInit, RefInit, ChannelInit, Zenon
<1>2. WatchedInv /\ RefInv /\ ChannelInv /\ [Next]_vars
        => /\ (WatchedInv /\ RefInv /\ ChannelInv)'
           /\ [Channel!Next \/ faults' # 0]_(Channel!vars)
  BY WatchedStep, RefStep, ChannelStep, Zenon
<1> QED
  BY <1>1, <1>2, PTL DEF Spec, ChannelSpec

=============================================================================
