--------------------------- MODULE ObusIoTheorems ---------------------------
(***************************************************************************)
(* The proofs about ObusIo, for any number of connections, buffers,        *)
(* packets and faults: a write queue is never left alone, and no buffer is *)
(* given back while somebody uses it.                                      *)
(***************************************************************************)
EXTENDS ObusIo, SequenceTheorems, FiniteSetTheorems, TLAPS

-----------------------------------------------------------------------------
(***************************************************************************)
(* Queues are watched.                                                     *)
(***************************************************************************)

\* The part of the state that the proof is about.
WriteTypes ==
    /\ queue \in [Io -> Seq(Buf)] /\ written \in [Io -> Int]
    /\ free \subseteq Buf
    /\ ctx.io \in Io \cup {None} /\ ctx.buf \in Buf \cup {None}
    /\ ctx.at \in {"loop", "send_peers", "write_events", "crashed"}
    /\ DOMAIN ctx = {"at", "io", "buf", "todo", "first"}

\* What makes Watched inductive: an io is exempt only while obus_io_write_events
\* runs for it, which has stopped its timer and leaves nothing half written when
\* it has emptied the queue.
WatchedInv ==
    /\ WriteTypes /\ Watched
    /\ ctx.at # "write_events" => ctx.io = None
    /\ ctx.at = "send_peers" => ctx.buf \in Buf
    /\ \A i \in Io : ctx.io = i => i \notin timer /\ (queue[i] = <<>> => written[i] = 0)

LEMMA Contexts ==
    /\ Loop.at = "loop" /\ Loop.io = None /\ Loop.buf = None
    /\ Crashed.at = "crashed" /\ Crashed.io = None /\ Crashed.buf = None
    /\ \A b, todo : Sending(b, todo).at = "send_peers" /\ Sending(b, todo).io = None
                    /\ Sending(b, todo).buf = b
    /\ \A i, first : Writing(i, first).at = "write_events" /\ Writing(i, first).io = i
                     /\ Writing(i, first).buf = None
    /\ DOMAIN Loop = {"at", "io", "buf", "todo", "first"}
    /\ DOMAIN Crashed = {"at", "io", "buf", "todo", "first"}
    /\ \A b, todo : DOMAIN Sending(b, todo) = {"at", "io", "buf", "todo", "first"}
    /\ \A i, first : DOMAIN Writing(i, first) = {"at", "io", "buf", "todo", "first"}
  BY Zenon DEF Loop, Crashed, Sending, Writing

LEMMA Longer == \A s \in Seq(Buf), b \in Buf : Append(s, b) \in Seq(Buf) /\ Append(s, b) # <<>>
  BY AppendProperties, EmptySeq

\* The queue, the timer and the descriptor after a packet had to wait.
LEMMA WaitingInv ==
    ASSUME WatchedInv, NEW i \in Io, NEW b \in Buf, NEW p,
           WriteQueued(i, b) \/ WriteBlocked(i, b, p),
           ctx.io = None, ctx'.io = None, free' \subseteq Buf,
           ctx'.buf \in Buf \cup {None}, DOMAIN ctx' = DOMAIN ctx,
           ctx'.at = ctx.at, ctx'.buf = ctx.buf
    PROVE  WatchedInv'
<1> USE DEF WatchedInv, WriteTypes, Watched
<1>1. None \notin Io
  BY IoAssumption, Zenon
<1>2. CASE WriteQueued(i, b)
  BY <1>1, <1>2, Longer, Zenon DEF WriteQueued
<1>3. CASE WriteBlocked(i, b, p)
  <2>1. PICK k \in 0..(PacketLen - 1) : written' = [written EXCEPT ![i] = k]
    BY <1>3, Zenon DEF WriteBlocked
  <2>2. k \in Int
    BY IoAssumption
  <2>3. <<b>> \in Seq(Buf) /\ <<b>> # <<>>
    OBVIOUS
  <2>4. /\ queue' = [queue EXCEPT ![i] = <<b>>] /\ timer' = timer \cup {i}
        /\ wfd' \in {wfd, wfd \cup {i}}
    BY <1>3, Zenon DEF WriteBlocked
  <2>5. written' \in [Io -> Int] /\ queue' \in [Io -> Seq(Buf)]
    BY <2>1, <2>2, <2>3, <2>4, Zenon
  <2> QED
    BY <1>1, <2>1, <2>3, <2>4, <2>5, Zenon
<1> QED
  BY <1>2, <1>3, Zenon

\* A destroyed io has no queue, no timer and no descriptor in the loop.
LEMMA ClosedInv ==
    ASSUME WatchedInv, NEW i \in Io, NEW done, CloseIo(i, done),
           ctx.io \in {i, None}, ctx'.io = None,
           ctx'.at \in {"loop", "crashed", ctx.at}, ctx'.at # "write_events",
           ctx'.buf \in {ctx.buf, None}, DOMAIN ctx' = DOMAIN ctx,
           ctx'.at = "send_peers" => ctx'.buf \in Buf
    PROVE  WatchedInv'
<1>1. None \notin Io
  BY IoAssumption, Zenon
<1>2. <<>> \in Seq(Buf)
  OBVIOUS
<1>3. /\ queue' = [queue EXCEPT ![i] = <<>>] /\ written' = [written EXCEPT ![i] = 0]
      /\ timer' = timer \ {i} /\ wfd' = wfd \ {i}
  BY Zenon DEF CloseIo
<1>4. free' \subseteq Buf
  BY Zenon DEF CloseIo, Unref, WatchedInv, WriteTypes
<1> QED
  BY <1>1, <1>2, <1>3, <1>4 DEF WatchedInv, WriteTypes, Watched

LEMMA WatchedInit == Init => WatchedInv
<1> SUFFICES ASSUME Init PROVE WatchedInv
  BY Zenon
<1>1. <<>> \in Seq(Buf)
  OBVIOUS
<1>2. None \notin Io
  BY IoAssumption, Zenon
<1> QED
  BY <1>1, <1>2, Contexts DEF Init, WatchedInv, WriteTypes, Watched

LEMMA WatchedStep == WatchedInv /\ [Next]_vars => WatchedInv'
<1> SUFFICES ASSUME WatchedInv, [Next]_vars PROVE WatchedInv'
  BY Zenon
<1>none. None \notin Io /\ None \notin Buf
  BY IoAssumption, Zenon
<1>same. ASSUME UNCHANGED <<queue, written, wfd, timer, ctx>>, free' \subseteq Buf
         PROVE  WatchedInv'
  BY <1>same, Zenon DEF WatchedInv, WriteTypes, Watched
<1>free. free \subseteq Buf
  BY Zenon DEF WatchedInv, WriteTypes
<1>1. ASSUME NEW i \in Io, OpenIo(i) PROVE WatchedInv'
  BY <1>1, <1>same, <1>free, Zenon DEF OpenIo, Peek, queueVars
<1>2. ASSUME NEW i \in Io, DestroyIo(i) PROVE WatchedInv'
  <2>1. CloseIo(i, 0) /\ ctx' = ctx /\ ctx = Loop
    BY <1>2, Zenon DEF DestroyIo
  <2> QED
    BY <2>1, ClosedInv, Contexts, Zenon
<1>3. ASSUME NEW i \in Io, SocketDies(i) PROVE WatchedInv'
  BY <1>3, <1>same, <1>free, Zenon DEF SocketDies, queueVars, poolVars
<1>4. ASSUME NEW i \in Io, NEW kept \in BOOLEAN, Send(i, kept) PROVE WatchedInv'
  <2>1. ctx = Loop /\ ctx' = ctx
    BY <1>4, Zenon DEF Send
  <2>2. PICK b \in free :
          \/ WriteSync(i, npkt') /\ UNCHANGED poolVars
          \/ (WriteQueued(i, b) \/ WriteBlocked(i, b, npkt')) /\ Peek(b, 2)
          \/ UNCHANGED queueVars /\ UNCHANGED poolVars
          \/ CloseIo(i, 0)
    BY <1>4, Zenon DEF Send
  <2>3. CASE (WriteSync(i, npkt') \/ UNCHANGED queueVars) /\ UNCHANGED poolVars
    BY <2>1, <2>3, <1>same, <1>free, Zenon DEF WriteSync, queueVars, poolVars
  <2>4. CASE CloseIo(i, 0)
    BY <2>1, <2>4, ClosedInv, Contexts, Zenon
  <2>5. CASE (WriteQueued(i, b) \/ WriteBlocked(i, b, npkt')) /\ Peek(b, 2)
    <3>1. b \in Buf /\ free' \subseteq Buf
      BY <2>5, <1>free, Zenon DEF Peek
    <3> QED
      BY <2>1, <2>5, <3>1, WaitingInv, Contexts, Zenon
  <2> QED
    BY <2>2, <2>3, <2>4, <2>5, Zenon
<1>5. ASSUME NEW i \in Io, SendPeer(i) PROVE WatchedInv'
  <2>1. /\ ctx.at = "send_peers" /\ ctx.io = None /\ ctx.buf \in Buf
        /\ ctx' = [ctx EXCEPT !.todo = @ \ {i}]
    BY <1>5, Zenon DEF SendPeer, WatchedInv
  <2>2. ctx'.at = ctx.at /\ ctx'.io = None /\ ctx'.buf = ctx.buf /\ DOMAIN ctx' = DOMAIN ctx
    BY <2>1, Zenon DEF WatchedInv, WriteTypes
  <2>3. \/ WriteSync(i, content[ctx.buf]) /\ UNCHANGED poolVars
        \/ /\ WriteQueued(i, ctx.buf) \/ WriteBlocked(i, ctx.buf, content[ctx.buf])
           /\ Peek(ctx.buf, refcnt[ctx.buf] + 2)
        \/ CloseIo(i, 0)
    BY <1>5, Zenon DEF SendPeer
  <2>4. CASE WriteSync(i, content[ctx.buf]) /\ UNCHANGED poolVars
    BY <2>1, <2>2, <2>4, Zenon DEF WriteSync, queueVars, poolVars, WatchedInv, WriteTypes, Watched
  <2>5. CASE CloseIo(i, 0)
    BY <2>1, <2>2, <2>5, ClosedInv, Zenon
  <2>6. CASE /\ WriteQueued(i, ctx.buf) \/ WriteBlocked(i, ctx.buf, content[ctx.buf])
             /\ Peek(ctx.buf, refcnt[ctx.buf] + 2)
    <3>1. free' \subseteq Buf
      BY <2>6, <1>free, Zenon DEF Peek
    <3> QED
      BY <2>1, <2>2, <2>6, <3>1, WaitingInv, Zenon
  <2> QED
    BY <2>3, <2>4, <2>5, <2>6, Zenon
<1>6. ASSUME NEW todo \in SUBSET open, SendPeers(todo) PROVE WatchedInv'
  <2>1. PICK b \in free : ctx' = Sending(b, todo) /\ Peek(b, 1)
    BY <1>6, Zenon DEF SendPeers
  <2>2. ctx = Loop /\ UNCHANGED queueVars
    BY <1>6, Zenon DEF SendPeers
  <2> QED
    BY <2>1, <2>2, <1>none, <1>free, Contexts
       DEF Peek, queueVars, WatchedInv, WriteTypes, Watched
<1>7. CASE SendPeersEnd
  <2>1. ctx' = Loop /\ ctx.at = "send_peers" /\ UNCHANGED queueVars
    BY <1>7, Zenon DEF SendPeersEnd
  <2>2. free' \subseteq Buf
    BY <1>7, <1>free, Zenon DEF SendPeersEnd, Unref
  <2> QED
    BY <2>1, <2>2, <1>none, Contexts DEF queueVars, WatchedInv, WriteTypes, Watched
<1>8. ASSUME NEW i \in Io, WriteEvents(i) PROVE WatchedInv'
  <2>1. /\ ctx = Loop /\ i \in wfd /\ timer' = timer \ {i} /\ ctx' = Writing(i, TRUE)
        /\ UNCHANGED <<queue, written, wfd, free>>
    BY <1>8, Zenon DEF WriteEvents, poolVars
  <2>2. queue[i] # <<>>
    BY <2>1, <1>none, Contexts DEF WatchedInv, Watched
  <2>3. /\ ctx'.io = i /\ ctx'.at = "write_events" /\ ctx'.buf = None
        /\ DOMAIN ctx' = {"at", "io", "buf", "todo", "first"}
    BY <2>1, Zenon DEF Writing, Loop
  <2>4. WriteTypes'
    BY <2>1, <2>2, <2>3, <1>none, Zenon DEF WatchedInv, WriteTypes
  <2>5. ASSUME NEW j \in Io, j # i
        PROVE  IF queue'[j] # <<>> THEN j \in timer' ELSE j \notin wfd' \cup timer' /\ written'[j] = 0
    BY <2>1, <2>5, <1>none, Contexts DEF WatchedInv, WriteTypes, Watched
  <2>6. Watched'
    BY <2>3, <2>5, Zenon DEF Watched
  <2>7. i \notin timer' /\ (queue'[i] = <<>> => written'[i] = 0)
    BY <2>1, <2>2, Zenon DEF WatchedInv, WriteTypes
  <2> QED
    BY <2>4, <2>3, <2>6, <2>7, Zenon DEF WatchedInv
<1>9. ASSUME NEW i \in Io, WriteDone(i) PROVE WatchedInv'
  <2>1. /\ ctx.io = i /\ queue[i] # <<>> /\ ctx' = Writing(i, FALSE)
        /\ queue' = [queue EXCEPT ![i] = Tail(@)] /\ written' = [written EXCEPT ![i] = 0]
        /\ UNCHANGED <<wfd, timer>>
    BY <1>9, Zenon DEF WriteDone
  <2>2. Tail(queue[i]) \in Seq(Buf)
    BY <2>1 DEF WatchedInv, WriteTypes
  <2>3. free' \subseteq Buf
    BY <1>9, <1>free, Zenon DEF WriteDone, Unref
  <2>4. /\ ctx'.io = i /\ ctx'.at = "write_events" /\ ctx'.buf = None
        /\ DOMAIN ctx' = {"at", "io", "buf", "todo", "first"}
    BY <2>1, Zenon DEF Writing, Loop
  <2>5. queue' \in [Io -> Seq(Buf)] /\ written' \in [Io -> Int]
    BY <2>1, <2>2 DEF WatchedInv, WriteTypes
  <2>6. WriteTypes'
    BY <2>5, <2>3, <2>4, Zenon DEF WriteTypes
  <2>7. ASSUME NEW j \in Io, j # i
        PROVE  IF queue'[j] # <<>> THEN j \in timer' ELSE j \notin wfd' \cup timer' /\ written'[j] = 0
    BY <2>1, <2>7, <1>none, Contexts DEF WatchedInv, WriteTypes, Watched
  <2>8. Watched'
    BY <2>4, <2>7, Zenon DEF Watched
  <2>9. i \notin timer' /\ (queue'[i] = <<>> => written'[i] = 0)
    BY <2>1, <2>2, <2>3, Zenon DEF WatchedInv, WriteTypes
  <2> QED
    BY <2>6, <2>4, <2>8, <2>9, Zenon DEF WatchedInv
<1>10. ASSUME NEW i \in Io, WriteAgain(i) PROVE WatchedInv'
  <2>1. /\ ctx.io = i /\ queue[i] # <<>> /\ ctx' = Loop /\ timer' = timer \cup {i}
        /\ UNCHANGED <<queue, wfd, free>>
    BY <1>10, Zenon DEF WriteAgain, poolVars
  <2>2. PICK k \in (IF ctx.first THEN 1 ELSE 0)..(PacketLen - written[i] - 1) :
          written' = [written EXCEPT ![i] = @ + k]
    BY <1>10, Zenon DEF WriteAgain
  <2>3. written' \in [Io -> Int]
    BY <2>2 DEF WatchedInv, WriteTypes
  <2> QED
    BY <2>1, <2>2, <2>3, <1>none, Contexts DEF WatchedInv, WriteTypes, Watched
<1>11. ASSUME NEW i \in Io, WriteError(i) PROVE WatchedInv'
  <2>1. ctx.io = i /\ CloseIo(i, 1) /\ ctx' \in {Loop, Crashed}
    BY <1>11, Zenon DEF WriteError
  <2>2. DOMAIN ctx' = DOMAIN ctx
    BY <2>1, Contexts, Zenon DEF WatchedInv, WriteTypes
  <2> QED
    BY <2>1, <2>2, ClosedInv, Contexts, Zenon
<1>12. ASSUME NEW i \in Io, WriteEnd(i) PROVE WatchedInv'
  <2>1. /\ ctx.io = i /\ queue[i] = <<>> /\ ctx' = Loop /\ wfd' = wfd \ {i}
        /\ UNCHANGED <<queue, written, timer, free>>
    BY <1>12, Zenon DEF WriteEnd, poolVars
  <2> QED
    BY <2>1, <1>none, Contexts DEF WatchedInv, WriteTypes, Watched
<1>13. ASSUME NEW i \in Io, WriteGivenUp(i) PROVE WatchedInv'
  <2>1. ctx = Loop /\ ctx' = ctx /\ CompleteFailed(i)
    BY <1>13, Zenon DEF WriteGivenUp
  <2>2. CASE queue[i] # <<>>
    BY <2>1, <2>2, ClosedInv, Contexts, Zenon DEF CompleteFailed
  <2>3. CASE queue[i] = <<>>
    <3>1. timer' = timer \ {i} /\ UNCHANGED <<queue, written, wfd, free>>
      BY <2>1, <2>3, Zenon DEF CompleteFailed, poolVars
    <3> QED
      BY <2>1, <2>3, <3>1, Zenon DEF WatchedInv, WriteTypes, Watched
  <2> QED
    BY <2>2, <2>3, Zenon
<1>14. CASE UNCHANGED vars
  BY <1>14, <1>same, <1>free, Zenon DEF vars, queueVars, poolVars
<1> QED
  BY <1>1, <1>2, <1>3, <1>4, <1>5, <1>6, <1>7, <1>8, <1>9, <1>10, <1>11, <1>12, <1>13, <1>14, Zenon
     DEF Next, WriteStep

\* Between two events every io with a queue has its write timer running, and one
\* without a queue is not in the loop for writing and has nothing half written:
\* for any number of connections and buffers, partial writes and faults.
THEOREM WatchedCorrect == Spec => []Watched
<1>1. WatchedInv => Watched
  BY Zenon DEF WatchedInv
<1> QED
  BY <1>1, WatchedInit, WatchedStep, PTL DEF Spec

-----------------------------------------------------------------------------
(***************************************************************************)
(* Buffers are not reused.                                                 *)
(***************************************************************************)

Holders(b) == {i \in Io : Queued(i, b)}

\* The references that the queues and a broadcast have to a buffer: the io and
\* the completion callback give back one each.
Held(b) == 2 * Cardinality(Holders(b)) + (IF ctx.buf = b THEN 1 ELSE 0)

\* A buffer is at most once in a queue.
Distinct ==
    \A i \in Io : \A j, l \in 1..Len(queue[i]) : queue[i][j] = queue[i][l] => j = l

\* A decoder shares its buffer with nobody.
DecoderAlone(i) ==
    /\ refcnt[rx[i]] >= 1 /\ rx[i] # ctx.buf
    /\ \A x \in Io : ~Queued(x, rx[i]) /\ (x # i => rx[x] # rx[i])

\* What makes NotReused inductive.  A buffer may have more references than are
\* held, since obus_io_destroy only gives back one per queued buffer.
RefInv ==
    /\ open \subseteq Io /\ refcnt \in [Buf -> Nat] /\ rx \in [Io -> Buf \cup {None}]
    /\ \A b \in Buf : (b \in free <=> refcnt[b] = 0) /\ Held(b) <= refcnt[b]
    /\ Distinct
    /\ \A i \in Io : rx[i] # None => DecoderAlone(i)
    /\ ctx.at = "send_peers" => \A i \in ctx.todo : i \in Io /\ ~Queued(i, ctx.buf)
    /\ ctx.at # "send_peers" => ctx.buf = None

LEMMA HoldersFinite ==
    \A b : IsFiniteSet(Holders(b)) /\ Cardinality(Holders(b)) \in Nat
<1> TAKE b
<1>1. Holders(b) \subseteq Io
  BY Zenon DEF Holders
<1> QED
  BY <1>1, IoAssumption, FS_Subset, FS_CardinalityType, Zenon

LEMMA HeldNat == \A b : Held(b) \in Nat /\ (Held(b) = 0 => Holders(b) = {} /\ ctx.buf # b)
<1> TAKE b
<1>1. IsFiniteSet(Holders(b)) /\ Cardinality(Holders(b)) \in Nat
  BY HoldersFinite, Zenon
<1>2. Cardinality(Holders(b)) = 0 <=> Holders(b) = {}
  BY <1>1, FS_EmptySet, Zenon
<1> QED
  BY <1>1, <1>2 DEF Held

\* What nobody uses is all that may be in the pool.
LEMMA RefImplies == WatchedInv /\ RefInv => NotReused
<1> SUFFICES ASSUME WatchedInv, RefInv, NEW b \in free
             PROVE  b # ctx.buf /\ \A i \in Io : b # rx[i] /\ ~Queued(i, b)
  BY Zenon DEF NotReused, RefInv
<1>1. b \in Buf /\ refcnt[b] = 0 /\ Held(b) <= refcnt[b]
  BY Zenon DEF WatchedInv, WriteTypes, RefInv
<1>2. Held(b) \in Nat /\ (Held(b) = 0 => Holders(b) = {} /\ ctx.buf # b)
  BY HeldNat, Zenon
<1>3. Holders(b) = {} /\ ctx.buf # b
  BY <1>1, <1>2
<1>4. ASSUME NEW i \in Io, b = rx[i] PROVE FALSE
  BY <1>1, <1>4, IoAssumption DEF RefInv, DecoderAlone
<1> QED
  BY <1>3, <1>4, Zenon DEF Holders

LEMMA QueuedAppend ==
    ASSUME queue \in [Io -> Seq(Buf)], NEW i \in Io, NEW b \in Buf,
           queue' = [queue EXCEPT ![i] = Append(@, b)]
    PROVE  \A x \in Io : \A c : Queued(x, c)' <=> Queued(x, c) \/ (x = i /\ c = b)
<1> TAKE x \in Io
<1> TAKE c
<1>1. CASE x # i
  BY <1>1, Zenon DEF Queued
<1>2. CASE x = i
  <2>1. /\ Len(queue'[i]) = Len(queue[i]) + 1 /\ Len(queue[i]) \in Nat
        /\ \A j \in 1..Len(queue[i]) : queue'[i][j] = queue[i][j]
        /\ queue'[i][Len(queue[i]) + 1] = b
    BY AppendProperties, LenProperties
  <2> QED
    BY <1>2, <2>1 DEF Queued
<1> QED
  BY <1>1, <1>2, Zenon

LEMMA QueuedTail ==
    ASSUME queue \in [Io -> Seq(Buf)], Distinct, NEW i \in Io, queue[i] # <<>>,
           queue' = [queue EXCEPT ![i] = Tail(@)]
    PROVE  /\ \A x \in Io : \A c : Queued(x, c)' <=> Queued(x, c) /\ (x = i => c # Head(queue[i]))
           /\ Distinct'
<1>1. /\ Len(queue[i]) \in Nat \ {0} /\ Len(queue'[i]) = Len(queue[i]) - 1
      /\ Head(queue[i]) = queue[i][1]
      /\ \A j \in 1..Len(queue'[i]) : queue'[i][j] = queue[i][j + 1]
  BY HeadTailProperties, LenProperties, EmptySeq
<1>2. ASSUME NEW c PROVE Queued(i, c)' <=> Queued(i, c) /\ c # Head(queue[i])
  <2>1. ASSUME Queued(i, c)' PROVE Queued(i, c) /\ c # Head(queue[i])
    <3>1. PICK j \in 1..Len(queue'[i]) : queue'[i][j] = c
      BY <2>1, Zenon DEF Queued
    <3>2. j + 1 \in 1..Len(queue[i]) /\ queue[i][j + 1] = c /\ 1 \in 1..Len(queue[i]) /\ j + 1 # 1
      BY <1>1, <3>1
    <3> QED
      BY <1>1, <3>2, Zenon DEF Queued, Distinct
  <2>2. ASSUME Queued(i, c), c # Head(queue[i]) PROVE Queued(i, c)'
    <3>1. PICK j \in 1..Len(queue[i]) : queue[i][j] = c
      BY <2>2, Zenon DEF Queued
    <3>2. j - 1 \in 1..Len(queue'[i]) /\ queue'[i][j - 1] = c
      BY <1>1, <2>2, <3>1
    <3> QED
      BY <3>2, Zenon DEF Queued
  <2> QED
    BY <2>1, <2>2, Zenon
<1>3. ASSUME NEW x \in Io, x # i, NEW c PROVE Queued(x, c)' <=> Queued(x, c)
  BY <1>3, Zenon DEF Queued
<1>4. Distinct'
  <2> SUFFICES ASSUME NEW x \in Io, NEW j \in 1..Len(queue'[x]), NEW l \in 1..Len(queue'[x]),
                      queue'[x][j] = queue'[x][l]
               PROVE  j = l
    BY Zenon DEF Distinct
  <2>1. CASE x # i
    BY <2>1, Zenon DEF Distinct
  <2>2. CASE x = i
    <3>1. /\ j + 1 \in 1..Len(queue[i]) /\ l + 1 \in 1..Len(queue[i])
          /\ queue[i][j + 1] = queue[i][l + 1]
      BY <1>1, <2>2
    <3>2. j + 1 = l + 1
      BY <3>1, Zenon DEF Distinct
    <3> QED
      BY <3>2
  <2> QED
    BY <2>1, <2>2, Zenon
<1> QED
  BY <1>2, <1>3, <1>4, Zenon

LEMMA DistinctAppend ==
    ASSUME queue \in [Io -> Seq(Buf)], Distinct, NEW i \in Io, NEW b \in Buf, ~Queued(i, b),
           queue' = [queue EXCEPT ![i] = Append(@, b)]
    PROVE  Distinct'
<1>1. /\ Len(queue'[i]) = Len(queue[i]) + 1 /\ Len(queue[i]) \in Nat
      /\ \A j \in 1..Len(queue[i]) : queue'[i][j] = queue[i][j]
      /\ queue'[i][Len(queue[i]) + 1] = b
  BY AppendProperties, LenProperties
<1> SUFFICES ASSUME NEW x \in Io, NEW j \in 1..Len(queue'[x]), NEW l \in 1..Len(queue'[x]),
                    queue'[x][j] = queue'[x][l]
             PROVE  j = l
  BY Zenon DEF Distinct
<1>2. CASE x # i
  BY <1>2, Zenon DEF Distinct
<1>3. CASE x = i
  <2>1. CASE j \in 1..Len(queue[i]) /\ l \in 1..Len(queue[i])
    BY <1>1, <1>3, <2>1, Zenon DEF Distinct
  <2>2. CASE j \in 1..Len(queue[i]) /\ l = Len(queue[i]) + 1
    BY <1>1, <1>3, <2>2, Zenon DEF Queued
  <2>3. CASE l \in 1..Len(queue[i]) /\ j = Len(queue[i]) + 1
    BY <1>1, <1>3, <2>3, Zenon DEF Queued
  <2> QED
    BY <1>1, <1>3, <2>1, <2>2, <2>3
<1> QED
  BY <1>2, <1>3, Zenon

\* How many of the queues hold a buffer after one of them has taken or lost it.
LEMMA HoldersChange ==
    ASSUME NEW i \in Io, NEW c
    PROVE  /\ Holders(c)' = Holders(c) \cup {i} /\ i \notin Holders(c)
                => Cardinality(Holders(c)') = Cardinality(Holders(c)) + 1
           /\ Holders(c)' = Holders(c) \ {i} /\ i \in Holders(c)
                => Cardinality(Holders(c)') = Cardinality(Holders(c)) - 1
  BY HoldersFinite, FS_AddElement, FS_RemoveElement

\* References that are given back.
LEMMA UnrefKeeps ==
    ASSUME WatchedInv, RefInv, NEW drop \in [Buf -> Nat], Unref(drop),
           \A b \in Buf : drop[b] <= refcnt[b]
    PROVE  /\ refcnt' \in [Buf -> Nat] /\ free' \subseteq Buf
           /\ \A b \in Buf : (b \in free' <=> refcnt'[b] = 0) /\ refcnt'[b] = refcnt[b] - drop[b]
<1>1. free \subseteq Buf /\ refcnt \in [Buf -> Nat] /\ \A b \in Buf : b \in free <=> refcnt[b] = 0
  BY Zenon DEF RefInv, WatchedInv, WriteTypes
<1>2. \A b \in Buf : refcnt'[b] = refcnt[b] - drop[b] /\ refcnt[b] - drop[b] \in Nat
  BY <1>1 DEF Unref
<1>3. refcnt' \in [Buf -> Nat]
  BY <1>2, Zenon DEF Unref
<1>4. free' = free \cup {b \in Buf : drop[b] # 0 /\ drop[b] = refcnt[b]}
  BY Zenon DEF Unref
<1> QED
  BY <1>1, <1>2, <1>3, <1>4

LEMMA Positions ==
    ASSUME queue \in [Io -> Seq(Buf)], Distinct, NEW i \in Io, NEW b
    PROVE  Cardinality({j \in 1..Len(queue[i]) : queue[i][j] = b}) = IF Queued(i, b) THEN 1 ELSE 0
<1> DEFINE at == {j \in 1..Len(queue[i]) : queue[i][j] = b}
<1>1. CASE ~Queued(i, b)
  <2>1. at = {}
    BY <1>1, Zenon DEF Queued
  <2> QED
    BY <1>1, <2>1, FS_EmptySet, Zenon
<1>2. CASE Queued(i, b)
  <2>1. PICK j \in 1..Len(queue[i]) : queue[i][j] = b
    BY <1>2, Zenon DEF Queued
  <2>2. at = {j}
    BY <2>1, Zenon DEF Distinct
  <2> QED
    BY <1>2, <2>2, FS_Singleton, Zenon
<1> QED
  BY <1>1, <1>2, Zenon

\* The loop goes on with the same buffer, or without one as before.
SameBuffer ==
    /\ ctx'.buf = ctx.buf
    /\ ctx'.at = "send_peers" <=> ctx.at = "send_peers"
    /\ ctx'.at = "send_peers" => ctx'.todo \subseteq ctx.todo

LEMMA RefSame ==
    ASSUME WatchedInv, RefInv, SameBuffer, open' \subseteq Io,
           UNCHANGED <<queue, rx, refcnt, free>>
    PROVE  RefInv'
<1>1. \A x, c : Queued(x, c)' <=> Queued(x, c)
  BY Zenon DEF Queued
<1>2. \A c : Held(c)' = Held(c)
  BY <1>1, Zenon DEF Held, Holders, SameBuffer
<1>3. Distinct'
  BY Zenon DEF RefInv, Distinct
<1>4. ASSUME NEW i \in Io, rx'[i] # None PROVE DecoderAlone(i)'
  BY <1>1, <1>4, Zenon DEF RefInv, DecoderAlone, SameBuffer
<1> QED
  BY <1>1, <1>2, <1>3, <1>4, Zenon DEF RefInv, SameBuffer

\* A buffer goes to the end of a queue with two references.
LEMMA RefHeld ==
    ASSUME WatchedInv, RefInv, SameBuffer, NEW i \in Io, NEW b \in Buf,
           ~Queued(i, b), \A x \in Io : rx[x] # b,
           queue' = [queue EXCEPT ![i] = Append(@, b)], UNCHANGED <<open, rx>>,
           Peek(b, refcnt[b] + 2),
           ctx'.at = "send_peers" => b # ctx.buf \/ i \notin ctx'.todo
    PROVE  RefInv'
<1>1. queue \in [Io -> Seq(Buf)] /\ refcnt \in [Buf -> Nat] /\ free \subseteq Buf
  BY Zenon DEF WatchedInv, WriteTypes, RefInv
<1>2. \A x \in Io : \A c : Queued(x, c)' <=> Queued(x, c) \/ (x = i /\ c = b)
  BY <1>1, QueuedAppend, Zenon
<1>3. Distinct'
  BY <1>1, DistinctAppend, Zenon DEF RefInv
<1>4. /\ refcnt' \in [Buf -> Nat] /\ refcnt'[b] = refcnt[b] + 2
      /\ \A c \in Buf : c # b => refcnt'[c] = refcnt[c]
      /\ free' = free \ {b}
  BY <1>1 DEF Peek
<1>5. ASSUME NEW c \in Buf PROVE (c \in free' <=> refcnt'[c] = 0) /\ Held(c)' <= refcnt'[c]
  <2>1. Held(c) <= refcnt[c] /\ (c \in free <=> refcnt[c] = 0) /\ Held(c) \in Nat /\ refcnt[c] \in Nat
    BY <1>1, HeldNat, Zenon DEF RefInv
  <2>2. CASE c # b
    <3>1. Holders(c)' = Holders(c)
      BY <1>2, <2>2, Zenon DEF Holders
    <3>2. Held(c)' = Held(c)
      BY <3>1, Zenon DEF Held, SameBuffer
    <3> QED
      BY <1>4, <2>1, <2>2, <3>2, Zenon
  <2>3. CASE c = b
    <3>1. Holders(c)' = Holders(c) \cup {i} /\ i \notin Holders(c)
      BY <1>2, <2>3, Zenon DEF Holders
    <3>2. Cardinality(Holders(c)') = Cardinality(Holders(c)) + 1
      BY <3>1, HoldersChange, Zenon
    <3>3. Held(c)' = Held(c) + 2
      BY <3>2, HoldersFinite DEF Held, SameBuffer
    <3> QED
      BY <1>4, <2>1, <2>3, <3>3
  <2> QED
    BY <2>2, <2>3, Zenon
<1>6. ASSUME NEW x \in Io, rx'[x] # None PROVE DecoderAlone(x)'
  <2>1. DecoderAlone(x) /\ rx[x] \in Buf /\ rx[x] # b
    BY <1>6, Zenon DEF RefInv
  <2> QED
    BY <1>2, <1>4, <2>1, Zenon DEF DecoderAlone, SameBuffer
<1>7. ASSUME ctx'.at = "send_peers", NEW x \in ctx'.todo PROVE x \in Io /\ ~Queued(x, ctx.buf)'
  <2>1. x \in Io /\ ~Queued(x, ctx.buf) /\ (x = i => b # ctx.buf)
    BY <1>7, Zenon DEF SameBuffer, RefInv
  <2>2. Queued(x, ctx.buf)' => \E j \in 1..Len(queue'[x]) : queue'[x][j] = ctx.buf
    BY Zenon DEF Queued, SameBuffer
  <2>3. CASE x = i
    <3>1. /\ Len(queue'[i]) = Len(queue[i]) + 1 /\ Len(queue[i]) \in Nat
          /\ \A j \in 1..Len(queue[i]) : queue'[i][j] = queue[i][j]
          /\ queue'[i][Len(queue[i]) + 1] = b
      BY <1>1, AppendProperties, LenProperties
    <3> QED
      BY <2>1, <2>2, <2>3, <3>1 DEF Queued
  <2>4. CASE x # i
    <3>1. queue'[x] = queue[x]
      BY <1>1, <2>1, <2>4, Zenon
    <3> QED
      BY <2>1, <2>2, <3>1, Zenon DEF Queued
  <2> QED
    BY <2>1, <2>3, <2>4, Zenon
<1>8. open' \subseteq Io /\ rx' \in [Io -> Buf \cup {None}] /\ (ctx'.at # "send_peers" => ctx'.buf = None)
  BY Zenon DEF RefInv, SameBuffer
<1> QED
  BY <1>3, <1>4, <1>5, <1>6, <1>7, <1>8, Zenon DEF RefInv

\* References are given back: those of a queue that has lost buffers, of a
\* decoder, of a broadcast that has ended.
LEMMA RefDropped ==
    ASSUME WatchedInv, RefInv, NEW drop \in [Buf -> Nat], Unref(drop),
           \A c \in Buf : drop[c] <= refcnt[c] /\ Held(c)' <= refcnt[c] - drop[c],
           \A x \in Io : \A c : Queued(x, c)' => Queued(x, c),
           Distinct', open' \subseteq Io, rx' \in [Io -> Buf \cup {None}],
           \A x \in Io : rx'[x] # None => rx'[x] = rx[x] /\ drop[rx[x]] = 0,
           ctx'.at = "send_peers" => SameBuffer,
           ctx'.at # "send_peers" => ctx'.buf = None
    PROVE  RefInv'
<1>1. /\ refcnt' \in [Buf -> Nat]
      /\ \A b \in Buf : (b \in free' <=> refcnt'[b] = 0) /\ refcnt'[b] = refcnt[b] - drop[b]
  BY UnrefKeeps, Zenon
<1>2. refcnt \in [Buf -> Nat] /\ rx \in [Io -> Buf \cup {None}] /\ None \notin Buf
  BY IoAssumption, Zenon DEF RefInv
<1>3. \A c \in Buf : Held(c)' <= refcnt'[c]
  BY <1>1, Zenon
<1>4. ASSUME NEW i \in Io, rx'[i] # None PROVE DecoderAlone(i)'
  <2>1. DecoderAlone(i) /\ rx[i] \in Buf /\ rx'[i] = rx[i] /\ drop[rx[i]] = 0
    BY <1>2, <1>4, Zenon DEF RefInv
  <2>2. refcnt'[rx'[i]] >= 1
    BY <1>1, <1>2, <2>1, SMTT(30) DEF DecoderAlone
  <2>3. rx'[i] # ctx'.buf
    BY <1>2, <2>1, Zenon DEF DecoderAlone, SameBuffer
  <2>4. ASSUME NEW x \in Io PROVE ~Queued(x, rx[i])' /\ (x # i => rx'[x] # rx'[i])
    <3>1. ~Queued(x, rx[i]) /\ (x # i => rx[x] # rx[i])
      BY <2>1, Zenon DEF DecoderAlone
    <3>2. x # i => rx'[x] # rx'[i]
      BY <3>1, <2>1, <1>4, Zenon
    <3>3. ASSUME NEW c, c = rx[i] PROVE ~Queued(x, c)'
      BY <3>1, <3>3, Zenon
    <3>4. ASSUME NEW j \in 1..Len(queue'[x]), queue'[x][j] = rx'[i] PROVE FALSE
      BY <3>3, <3>4, <2>1, Zenon DEF Queued
    <3> QED
      BY <3>2, <3>4, Zenon DEF Queued
  <2> QED
    BY <2>2, <2>3, <2>4, Zenon DEF DecoderAlone
<1>5. ASSUME ctx'.at = "send_peers", NEW x \in ctx'.todo PROVE x \in Io /\ ~Queued(x, ctx.buf)'
  <2>1. x \in Io /\ ~Queued(x, ctx.buf) /\ ctx'.buf = ctx.buf
    BY <1>5, Zenon DEF SameBuffer, RefInv
  <2>2. ASSUME NEW c, c = ctx.buf PROVE ~Queued(x, c)'
    BY <2>1, <2>2, Zenon
  <2>3. ASSUME NEW j \in 1..Len(queue'[x]), queue'[x][j] = ctx'.buf PROVE FALSE
    BY <2>1, <2>2, <2>3, Zenon DEF Queued
  <2> QED
    BY <2>1, <2>3, Zenon DEF Queued
<1> QED
  BY <1>1, <1>3, <1>4, <1>5, Zenon DEF RefInv

\* An io is destroyed.
LEMMA RefClosed ==
    ASSUME WatchedInv, RefInv, SameBuffer, NEW i \in Io, NEW done \in {0, 1}, CloseIo(i, done)
    PROVE  RefInv'
<1> DEFINE drop == [b \in Buf |-> Cardinality({j \in 1..Len(queue[i]) : queue[i][j] = b})
                                  + (IF queue[i] # <<>> /\ b = queue[i][1] THEN done ELSE 0)
                                  + (IF b = rx[i] THEN 1 ELSE 0)]
<1>1. /\ queue \in [Io -> Seq(Buf)] /\ refcnt \in [Buf -> Nat] /\ rx \in [Io -> Buf \cup {None}]
      /\ None \notin Buf /\ Distinct
  BY IoAssumption, Zenon DEF WatchedInv, WriteTypes, RefInv
<1>2. Unref(drop) /\ queue' = [queue EXCEPT ![i] = <<>>] /\ rx' = [rx EXCEPT ![i] = None]
  BY Zenon DEF CloseIo
<1>3. \A x \in Io : \A c : Queued(x, c)' <=> Queued(x, c) /\ x # i
  BY <1>1, <1>2 DEF Queued
<1>4. queue[i] # <<>> => Queued(i, queue[i][1])
  <2>1. queue[i] # <<>> => Len(queue[i]) \in Nat \ {0}
    BY <1>1, LenProperties, EmptySeq, Zenon
  <2> QED
    BY <2>1 DEF Queued
<1>5. ASSUME NEW b \in Buf
      PROVE  /\ Queued(i, b) => drop[b] \in {1, 1 + done} /\ b # rx[i]
             /\ ~Queued(i, b) => drop[b] = IF b = rx[i] THEN 1 ELSE 0
  <2>1. Cardinality({j \in 1..Len(queue[i]) : queue[i][j] = b}) = IF Queued(i, b) THEN 1 ELSE 0
    BY <1>1, Positions, Zenon
  <2>2. b = rx[i] => ~Queued(i, b)
    BY <1>1, Zenon DEF RefInv, DecoderAlone
  <2> QED
    BY <1>4, <2>1, <2>2
<1>6. drop \in [Buf -> Nat]
  BY <1>5
<1>7. ASSUME NEW c \in Buf PROVE drop[c] <= refcnt[c] /\ Held(c)' <= refcnt[c] - drop[c]
  <2>1. Held(c) <= refcnt[c] /\ Held(c) \in Nat /\ refcnt[c] \in Nat /\ Cardinality(Holders(c)) \in Nat
    BY <1>1, HeldNat, HoldersFinite, Zenon DEF RefInv
  <2>2. CASE Queued(i, c)
    <3>1. Holders(c)' = Holders(c) \ {i} /\ i \in Holders(c)
      BY <1>3, <2>2, Zenon DEF Holders
    <3>2. Cardinality(Holders(c)') = Cardinality(Holders(c)) - 1
      BY <3>1, HoldersChange, Zenon
    <3>3. Held(c)' = Held(c) - 2
      BY <2>1, <3>2, SMTT(30) DEF Held, SameBuffer
    <3>4. Held(c)' \in Nat
      BY HeldNat, HoldersFinite, <3>2, <2>1, <3>3, <3>1, FS_EmptySet, SMTT(30) DEF Held
    <3> QED
      BY <1>5, <2>1, <2>2, <3>3, <3>4, SMTT(30)
  <2>3. CASE ~Queued(i, c)
    <3>1. Holders(c)' = Holders(c)
      BY <1>3, <2>3, Zenon DEF Holders
    <3>2. Held(c)' = Held(c)
      BY <3>1, Zenon DEF Held, SameBuffer
    <3>3. CASE c # rx[i]
      BY <1>5, <2>1, <2>3, <3>2, <3>3, SMTT(30)
    <3>4. CASE c = rx[i]
      <4>1. DecoderAlone(i)
        BY <1>1, <3>4, Zenon DEF RefInv
      <4>2. Holders(c) = {} /\ ctx.buf # c /\ refcnt[c] >= 1
        BY <3>4, <4>1, Zenon DEF DecoderAlone, Holders
      <4>3. Held(c) = 0
        BY <4>2, FS_EmptySet DEF Held
      <4> QED
        BY <1>5, <2>1, <2>3, <3>2, <3>4, <4>2, <4>3, SMTT(30)
    <3> QED
      BY <3>3, <3>4, Zenon
  <2> QED
    BY <2>2, <2>3, Zenon
<1>8. Distinct'
  <2> SUFFICES ASSUME NEW x \in Io, NEW j \in 1..Len(queue'[x]), NEW l \in 1..Len(queue'[x]),
                      queue'[x][j] = queue'[x][l]
               PROVE  j = l
    BY Zenon DEF Distinct
  <2> QED
    BY <1>1, <1>2 DEF Distinct
<1>9. ASSUME NEW x \in Io, rx'[x] # None PROVE rx'[x] = rx[x] /\ drop[rx[x]] = 0
  <2>1. x # i /\ rx'[x] = rx[x] /\ rx[x] \in Buf /\ DecoderAlone(x)
    BY <1>1, <1>2, <1>9, Zenon DEF RefInv
  <2>2. ~Queued(i, rx[x]) /\ rx[x] # rx[i]
    BY <2>1, Zenon DEF DecoderAlone
  <2> QED
    BY <1>5, <2>1, <2>2, Zenon
<1>10. rx' \in [Io -> Buf \cup {None}] /\ open' \subseteq Io
  BY <1>1, <1>2, Zenon DEF CloseIo, RefInv
<1>11. ctx'.at # "send_peers" => ctx'.buf = None
  BY Zenon DEF RefInv, SameBuffer
<1> HIDE DEF drop
<1> QED
  BY <1>2, <1>3, <1>6, <1>7, <1>8, <1>9, <1>10, <1>11, RefDropped, Zenon

\* A packet had to wait: its buffer is the last of the queue.
LEMMA WaitingQueue ==
    ASSUME WatchedInv, NEW i \in Io, NEW b \in Buf, NEW p, WriteQueued(i, b) \/ WriteBlocked(i, b, p)
    PROVE  queue' = [queue EXCEPT ![i] = Append(@, b)]
<1>1. Append(<<>>, b) = <<b>>
  OBVIOUS
<1> QED
  BY <1>1, Zenon DEF WriteQueued, WriteBlocked

\* A buffer of the pool is held by nobody.
LEMMA FreeBuffer ==
    ASSUME WatchedInv, RefInv, NEW b \in free
    PROVE  /\ b \in Buf /\ refcnt[b] = 0 /\ b # ctx.buf
           /\ \A i \in Io : rx[i] # b /\ ~Queued(i, b)
  BY RefImplies, Zenon DEF NotReused, WatchedInv, WriteTypes

LEMMA RefInit == Init => RefInv
<1> SUFFICES ASSUME Init PROVE RefInv
  BY Zenon
<1>1. /\ open = {} /\ queue = [i \in Io |-> <<>>] /\ rx = [i \in Io |-> None]
      /\ refcnt = [b \in Buf |-> 0] /\ free = Buf /\ ctx = Loop
  BY Zenon DEF Init
<1>2. \A i \in Io : \A b : ~Queued(i, b)
  BY <1>1 DEF Queued
<1>3. Distinct
  BY <1>1 DEF Distinct
<1>4. ASSUME NEW b \in Buf PROVE Held(b) = 0
  <2>1. Holders(b) = {} /\ ctx.buf # b
    BY <1>1, <1>2, Contexts, IoAssumption DEF Holders
  <2> QED
    BY <2>1, FS_EmptySet, SMTT(30) DEF Held
<1> QED
  BY <1>1, <1>3, <1>4, Contexts DEF RefInv

\* A free buffer is taken for a decoder or for a broadcast.
LEMMA RefPeeked ==
    ASSUME WatchedInv, RefInv, ctx.buf = None, NEW b \in free, Peek(b, 1), queue' = queue,
           open' \subseteq Io,
           \/ /\ ctx' = ctx
              /\ \E i \in Io : rx' = [rx EXCEPT ![i] = b]
           \/ /\ rx' = rx
              /\ \E todo \in SUBSET Io : ctx' = Sending(b, todo)
    PROVE  RefInv'
<1>1. /\ b \in Buf /\ refcnt[b] = 0 /\ \A i \in Io : rx[i] # b /\ ~Queued(i, b)
      /\ refcnt \in [Buf -> Nat] /\ free \subseteq Buf /\ rx \in [Io -> Buf \cup {None}]
      /\ None \notin Buf
  BY FreeBuffer, IoAssumption, Zenon DEF RefInv, WatchedInv, WriteTypes
<1>2. /\ refcnt' \in [Buf -> Nat] /\ refcnt'[b] = 1
      /\ \A c \in Buf : c # b => refcnt'[c] = refcnt[c]
      /\ free' = free \ {b}
  BY <1>1, Zenon DEF Peek
<1>3. \A x, c : Queued(x, c)' <=> Queued(x, c)
  BY Zenon DEF Queued
<1>4. Distinct'
  BY Zenon DEF RefInv, Distinct
<1>5. ctx'.buf \in {b, None}
  BY Contexts
<1>6. ASSUME NEW c \in Buf PROVE (c \in free' <=> refcnt'[c] = 0) /\ Held(c)' <= refcnt'[c]
  <2>1. /\ Held(c) <= refcnt[c] /\ (c \in free <=> refcnt[c] = 0) /\ Held(c) \in Nat
        /\ refcnt[c] \in Nat /\ Cardinality(Holders(c)) \in Nat
    BY <1>1, HeldNat, HoldersFinite, Zenon DEF RefInv
  <2>2. Holders(c)' = Holders(c)
    BY <1>3, Zenon DEF Holders
  <2>3. CASE c # b
    <3>1. Held(c)' = Held(c)
      BY <1>1, <1>5, <2>2, <2>3, Zenon DEF Held
    <3> QED
      BY <1>2, <2>1, <2>3, <3>1, Zenon
  <2>4. CASE c = b
    <3>1. Holders(c) = {}
      BY <1>1, <2>4, Zenon DEF Holders
    <3>2. Held(c)' <= 1
      BY <2>2, <3>1, FS_EmptySet, SMTT(30) DEF Held
    <3> QED
      BY <1>2, <2>4, <3>2
  <2> QED
    BY <2>3, <2>4, Zenon
<1>7. CASE ctx' = ctx /\ \E i \in Io : rx' = [rx EXCEPT ![i] = b]
  <2>1. PICK i \in Io : rx' = [rx EXCEPT ![i] = b]
    BY <1>7, Zenon
  <2>2. ASSUME NEW x \in Io, rx'[x] # None PROVE DecoderAlone(x)'
    <3>1. CASE x = i
      <4>1. rx'[x] = b /\ \A y \in Io : y # x => rx'[y] # b
        BY <1>1, <2>1, <3>1, Zenon
      <4>2. \A y \in Io : ~Queued(y, rx[x])'
        BY <1>1, <1>3, <4>1, SMTT(30) DEF Queued
      <4> QED
        BY <1>1, <1>2, <1>7, <4>1, <4>2 DEF DecoderAlone
    <3>2. CASE x # i
      <4>1. rx'[x] = rx[x] /\ rx[x] # b /\ DecoderAlone(x) /\ rx[x] \in Buf
        BY <1>1, <2>1, <2>2, <3>2, Zenon DEF RefInv
      <4>2. \A y \in Io : y # x => rx'[y] # rx'[x]
        BY <1>1, <2>1, <4>1, Zenon DEF DecoderAlone
      <4>3. \A y \in Io : ~Queued(y, rx[x])'
        BY <1>3, <4>1 DEF Queued, DecoderAlone
      <4> QED
        BY <1>2, <1>7, <4>1, <4>2, <4>3, Zenon DEF DecoderAlone
    <3> QED
      BY <3>1, <3>2, Zenon
  <2>3. rx' \in [Io -> Buf \cup {None}]
    BY <1>1, <2>1, Zenon
  <2>4. ctx'.at = "send_peers" => \A x \in ctx'.todo : x \in Io /\ ~Queued(x, ctx.buf)'
    BY <1>3, <1>7, SMTT(30) DEF RefInv, Queued
  <2> QED
    BY <1>2, <1>4, <1>6, <1>7, <2>2, <2>3, <2>4, Zenon DEF RefInv
<1>8. CASE rx' = rx /\ \E todo \in SUBSET Io : ctx' = Sending(b, todo)
  <2>1. PICK todo \in SUBSET Io : ctx' = Sending(b, todo)
    BY <1>8, Zenon
  <2>2. ctx'.buf = b /\ ctx'.at = "send_peers" /\ ctx'.todo = todo
    BY <2>1, Zenon DEF Sending, Loop
  <2>3. ASSUME NEW x \in Io, rx'[x] # None PROVE DecoderAlone(x)'
    <3>1. rx'[x] = rx[x] /\ rx[x] # b /\ DecoderAlone(x) /\ rx[x] \in Buf
      BY <1>1, <1>8, <2>3, Zenon DEF RefInv
    <3>2. \A y \in Io : ~Queued(y, rx[x])'
      BY <1>3, <1>8, <3>1, Zenon DEF Queued, DecoderAlone
    <3> QED
      BY <1>2, <1>8, <2>2, <3>1, <3>2, Zenon DEF DecoderAlone
  <2>4. \A x \in ctx'.todo : x \in Io /\ ~Queued(x, ctx.buf)'
    BY <1>1, <2>2, Zenon DEF Queued
  <2>5. rx' \in [Io -> Buf \cup {None}]
    BY <1>1, <1>8, Zenon
  <2> QED
    BY <1>2, <1>4, <1>6, <2>2, <2>3, <2>4, <2>5, Zenon DEF RefInv
<1> QED
  BY <1>7, <1>8, Zenon

\* The first buffer of a queue has been written.
LEMMA RefPassed ==
    ASSUME WatchedInv, RefInv, NEW i \in Io, WriteDone(i)
    PROVE  RefInv'
<1> DEFINE h == Head(queue[i])
           drop == Times(h, 2)
<1>1. /\ ctx.at = "write_events" /\ queue[i] # <<>> /\ queue' = [queue EXCEPT ![i] = Tail(@)]
      /\ Unref(drop) /\ ctx' = Writing(i, FALSE) /\ UNCHANGED <<open, rx>>
  BY Zenon DEF WriteDone
<1>2. /\ queue \in [Io -> Seq(Buf)] /\ refcnt \in [Buf -> Nat] /\ rx \in [Io -> Buf \cup {None}]
      /\ None \notin Buf /\ Distinct /\ open \subseteq Io /\ ctx.buf = None
  BY <1>1, IoAssumption, Zenon DEF WatchedInv, WriteTypes, RefInv
<1>3. /\ \A x \in Io : \A c : Queued(x, c)' <=> Queued(x, c) /\ (x = i => c # h)
      /\ Distinct'
  BY <1>1, <1>2, QueuedTail, Zenon
<1>4. h \in Buf /\ Queued(i, h)
  <2>1. Len(queue[i]) \in Nat \ {0} /\ h = queue[i][1] /\ h \in Buf
    BY <1>1, <1>2, LenProperties, EmptySeq, HeadTailProperties
  <2> QED
    BY <2>1, SMTT(30) DEF Queued
<1>5. drop \in [Buf -> Nat] /\ \A c \in Buf : drop[c] = IF c = h THEN 2 ELSE 0
  BY Zenon DEF Times
<1>6. ctx'.at = "write_events" /\ ctx'.buf = None
  BY <1>1, Zenon DEF Writing, Loop
<1>7. ASSUME NEW c \in Buf PROVE drop[c] <= refcnt[c] /\ Held(c)' <= refcnt[c] - drop[c]
  <2>1. Held(c) <= refcnt[c] /\ Held(c) \in Nat /\ refcnt[c] \in Nat /\ Cardinality(Holders(c)) \in Nat
    BY <1>2, HeldNat, HoldersFinite, Zenon DEF RefInv
  <2>2. CASE c = h
    <3>1. Holders(c)' = Holders(c) \ {i} /\ i \in Holders(c)
      BY <1>3, <1>4, <2>2, Zenon DEF Holders
    <3>2. Cardinality(Holders(c)') = Cardinality(Holders(c)) - 1
      BY <3>1, HoldersChange, Zenon
    <3>3. Held(c)' = Held(c) - 2
      BY <1>2, <1>6, <2>1, <3>2 DEF Held
    <3>4. Cardinality(Holders(c)) # 0
      BY <3>1, HoldersFinite, FS_EmptySet, Zenon
    <3>5. Held(c) >= 2
      BY <2>1, <3>4 DEF Held
    <3> QED
      BY <1>5, <2>1, <2>2, <3>3, <3>5
  <2>3. CASE c # h
    <3>1. Holders(c)' = Holders(c)
      BY <1>3, <2>3, Zenon DEF Holders
    <3>2. Held(c)' = Held(c)
      BY <1>2, <1>6, <3>1, Zenon DEF Held
    <3> QED
      BY <1>5, <2>1, <2>3, <3>2
  <2> QED
    BY <2>2, <2>3, Zenon
<1>8. ASSUME NEW x \in Io, rx'[x] # None PROVE rx'[x] = rx[x] /\ drop[rx[x]] = 0
  <2>1. rx[x] \in Buf /\ rx[x] # h
    BY <1>1, <1>2, <1>4, <1>8, Zenon DEF RefInv, DecoderAlone
  <2> QED
    BY <1>1, <1>5, <2>1, Zenon
<1> HIDE DEF h, drop
<1> QED
  BY <1>1, <1>2, <1>3, <1>5, <1>6, <1>7, <1>8, RefDropped, Zenon

\* A broadcast has ended.
LEMMA RefSent == ASSUME WatchedInv, RefInv, SendPeersEnd PROVE RefInv'
<1> DEFINE drop == Times(ctx.buf, 1)
<1>1. Unref(drop) /\ ctx' = Loop /\ ctx.buf \in Buf /\ UNCHANGED <<open, queue, rx>>
  BY Zenon DEF SendPeersEnd, WatchedInv, queueVars
<1>2. /\ refcnt \in [Buf -> Nat] /\ rx \in [Io -> Buf \cup {None}] /\ None \notin Buf
      /\ open \subseteq Io
  BY IoAssumption, Zenon DEF RefInv
<1>3. ctx'.at = "loop" /\ ctx'.buf = None
  BY <1>1, Contexts, Zenon
<1>4. drop \in [Buf -> Nat] /\ \A c \in Buf : drop[c] = IF c = ctx.buf THEN 1 ELSE 0
  BY Zenon DEF Times
<1>5. (\A x \in Io : \A c : Queued(x, c)' <=> Queued(x, c)) /\ Distinct'
  BY <1>1, Zenon DEF Queued, Distinct, RefInv
<1>6. ASSUME NEW c \in Buf PROVE drop[c] <= refcnt[c] /\ Held(c)' <= refcnt[c] - drop[c]
  <2>1. Held(c) <= refcnt[c] /\ Held(c) \in Nat /\ refcnt[c] \in Nat /\ Cardinality(Holders(c)) \in Nat
    BY <1>2, HeldNat, HoldersFinite, Zenon DEF RefInv
  <2>2. Holders(c)' = Holders(c)
    BY <1>5, Zenon DEF Holders
  <2>3. Held(c)' = Held(c) - drop[c] /\ Held(c) >= drop[c]
    BY <1>2, <1>3, <1>4, <2>1, <2>2, SMTT(30) DEF Held
  <2> QED
    BY <1>4, <2>1, <2>3, SMTT(30)
<1>7. ASSUME NEW x \in Io, rx'[x] # None PROVE rx'[x] = rx[x] /\ drop[rx[x]] = 0
  BY <1>1, <1>2, <1>4, <1>7, Zenon DEF RefInv, DecoderAlone
<1> HIDE DEF drop
<1> QED
  BY <1>1, <1>2, <1>3, <1>4, <1>5, <1>6, <1>7, RefDropped, Zenon

LEMMA RefStep == WatchedInv /\ RefInv /\ [Next]_vars => RefInv'
<1> SUFFICES ASSUME WatchedInv, RefInv, [Next]_vars PROVE RefInv'
  BY Zenon
<1>open. open \subseteq Io
  BY Zenon DEF RefInv
<1>loop. ctx = Loop => ctx.buf = None /\ ctx.at = "loop"
  BY Contexts, Zenon
<1>same. ctx' = ctx => SameBuffer
  BY Zenon DEF SameBuffer
<1>1. ASSUME NEW i \in Io, OpenIo(i) PROVE RefInv'
  <2>1. PICK b \in free : Peek(b, 1) /\ rx' = [rx EXCEPT ![i] = b]
    BY <1>1, Zenon DEF OpenIo
  <2>2. ctx = Loop /\ ctx' = ctx /\ queue' = queue /\ open' \subseteq Io
    BY <1>1, <1>open, Zenon DEF OpenIo, queueVars
  <2> QED
    BY <2>1, <2>2, <1>loop, RefPeeked, Zenon
<1>2. ASSUME NEW i \in Io, DestroyIo(i) PROVE RefInv'
  BY <1>2, <1>same, RefClosed, Zenon DEF DestroyIo
<1>3. ASSUME NEW i \in Io, SocketDies(i) PROVE RefInv'
  BY <1>3, <1>same, <1>open, RefSame, Zenon DEF SocketDies, queueVars, poolVars
<1>4. ASSUME NEW i \in Io, NEW kept \in BOOLEAN, Send(i, kept) PROVE RefInv'
  <2>1. ctx = Loop /\ ctx' = ctx
    BY <1>4, Zenon DEF Send
  <2>2. PICK b \in free :
          \/ WriteSync(i, npkt') /\ UNCHANGED <<open, rx, poolVars>>
          \/ /\ WriteQueued(i, b) \/ WriteBlocked(i, b, npkt')
             /\ Peek(b, 2) /\ UNCHANGED <<open, rx>>
          \/ UNCHANGED <<open, queueVars, rx, poolVars>>
          \/ CloseIo(i, 0)
    BY <1>4, Zenon DEF Send
  <2>3. CASE (WriteSync(i, npkt') \/ UNCHANGED queueVars) /\ UNCHANGED <<open, rx, poolVars>>
    BY <2>1, <2>3, <1>same, <1>open, RefSame, Zenon DEF WriteSync, queueVars, poolVars
  <2>4. CASE CloseIo(i, 0)
    BY <2>1, <2>4, <1>same, RefClosed, Zenon
  <2>5. CASE /\ WriteQueued(i, b) \/ WriteBlocked(i, b, npkt')
             /\ Peek(b, 2) /\ UNCHANGED <<open, rx>>
    <3>1. /\ b \in Buf /\ refcnt[b] = 0 /\ b # ctx.buf
          /\ \A x \in Io : rx[x] # b /\ ~Queued(x, b)
      BY FreeBuffer, Zenon
    <3>2. queue' = [queue EXCEPT ![i] = Append(@, b)]
      BY <2>5, <3>1, WaitingQueue, Zenon
    <3>3. Peek(b, refcnt[b] + 2)
      BY <2>5, <3>1, SMTT(30)
    <3> QED
      BY <2>1, <2>5, <3>1, <3>2, <3>3, <1>same, RefHeld, Zenon
  <2> QED
    BY <2>2, <2>3, <2>4, <2>5, Zenon
<1>5. ASSUME NEW i \in Io, SendPeer(i) PROVE RefInv'
  <2>1. /\ ctx.at = "send_peers" /\ i \in ctx.todo /\ ctx.buf \in Buf
        /\ ctx' = [ctx EXCEPT !.todo = @ \ {i}]
    BY <1>5, Zenon DEF SendPeer, WatchedInv
  <2>2. SameBuffer /\ ctx'.at = "send_peers" /\ i \notin ctx'.todo
    BY <2>1, Zenon DEF WatchedInv, WriteTypes, SameBuffer
  <2>3. \/ WriteSync(i, content[ctx.buf]) /\ UNCHANGED <<open, rx, poolVars>>
        \/ /\ WriteQueued(i, ctx.buf) \/ WriteBlocked(i, ctx.buf, content[ctx.buf])
           /\ Peek(ctx.buf, refcnt[ctx.buf] + 2) /\ UNCHANGED <<open, rx>>
        \/ CloseIo(i, 0)
    BY <1>5, Zenon DEF SendPeer
  <2>4. CASE WriteSync(i, content[ctx.buf]) /\ UNCHANGED <<open, rx, poolVars>>
    BY <2>2, <2>4, <1>open, RefSame, Zenon DEF WriteSync, queueVars, poolVars
  <2>5. CASE CloseIo(i, 0)
    BY <2>2, <2>5, RefClosed, Zenon
  <2>6. CASE /\ WriteQueued(i, ctx.buf) \/ WriteBlocked(i, ctx.buf, content[ctx.buf])
             /\ Peek(ctx.buf, refcnt[ctx.buf] + 2) /\ UNCHANGED <<open, rx>>
    <3>1. ~Queued(i, ctx.buf)
      BY <2>1, Zenon DEF RefInv
    <3>2. ASSUME NEW x \in Io PROVE rx[x] # ctx.buf
      BY <2>1, IoAssumption, Zenon DEF RefInv, DecoderAlone
    <3>3. queue' = [queue EXCEPT ![i] = Append(@, ctx.buf)]
      BY <2>1, <2>6, WaitingQueue, Zenon
    <3> QED
      BY <2>1, <2>2, <2>6, <3>1, <3>2, <3>3, RefHeld, Zenon
  <2> QED
    BY <2>3, <2>4, <2>5, <2>6, Zenon
<1>6. ASSUME NEW todo \in SUBSET open, SendPeers(todo) PROVE RefInv'
  <2>1. PICK b \in free : ctx' = Sending(b, todo) /\ Peek(b, 1)
    BY <1>6, Zenon DEF SendPeers
  <2>2. ctx = Loop /\ UNCHANGED <<open, queue, rx>> /\ todo \in SUBSET Io
    BY <1>6, <1>open, Zenon DEF SendPeers, queueVars
  <2> QED
    BY <2>1, <2>2, <1>loop, <1>open, RefPeeked
<1>7. CASE SendPeersEnd
  BY <1>7, RefSent, Zenon
<1>8. ASSUME NEW i \in Io, WriteEvents(i) PROVE RefInv'
  <2>1. ctx = Loop /\ ctx' = Writing(i, TRUE) /\ UNCHANGED <<open, queue, rx, refcnt, free>>
    BY <1>8, Zenon DEF WriteEvents, poolVars
  <2>2. SameBuffer
    BY <2>1, Zenon DEF SameBuffer, Writing, Loop
  <2> QED
    BY <2>1, <2>2, <1>open, RefSame, Zenon
<1>9. ASSUME NEW i \in Io, WriteDone(i) PROVE RefInv'
  BY <1>9, RefPassed, Zenon
<1>10. ASSUME NEW i \in Io, WriteAgain(i) \/ WriteEnd(i) PROVE RefInv'
  <2>1. /\ ctx.at = "write_events" /\ ctx.buf = None /\ ctx' = Loop
        /\ UNCHANGED <<open, queue, rx, refcnt, free>>
    BY <1>10, Zenon DEF WriteAgain, WriteEnd, poolVars, RefInv
  <2>2. SameBuffer
    BY <2>1, Contexts, Zenon DEF SameBuffer
  <2> QED
    BY <2>1, <2>2, <1>open, RefSame, Zenon
<1>11. ASSUME NEW i \in Io, WriteError(i) PROVE RefInv'
  <2>1. ctx.at = "write_events" /\ ctx.buf = None /\ ctx' \in {Loop, Crashed} /\ CloseIo(i, 1)
    BY <1>11, Zenon DEF WriteError, RefInv
  <2>2. SameBuffer
    BY <2>1, Contexts, Zenon DEF SameBuffer
  <2> QED
    BY <2>1, <2>2, RefClosed, Zenon
<1>12. ASSUME NEW i \in Io, WriteGivenUp(i) PROVE RefInv'
  <2>1. ctx' = ctx /\ CompleteFailed(i)
    BY <1>12, Zenon DEF WriteGivenUp
  <2>2. CASE queue[i] # <<>>
    BY <2>1, <2>2, <1>same, RefClosed, Zenon DEF CompleteFailed
  <2>3. CASE queue[i] = <<>>
    BY <2>1, <2>3, <1>same, <1>open, RefSame, Zenon DEF CompleteFailed, poolVars
  <2> QED
    BY <2>2, <2>3, Zenon
<1>13. CASE UNCHANGED vars
  BY <1>13, <1>same, <1>open, RefSame, Zenon DEF vars, queueVars, poolVars
<1> QED
  BY <1>1, <1>2, <1>3, <1>4, <1>5, <1>6, <1>7, <1>8, <1>9, <1>10, <1>11, <1>12, <1>13, ZenonT(30)
     DEF Next, WriteStep

\* A buffer is in the pool exactly when its count is 0, and none that waits in a
\* queue, that a decoder reads into or that is being broadcast is: for any number
\* of connections, buffers and packets, partial writes, failed writes and faults.
THEOREM NotReusedCorrect == Spec => []NotReused
<1>1. Init => WatchedInv /\ RefInv
  BY WatchedInit, RefInit, Zenon
<1>2. WatchedInv /\ RefInv /\ [Next]_vars => (WatchedInv /\ RefInv)'
  BY WatchedStep, RefStep, Zenon
<1>3. WatchedInv /\ RefInv => NotReused
  BY RefImplies, Zenon
<1> QED
  BY <1>1, <1>2, <1>3, PTL DEF Spec

=============================================================================
