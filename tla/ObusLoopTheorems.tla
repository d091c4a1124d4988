-------------------------- MODULE ObusLoopTheorems --------------------------
(***************************************************************************)
(* Proofs about the event loop, for any number of connections: a handler   *)
(* is called for an obus_fd that is in the table, each of which has a      *)
(* descriptor of its own, and the walk over the events stays inside the    *)
(* array, although handlers change the table it is bounded by.             *)
(***************************************************************************)
EXTENDS ObusLoop, SequenceTheorems, FiniteSetTheorems, WellFoundedInduction, TLAPS

\* The connections there are, and their records.
LiveOf(cs) == {c \in 1..Len(cs) : cs[c].exists}
Conn == [exists : BOOLEAN, addr : Nat, fd : Nat, dup : Nat]

\* Connections cs and the obus_fds T in the table: each of them is that of a connection
\* that is there, a duplicate is open as long as there is one to write, and neither
\* an address nor a descriptor is used twice.
TableOk(cs, T) ==
    /\ cs \in Seq(Conn) /\ Len(cs) <= MaxConns
    /\ T \subseteq LiveOf(cs) \X {"r", "w"}
    /\ \A c \in LiveOf(cs) : cs[c].fd # 0 /\ (cs[c].dup # 0 <=> <<c, "w">> \in T)
    /\ \A c, d \in LiveOf(cs) :
          /\ cs[c].addr = cs[d].addr => c = d
          /\ cs[c].fd = cs[d].fd => c = d
          /\ cs[c].fd # cs[d].dup
          /\ cs[c].dup = cs[d].dup /\ cs[c].dup # 0 => c = d

\* No element of the sequence occurs twice.
Once(s) == \A k, l \in 1..Len(s) : s[k] = s[l] => k = l

\* Removing an element leaves the others, in their order.
LEMMA Removed ==
    ASSUME NEW S, NEW s \in Seq(S), NEW e, Once(s), NEW r, r = RemoveFirst(s, e)
    PROVE  /\ r \in Seq(S) /\ Once(r)
           /\ ToSet(r) = ToSet(s) \ {e}
<1>1. CASE ~\E k \in 1..Len(s) : s[k] = e
  <2>1. r = s
    BY <1>1, Zenon DEF RemoveFirst
  <2> QED BY <1>1, <2>1 DEF ToSet
<1>2. CASE \E k \in 1..Len(s) : s[k] = e
  <2>1. PICK k \in 1..Len(s) : s[k] = e
    BY <1>2, Zenon
  <2>2. {x \in 1..Len(s) : s[x] = e} = {k}
    BY <2>1, Zenon DEF Once
  <2>3. r = RemoveAt(s, Min({x \in 1..Len(s) : s[x] = e}))
    BY <1>2, Zenon DEF RemoveFirst, SelectInSeq
  <2>4. Min({k}) = k
    BY <2>1 DEF Min
  <2>5. r = SubSeq(s, 1, k - 1) \o SubSeq(s, k + 1, Len(s))
    BY <2>2, <2>3, <2>4, Zenon DEF RemoveAt
  <2>6. /\ r \in Seq(S) /\ Len(r) = Len(s) - 1
        /\ \A x \in 1..Len(r) : r[x] = IF x < k THEN s[x] ELSE s[x + 1]
    <3> DEFINE a == SubSeq(s, 1, k - 1)
               b == SubSeq(s, k + 1, Len(s))
    <3>1. /\ a \in Seq(S) /\ Len(a) = k - 1
          /\ \A x \in 1..(k - 1) : a[x] = s[x]
      BY <2>1
    <3>2. /\ b \in Seq(S) /\ Len(b) = Len(s) - k
          /\ \A x \in 1..(Len(s) - k) : b[x] = s[k + x]
      BY <2>1
    <3> HIDE DEF a, b
    <3>0. r = a \o b
      BY <2>5, Zenon DEF a, b
    <3>3. r \in Seq(S) /\ Len(r) = Len(s) - 1
      BY <2>1, <3>0, <3>1, <3>2
    <3>4. ASSUME NEW x \in 1..Len(r) PROVE r[x] = IF x < k THEN s[x] ELSE s[x + 1]
      <4>2. CASE x < k
        BY <2>1, <3>0, <3>1, <3>2, <3>3, <3>4, <4>2, SMTT(30)
      <4>3. CASE ~(x < k)
        <5>1. r[x] = b[x - (k - 1)]
          BY <2>1, <3>0, <3>1, <3>2, <3>3, <3>4, <4>3, SMTT(30)
        <5>2. x - (k - 1) \in 1..(Len(s) - k)
          BY <2>1, <3>3, <3>4, <4>3
        <5>3. b[x - (k - 1)] = s[k + (x - (k - 1))]
          BY <3>2, <5>2, Zenon
        <5>4. k + (x - (k - 1)) = x + 1
          BY <2>1, <3>4
        <5> QED BY <4>3, <5>1, <5>3, <5>4
      <4> QED BY <4>2, <4>3
    <3> QED BY <3>3, <3>4
  <2>7. Once(r)
    <3> SUFFICES ASSUME NEW a \in 1..Len(r), NEW b \in 1..Len(r), r[a] = r[b] PROVE a = b
      BY Zenon DEF Once
    <3>1. PICK x, y : x = (IF a < k THEN a ELSE a + 1) /\ y = (IF b < k THEN b ELSE b + 1)
      BY Zenon
    <3>2. x \in 1..Len(s) /\ y \in 1..Len(s)
      BY <2>1, <2>6, <3>1
    <3>3. s[x] = s[y]
      BY <2>6, <3>1, Zenon
    <3>4. x = y
      BY <3>2, <3>3, Zenon DEF Once
    <3> QED BY <2>1, <2>6, <3>1, <3>4
  <2>8. ToSet(r) = ToSet(s) \ {e}
    <3>1. ASSUME NEW y \in ToSet(r) PROVE y \in ToSet(s) \ {e}
      <4>1. PICK x \in 1..Len(r) : y = r[x]
        BY <2>6 DEF ToSet
      <4>2. PICK z \in 1..Len(s) : y = s[z] /\ z # k
        BY <2>1, <2>6, <4>1
      <4> QED BY <2>1, <4>2 DEF ToSet, Once
    <3>2. ASSUME NEW y \in ToSet(s), y # e PROVE y \in ToSet(r)
      <4>1. PICK z \in 1..Len(s) : y = s[z] /\ z # k
        BY <2>1, <3>2 DEF ToSet
      <4>2. PICK x \in 1..Len(r) : y = r[x]
        <5>1. CASE z < k
          BY <2>1, <2>6, <4>1, <5>1, SMTT(30)
        <5>2. CASE z > k
          <6>1. z - 1 \in 1..Len(r) /\ ~(z - 1 < k) /\ (z - 1) + 1 = z
            BY <2>1, <2>6, <4>1, <5>2, SMTT(30)
          <6>2. r[z - 1] = s[z]
            BY <2>6, <6>1, Zenon
          <6> QED BY <4>1, <6>1, <6>2
        <5> QED BY <2>1, <4>1, <5>1, <5>2
      <4> QED BY <2>6, <4>2 DEF ToSet
    <3> QED BY <3>1, <3>2
  <2> QED BY <2>6, <2>7, <2>8
<1> QED BY <1>1, <1>2

\* Numbers have a least one.
LEMMA LeastNumber ==
    ASSUME NEW S \in SUBSET Nat, S # {}
    PROVE  \E x \in S : \A y \in S : x <= y
<1> DEFINE R == OpToRel(<, Nat)
<1>1. IsWellFoundedOn(R, Nat)
  BY NatLessThanWellFounded, Zenon
<1>2. \A x, y \in Nat : x < y => <<x, y>> \in R
  BY Zenon DEF OpToRel
<1> HIDE DEF R
<1>3. PICK x \in S : \A y \in S : ~(<<y, x>> \in R)
  BY <1>1, WFMin, Zenon
<1>4. \A y \in S : y \in Nat /\ x \in Nat /\ ~(y < x)
  BY <1>2, <1>3, Zenon
<1>5. \A y \in S : x <= y
  BY <1>4
<1> QED BY <1>3, <1>5

\* How many obus_fds m connections can have.
LEMMA Numbers ==
    ASSUME NEW m \in Nat, NEW S, S = 1..m
    PROVE  IsFiniteSet(S) /\ Cardinality(S) = m
<1>1. IsFiniteSet(1..m) /\ Cardinality(1..m) = IF 1 > m THEN 0 ELSE m - 1 + 1
  BY FS_Interval
<1> QED BY <1>1

LEMMA Pairs ==
    ASSUME NEW m \in Nat, NEW S, S = (1..m) \X {"r", "w"}
    PROVE  IsFiniteSet(S) /\ Cardinality(S) = 2 * m
<1>1. PICK R, D, M : R = {"r"} /\ D = R \cup {"w"} /\ M = 1..m
  BY Zenon
<1>2. IsFiniteSet(R) /\ Cardinality(R) = 1 /\ "w" \notin R
  BY <1>1, FS_Singleton, Zenon
<1>3. /\ IsFiniteSet(R \cup {"w"})
      /\ Cardinality(R \cup {"w"}) = IF "w" \in R THEN Cardinality(R) ELSE Cardinality(R) + 1
  BY <1>2, FS_AddElement, Zenon
<1>4. IsFiniteSet(D) /\ Cardinality(D) = Cardinality(R) + 1
  BY <1>1, <1>2, <1>3, Zenon
<1>5. Cardinality(D) = 2
  BY <1>2, <1>4
<1>6. IsFiniteSet(M) /\ Cardinality(M) = m
  BY <1>1, Numbers, Zenon
<1>7. S = M \X D
  BY <1>1, Zenon
<1>8. IsFiniteSet(M \X D) /\ Cardinality(M \X D) = Cardinality(M) * Cardinality(D)
  BY <1>4, <1>6, FS_Product, Zenon
<1>9. Cardinality(S) = m * 2
  BY <1>5, <1>6, <1>7, <1>8, Zenon
<1> QED BY <1>7, <1>8, <1>9

\* There is a descriptor for a connection, or for the duplicate of one.
LEMMA DescriptorFree ==
    ASSUME LoopAssumption, NEW T, TableOk(conns, T),
           Len(conns) < MaxConns \/ \E c \in Live : conns[c].dup = 0
    PROVE  /\ Descriptor \in Nat \ {0}
           /\ \A c \in Live : conns[c].fd # Descriptor
                                       /\ conns[c].dup # Descriptor
<1> DEFINE N == 2 * MaxConns
           A == (1..MaxConns) \X {"r", "w"}
           Fd(e) == IF e[2] = "r" THEN conns[e[1]].fd ELSE conns[e[1]].dup
           P == {e \in A : e[1] \in Live /\ Fd(e) # 0}
           F == {f \in 1..N : f \notin Used}
<1>1. MaxConns \in Nat /\ N \in Nat /\ conns \in Seq(Conn) /\ Len(conns) <= MaxConns
      /\ Live \subseteq 1..MaxConns
  BY DEF LoopAssumption, TableOk, Live
<1>2. IsFiniteSet(A) /\ Cardinality(A) = N
  BY <1>1, Pairs, Zenon
<1>3. IsFiniteSet(P) /\ Cardinality(P) \in Nat /\ Cardinality(P) < N
  <2>1. P # A
    <3>1. CASE Len(conns) < MaxConns
      <4>1. <<MaxConns, "r">> \in A /\ MaxConns \notin Live
        BY <1>1, <3>1 DEF Live
      <4> QED BY <4>1
    <3>2. ASSUME NEW c \in Live, conns[c].dup = 0 PROVE P # A
      <4>1. <<c, "w">> \in A /\ Fd(<<c, "w">>) = 0
        BY <1>1, <3>2, Zenon
      <4> QED BY <4>1
    <3> QED BY <3>1, <3>2
  <2>2. P \in SUBSET A
    BY Zenon
  <2> HIDE DEF P, A
  <2> QED BY <1>1, <1>2, <2>1, <2>2, FS_Subset, FS_CardinalityType
<1>4. F # {}
  <2> SUFFICES ASSUME F = {} PROVE FALSE
    BY Zenon
  <2>1. ASSUME NEW f \in 1..N PROVE \E e \in P : Fd(e) = f
    <3>1. f \in Used
      BY <2>1, Zenon
    <3>2. CASE f \in {conns[c].fd : c \in Live}
      <4>1. PICK c \in Live : conns[c].fd = f
        BY <3>2, Zenon
      <4>2. <<c, "r">> \in P /\ Fd(<<c, "r">>) = f
        BY <1>1, <2>1, <4>1, SMTT(30)
      <4> QED BY <4>2
    <3>3. CASE f \in {conns[c].dup : c \in Live}
      <4>1. PICK c \in Live : conns[c].dup = f
        BY <3>3, Zenon
      <4>2. <<c, "w">> \in P /\ Fd(<<c, "w">>) = f
        BY <1>1, <2>1, <4>1, SMTT(30)
      <4> QED BY <4>2
    <3> QED BY <3>1, <3>2, <3>3 DEF Used
  <2> DEFINE g == [f \in 1..N |-> CHOOSE e \in P : Fd(e) = f]
  <2>2. g \in [1..N -> P] /\ \A f \in 1..N : Fd(g[f]) = f
    <3> HIDE DEF P, Fd
    <3> QED BY <2>1
  <2>3. PICK S : S = 1..N
    BY Zenon
  <2> HIDE DEF g, P, N
  <2>4. IsFiniteSet(S) /\ Cardinality(S) = N
    BY <1>1, <2>3, Numbers, Zenon
  <2>5. g \in [S -> P]
    BY <2>2, <2>3, Zenon
  <2>6. \E x, y \in S : x # y /\ g[x] = g[y]
    BY <1>3, <2>4, <2>5, FS_PigeonHole, SMTT(30)
  <2> HIDE DEF Fd
  <2> QED BY <2>2, <2>3, <2>6
<1>5. PICK f \in F : \A h \in F : f <= h
  <2>1. F \in SUBSET Nat
    BY <1>1
  <2> HIDE DEF F
  <2> QED BY <1>4, <2>1, LeastNumber
<1>6. f \notin Used /\ \A g \in 1..(f - 1) : g \in Used
  BY <1>1, <1>5, SMTT(30)
<1>7. Descriptor \in 1..N /\ Descriptor \notin Used
  BY <1>5, <1>6, Zenon DEF Descriptor
<1> HIDE DEF N
<1> QED BY <1>1, <1>7 DEF Used

\* There is an address when obus_io_new succeeds.
LEMMA AddressFree ==
    ASSUME LoopAssumption, \E a \in Addr : \A c \in Live : conns[c].addr # a
    PROVE  Address \in Nat /\ \A c \in Live : conns[c].addr # Address
<1> DEFINE F == {a \in Addr : \A c \in Live : conns[c].addr # a}
<1>1. F \in SUBSET Nat /\ F # {}
  BY Zenon DEF LoopAssumption
<1> HIDE DEF F
<1>2. PICK a \in F : \A h \in F : a <= h
  BY <1>1, LeastNumber, Zenon
<1>3. a \in Addr /\ \A c \in Live : conns[c].addr # a
  BY <1>2, Zenon DEF F
<1>4. ASSUME NEW b \in Addr, b < a PROVE \E c \in Live : conns[c].addr = b
  <2>1. a \in Nat /\ b \in Nat
    BY <1>3, Zenon DEF LoopAssumption
  <2>2. b \notin F
    BY <1>2, <1>4, <2>1, SMTT(30)
  <2> QED BY <2>2 DEF F
<1>5. Address \in Addr /\ \A c \in Live : conns[c].addr # Address
  BY <1>3, <1>4, Zenon DEF Address
<1> QED BY <1>5 DEF LoopAssumption

\* A new connection, at a free address and with a free descriptor.
LEMMA OkOpen ==
    ASSUME NEW cs, NEW T, TableOk(cs, T), Len(cs) < MaxConns, MaxConns \in Nat,
           NEW a \in Nat, NEW f \in Nat \ {0},
           \A c \in LiveOf(cs) : cs[c].addr # a /\ cs[c].fd # f /\ cs[c].dup # f,
           NEW ds \in Seq(Conn), Len(ds) = Len(cs) + 1, \A c \in 1..Len(cs) : ds[c] = cs[c],
           LET d == ds[Len(ds)] IN d.exists /\ d.addr = a /\ d.fd = f /\ d.dup = 0,
           NEW U, \A e : e \in U <=> e \in T \/ e = <<Len(ds), "r">>
    PROVE  TableOk(ds, U)
<1> DEFINE n == Len(ds)
<1>1. Len(cs) \in Nat /\ n = Len(cs) + 1 /\ cs \in Seq(Conn)
  BY DEF TableOk
<1>2. \A c : c \in LiveOf(ds) <=> c \in LiveOf(cs) \/ c = n
  BY <1>1 DEF LiveOf
<1>3. n \notin LiveOf(cs) /\ \A c \in LiveOf(cs) : ds[c] = cs[c]
  BY <1>1, Zenon DEF LiveOf
<1>4. ds[n].addr = a /\ ds[n].fd = f /\ ds[n].dup = 0
  BY Zenon
<1> HIDE DEF n
<1>5. U \subseteq LiveOf(ds) \X {"r", "w"} /\ <<n, "w">> \notin U
  <2>1. T \subseteq LiveOf(cs) \X {"r", "w"}
    BY Zenon DEF TableOk
  <2>2. \A e : e \in U <=> e \in T \/ e = <<n, "r">>
    BY Zenon DEF n
  <2> QED BY <1>2, <1>3, <2>1, <2>2
<1>6. \A c \in LiveOf(cs) : <<c, "w">> \in U <=> <<c, "w">> \in T
  BY Zenon
<1>7. \A c \in LiveOf(ds) : ds[c].fd # 0 /\ (ds[c].dup # 0 <=> <<c, "w">> \in U)
  <2>1. \A c \in LiveOf(cs) : cs[c].fd # 0 /\ (cs[c].dup # 0 <=> <<c, "w">> \in T)
    BY Zenon DEF TableOk
  <2> SUFFICES ASSUME NEW c \in LiveOf(ds)
               PROVE  ds[c].fd # 0 /\ (ds[c].dup # 0 <=> <<c, "w">> \in U)
    BY Zenon
  <2>2. CASE c \in LiveOf(cs)
    BY <1>3, <1>6, <2>1, <2>2, Zenon
  <2>3. CASE c = n
    BY <1>4, <1>5, <2>3, Zenon
  <2> QED BY <1>2, <2>2, <2>3
<1>8. ASSUME NEW c \in LiveOf(ds), NEW d \in LiveOf(ds)
      PROVE  /\ ds[c].addr = ds[d].addr => c = d
             /\ ds[c].fd = ds[d].fd => c = d
             /\ ds[c].fd # ds[d].dup
             /\ ds[c].dup = ds[d].dup /\ ds[c].dup # 0 => c = d
  <2>1. \A x, y \in LiveOf(cs) :
          /\ cs[x].addr = cs[y].addr => x = y
          /\ cs[x].fd = cs[y].fd => x = y
          /\ cs[x].fd # cs[y].dup
          /\ cs[x].dup = cs[y].dup /\ cs[x].dup # 0 => x = y
    BY Zenon DEF TableOk
  <2>2. CASE c \in LiveOf(cs) /\ d \in LiveOf(cs)
    BY <1>3, <2>1, <2>2, SMTT(30)
  <2>3. CASE c = n /\ d \in LiveOf(cs)
    BY <1>3, <1>4, <2>3, Zenon
  <2>4. CASE c \in LiveOf(cs) /\ d = n
    <3>1. ds[c].fd # 0
      BY <1>7, <1>8, Zenon
    <3> QED BY <1>3, <1>4, <2>4, <3>1
  <2>5. CASE c = n /\ d = n
    BY <1>4, <2>5, SMTT(30)
  <2> QED BY <1>2, <1>8, <2>2, <2>3, <2>4, <2>5
<1> QED BY <1>1, <1>5, <1>7, <1>8 DEF TableOk

\* A connection gets a duplicate of its descriptor with an obus_fd to write, and gives
\* it back with it.
LEMMA OkDup ==
    ASSUME NEW cs, NEW T, TableOk(cs, T), NEW k \in LiveOf(cs), NEW f \in Nat,
           f # 0 => \A c \in LiveOf(cs) : cs[c].fd # f /\ cs[c].dup # f,
           NEW ds \in Seq(Conn), Len(ds) = Len(cs), \A c \in 1..Len(cs) : c # k => ds[c] = cs[c],
           ds[k].exists /\ ds[k].addr = cs[k].addr /\ ds[k].fd = cs[k].fd /\ ds[k].dup = f,
           NEW U, \A e : e # <<k, "w">> => (e \in U <=> e \in T), <<k, "w">> \in U <=> f # 0
    PROVE  TableOk(ds, U)
<1>1. Len(cs) \in Nat /\ cs \in Seq(Conn) /\ Len(cs) <= MaxConns
  BY DEF TableOk
<1>2. LiveOf(ds) = LiveOf(cs)
  BY <1>1, Zenon DEF LiveOf
<1>3. \A c \in LiveOf(cs) : c # k => ds[c] = cs[c]
  BY <1>1, Zenon DEF LiveOf
<1>4. U \subseteq LiveOf(ds) \X {"r", "w"}
  <2>1. T \subseteq LiveOf(cs) \X {"r", "w"}
    BY Zenon DEF TableOk
  <2> QED BY <1>2, <2>1
<1>5. \A c \in LiveOf(cs) : cs[c].fd # 0 /\ (cs[c].dup # 0 <=> <<c, "w">> \in T)
  BY Zenon DEF TableOk
<1>6. ASSUME NEW c \in LiveOf(cs) PROVE ds[c].fd # 0 /\ (ds[c].dup # 0 <=> <<c, "w">> \in U)
  <2>1. CASE c = k
    BY <1>5, <2>1, Zenon
  <2>2. CASE c # k
    BY <1>3, <1>5, <1>6, <2>2, SMTT(30)
  <2> QED BY <2>1, <2>2
<1>7. ASSUME NEW c \in LiveOf(cs), NEW d \in LiveOf(cs)
      PROVE  /\ ds[c].addr = ds[d].addr => c = d
             /\ ds[c].fd = ds[d].fd => c = d
             /\ ds[c].fd # ds[d].dup
             /\ ds[c].dup = ds[d].dup /\ ds[c].dup # 0 => c = d
  <2>1. \A x, y \in LiveOf(cs) :
          /\ cs[x].addr = cs[y].addr => x = y
          /\ cs[x].fd = cs[y].fd => x = y
          /\ cs[x].fd # cs[y].dup
          /\ cs[x].dup = cs[y].dup /\ cs[x].dup # 0 => x = y
    BY Zenon DEF TableOk
  <2>2. ds[c].addr = cs[c].addr /\ ds[d].addr = cs[d].addr
        /\ ds[c].fd = cs[c].fd /\ ds[d].fd = cs[d].fd
    BY <1>3, <1>7, Zenon
  <2>3. ds[c].dup = (IF c = k THEN f ELSE cs[c].dup) /\ ds[d].dup = (IF d = k THEN f ELSE cs[d].dup)
    BY <1>3, <1>7, Zenon
  <2>4. ds[c].fd # ds[d].dup
    <3>1. CASE d = k
      <4>1. ds[d].dup = f /\ ds[c].fd = cs[c].fd /\ cs[c].fd # 0
        BY <1>5, <1>7, <2>2, <2>3, <3>1, ZenonT(40)
      <4>2. f = 0 \/ cs[c].fd # f
        BY <1>7, Zenon
      <4> QED BY <4>1, <4>2
    <3>2. CASE d # k
      BY <1>7, <2>1, <2>2, <2>3, <3>2, SMTT(30)
    <3> QED BY <3>1, <3>2
  <2>5. ds[c].dup = ds[d].dup /\ ds[c].dup # 0 => c = d
    BY <1>7, <2>1, <2>3, SMTT(30)
  <2> QED BY <1>7, <2>1, <2>2, <2>4, <2>5
<1> QED BY <1>1, <1>2, <1>4, <1>6, <1>7 DEF TableOk

\* A connection is closed, with its obus_fds.
LEMMA OkClose ==
    ASSUME NEW cs, NEW T, TableOk(cs, T), NEW k \in LiveOf(cs),
           NEW ds \in Seq(Conn), Len(ds) = Len(cs), \A c \in 1..Len(cs) : c # k => ds[c] = cs[c],
           ~ds[k].exists,
           NEW U, \A e : e \in U <=> e \in T /\ e # <<k, "r">> /\ e # <<k, "w">>
    PROVE  TableOk(ds, U)
<1>1. Len(cs) \in Nat /\ cs \in Seq(Conn) /\ Len(cs) <= MaxConns
  BY DEF TableOk
<1>2. \A c : c \in LiveOf(ds) <=> c \in LiveOf(cs) /\ c # k
  BY <1>1, Zenon DEF LiveOf
<1>3. \A c \in LiveOf(ds) : ds[c] = cs[c]
  BY <1>1, Zenon DEF LiveOf
<1>4. U \subseteq LiveOf(ds) \X {"r", "w"}
  <2>1. T \subseteq LiveOf(cs) \X {"r", "w"}
    BY Zenon DEF TableOk
  <2> QED BY <1>2, <2>1
<1>5. ASSUME NEW c \in LiveOf(ds) PROVE ds[c].fd # 0 /\ (ds[c].dup # 0 <=> <<c, "w">> \in U)
  <2>1. cs[c].fd # 0 /\ (cs[c].dup # 0 <=> <<c, "w">> \in T)
    BY <1>2, <1>5, Zenon DEF TableOk
  <2>2. <<c, "w">> \in U <=> <<c, "w">> \in T
    BY <1>2, <1>5, Zenon
  <2> QED BY <1>3, <1>5, <2>1, <2>2
<1>6. ASSUME NEW c \in LiveOf(ds), NEW d \in LiveOf(ds)
      PROVE  /\ ds[c].addr = ds[d].addr => c = d
             /\ ds[c].fd = ds[d].fd => c = d
             /\ ds[c].fd # ds[d].dup
             /\ ds[c].dup = ds[d].dup /\ ds[c].dup # 0 => c = d
  <2>1. c \in LiveOf(cs) /\ d \in LiveOf(cs) /\ ds[c] = cs[c] /\ ds[d] = cs[d]
    BY <1>2, <1>3, <1>6, Zenon
  <2> QED BY <2>1 DEF TableOk
<1> QED BY <1>1, <1>4, <1>5, <1>6 DEF TableOk

\* obus_fds in the table and those that are ready.
Entry == Nat \X {"r", "w"}

LoopTable ==
    /\ posix \in BOOLEAN
    /\ TableOk(conns, ToSet(table))
    /\ table \in Seq(Entry) /\ Once(table)
    /\ ready \in Seq(Entry) /\ Once(ready)
    /\ ToSet(ready) \subseteq ToSet(table)

LEMMA Appended ==
    ASSUME NEW S, NEW s \in Seq(S), NEW e \in S, Once(s), e \notin ToSet(s),
           NEW r, r = Append(s, e)
    PROVE  /\ r \in Seq(S) /\ Once(r)
           /\ \A x : x \in ToSet(r) <=> x \in ToSet(s) \/ x = e
<1>1. r \in Seq(S) /\ Len(r) = Len(s) + 1 /\ Len(s) \in Nat
      /\ r[Len(s) + 1] = e /\ \A k \in 1..Len(s) : r[k] = s[k]
  BY AppendProperties
<1>2. \A x : x \in ToSet(s) <=> \E k \in 1..Len(s) : x = s[k]
  BY DEF ToSet
<1>3. \A x : x \in ToSet(r) <=> \E k \in 1..Len(r) : x = r[k]
  BY <1>1, SMTT(30) DEF ToSet
<1>4. Once(r)
  <2> SUFFICES ASSUME NEW k \in 1..Len(r), NEW l \in 1..Len(r), r[k] = r[l] PROVE k = l
    BY Zenon DEF Once
  <2>1. CASE k \in 1..Len(s) /\ l \in 1..Len(s)
    BY <1>1, <2>1, Zenon DEF Once
  <2>2. CASE k \in 1..Len(s) /\ l = Len(s) + 1
    BY <1>1, <1>2, <2>2, Zenon
  <2>3. CASE k = Len(s) + 1 /\ l \in 1..Len(s)
    BY <1>1, <1>2, <2>3, Zenon
  <2> QED BY <1>1, <2>1, <2>2, <2>3
<1>5. ASSUME NEW x PROVE x \in ToSet(r) <=> x \in ToSet(s) \/ x = e
  <2>1. ASSUME NEW k \in 1..Len(r) PROVE r[k] \in ToSet(s) \/ r[k] = e
    BY <1>1, <1>2, <2>1, SMTT(30)
  <2>2. \A k \in 1..Len(s) : k \in 1..Len(r) /\ Len(s) + 1 \in 1..Len(r)
    BY <1>1
  <2>3. Len(s) + 1 \in 1..Len(r)
    BY <1>1
  <2> QED BY <1>1, <1>2, <1>3, <2>1, <2>2, <2>3
<1> QED BY <1>1, <1>4, <1>5

LEMMA Dropped ==
    ASSUME NEW S, NEW s \in Seq(S), Once(s), NEW c, NEW r, r = Drop(s, c)
    PROVE  /\ r \in Seq(S) /\ Once(r)
           /\ \A e : e \in ToSet(r) <=>
                     e \in ToSet(s) /\ e # <<c, "r">> /\ e # <<c, "w">>
<1>1. PICK x, y, q : x = <<c, "r">> /\ y = <<c, "w">> /\ q = RemoveFirst(s, x)
  BY Zenon
<1>2. q \in Seq(S) /\ Once(q) /\ ToSet(q) = ToSet(s) \ {x}
  <2>1. q = RemoveFirst(s, x)
    BY <1>1, Zenon
  <2> QED BY <2>1, Removed
<1>3. r = RemoveFirst(q, y)
  BY <1>1, Zenon DEF Drop
<1>4. r \in Seq(S) /\ Once(r) /\ ToSet(r) = ToSet(q) \ {y}
  BY <1>2, <1>3, Removed, SMTT(30)
<1> QED BY <1>1, <1>2, <1>4

LEMMA LiveIs == Live = LiveOf(conns) /\ InTable = ToSet(table)
  BY Zenon DEF Live, LiveOf, InTable

LEMMA OpenKeeps ==
    ASSUME LoopAssumption, LoopTable, Open
    PROVE  LoopTable'
<1>1. PICK a, f, k : a = Address /\ f = Descriptor /\ k = Len(conns) + 1
  BY Zenon
<1>2. /\ conns' = Append(conns, [exists |-> TRUE, addr |-> a, fd |-> f, dup |-> 0])
      /\ table' = Append(table, <<k, "r">>)
      /\ Len(conns) < MaxConns /\ posix' = posix /\ ready' = ready
  BY <1>1, Zenon DEF Open
<1>3. a \in Nat /\ \A c \in LiveOf(conns) : conns[c].addr # a
  BY <1>1, AddressFree, LiveIs, Zenon DEF Open
<1>4. TableOk(conns, ToSet(table))
  BY Zenon DEF LoopTable
<1>5. f \in Nat \ {0} /\ \A c \in LiveOf(conns) : conns[c].fd # f /\ conns[c].dup # f
  BY <1>1, <1>2, <1>4, DescriptorFree, LiveIs, ZenonT(40)
<1>6. conns \in Seq(Conn) /\ Len(conns) \in Nat /\ MaxConns \in Nat
  BY <1>4 DEF TableOk, LoopAssumption
<1>7. PICK d : d = [exists |-> TRUE, addr |-> a, fd |-> f, dup |-> 0]
  BY Zenon
<1>8. d \in Conn /\ d.exists /\ d.addr = a /\ d.fd = f /\ d.dup = 0
  BY <1>3, <1>5, <1>7, Zenon DEF Conn
<1>9. conns' = Append(conns, d)
  BY <1>2, <1>7, Zenon
<1>10. /\ conns' \in Seq(Conn) /\ Len(conns') = Len(conns) + 1
       /\ \A c \in 1..Len(conns) : conns'[c] = conns[c]
       /\ conns'[Len(conns')] = d
  BY <1>6, <1>8, <1>9, AppendProperties, SMTT(30)
<1>11. PICK e : e = <<k, "r">>
  BY Zenon
<1>12. e \in Entry /\ e \notin ToSet(table)
  <2>1. ToSet(table) \subseteq LiveOf(conns) \X {"r", "w"} /\ k \notin LiveOf(conns)
    BY <1>1, <1>4, <1>6, SMTT(30) DEF TableOk, LiveOf
  <2> QED BY <1>1, <1>6, <1>11, <2>1 DEF Entry
<1>13. /\ table' \in Seq(Entry) /\ Once(table')
       /\ \A x : x \in ToSet(table') <=> x \in ToSet(table) \/ x = e
  <2>1. table' = Append(table, e) /\ table \in Seq(Entry) /\ Once(table)
    BY <1>2, <1>11, Zenon DEF LoopTable
  <2> QED BY <1>12, <2>1, Appended
<1>14. TableOk(conns', ToSet(table'))
  <2>1. PICK cs, ds, T, U : /\ cs = conns /\ T = ToSet(table)
                            /\ ds = conns' /\ U = ToSet(table')
    BY Zenon
  <2>2. \A x : x \in U <=> x \in T \/ x = <<Len(ds), "r">>
    BY <1>1, <1>10, <1>11, <1>13, <2>1
  <2>3. TableOk(cs, T) /\ Len(cs) < MaxConns /\ MaxConns \in Nat
    BY <1>2, <1>4, <1>6, <2>1, ZenonT(40)
  <2>4. \A c \in LiveOf(cs) : cs[c].addr # a /\ cs[c].fd # f /\ cs[c].dup # f
    BY <1>3, <1>5, <2>1, Zenon
  <2>5. /\ ds \in Seq(Conn) /\ Len(ds) = Len(cs) + 1 /\ \A c \in 1..Len(cs) : ds[c] = cs[c]
        /\ ds[Len(ds)].exists /\ ds[Len(ds)].addr = a /\ ds[Len(ds)].fd = f /\ ds[Len(ds)].dup = 0
    BY <1>8, <1>10, <2>1, ZenonT(40)
  <2>6. TableOk(ds, U)
    BY <1>3, <1>5, <2>2, <2>3, <2>4, <2>5, OkOpen, ZenonT(40)
  <2> QED BY <2>1, <2>6
<1>15. ToSet(ready') \subseteq ToSet(table')
  BY <1>2, <1>13, Zenon DEF LoopTable
<1> QED BY <1>2, <1>13, <1>14, <1>15 DEF LoopTable

LEMMA AddWriteKeeps ==
    ASSUME LoopAssumption, LoopTable, NEW c, AddWrite(c)
    PROVE  LoopTable'
<1>1. PICK f, e : f = Descriptor /\ e = <<c, "w">>
  BY Zenon
<1>2. TableOk(conns, ToSet(table))
  BY Zenon DEF LoopTable
<1>3. /\ c \in LiveOf(conns) /\ conns[c].dup = 0
      /\ conns' = [conns EXCEPT ![c].dup = f] /\ table' = Append(table, e)
      /\ posix' = posix /\ ready' = ready
  BY <1>1, LiveIs, Zenon DEF AddWrite
<1>4. f \in Nat \ {0} /\ \A k \in LiveOf(conns) : conns[k].fd # f /\ conns[k].dup # f
  BY <1>1, <1>2, <1>3, DescriptorFree, LiveIs, ZenonT(40)
<1>5. conns \in Seq(Conn) /\ Len(conns) \in Nat /\ c \in 1..Len(conns)
  BY <1>2, <1>3, SMTT(30) DEF TableOk, LiveOf
<1>6. /\ conns' \in Seq(Conn) /\ Len(conns') = Len(conns)
      /\ \A k \in 1..Len(conns) : k # c => conns'[k] = conns[k]
      /\ conns'[c].exists = conns[c].exists /\ conns'[c].addr = conns[c].addr
      /\ conns'[c].fd = conns[c].fd /\ conns'[c].dup = f
  <2>1. conns[c] \in Conn
    BY <1>5
  <2>2. PICK d : d = [conns[c] EXCEPT !.dup = f]
    BY Zenon
  <2>3. /\ d \in Conn /\ d.exists = conns[c].exists /\ d.addr = conns[c].addr
        /\ d.fd = conns[c].fd /\ d.dup = f
    BY <1>4, <2>1, <2>2, Zenon DEF Conn
  <2>4. conns' = [conns EXCEPT ![c] = d]
    BY <1>3, <2>2, Zenon
  <2> QED BY <1>5, <2>3, <2>4
<1>7. e \in Entry /\ e \notin ToSet(table)
  BY <1>1, <1>2, <1>3, <1>5, SMTT(30) DEF TableOk, Entry
<1>8. /\ table' \in Seq(Entry) /\ Once(table')
      /\ \A x : x \in ToSet(table') <=> x \in ToSet(table) \/ x = e
  <2>1. table' = Append(table, e) /\ table \in Seq(Entry) /\ Once(table)
    BY <1>3, Zenon DEF LoopTable
  <2> QED BY <1>7, <2>1, Appended
<1>9. TableOk(conns', ToSet(table'))
  <2>1. PICK cs, ds, T, U : /\ cs = conns /\ T = ToSet(table)
                            /\ ds = conns' /\ U = ToSet(table')
    BY Zenon
  <2>2. /\ \A x : x # <<c, "w">> => (x \in U <=> x \in T)
        /\ <<c, "w">> \in U <=> f # 0
    BY <1>1, <1>4, <1>8, <2>1, Zenon
  <2>3. TableOk(cs, T) /\ c \in LiveOf(cs) /\ f \in Nat
        /\ \A k \in LiveOf(cs) : cs[k].fd # f /\ cs[k].dup # f
    BY <1>2, <1>3, <1>4, <2>1, Zenon
  <2>4. /\ ds \in Seq(Conn) /\ Len(ds) = Len(cs) /\ \A k \in 1..Len(cs) : k # c => ds[k] = cs[k]
        /\ ds[c].exists /\ ds[c].addr = cs[c].addr /\ ds[c].fd = cs[c].fd /\ ds[c].dup = f
    BY <1>3, <1>6, <2>1, Zenon DEF LiveOf
  <2>5. TableOk(ds, U)
    BY <2>2, <2>3, <2>4, OkDup, SMTT(30)
  <2> QED BY <2>1, <2>5
<1>10. ToSet(ready') \subseteq ToSet(table')
  BY <1>3, <1>8, Zenon DEF LoopTable
<1> QED BY <1>3, <1>8, <1>9, <1>10 DEF LoopTable

LEMMA RemoveWriteKeeps ==
    ASSUME LoopTable, NEW c, RemoveWrite(c)
    PROVE  LoopTable'
<1>1. PICK e : e = <<c, "w">>
  BY Zenon
<1>2. TableOk(conns, ToSet(table))
  BY Zenon DEF LoopTable
<1>3. /\ e \in ToSet(table) /\ conns' = [conns EXCEPT ![c].dup = 0]
      /\ table' = RemoveFirst(table, e) /\ ready' = RemoveFirst(ready, e)
      /\ posix' = posix
  BY <1>1, LiveIs, Zenon DEF RemoveWrite
<1>4. c \in LiveOf(conns)
  BY <1>1, <1>2, <1>3, Zenon DEF TableOk
<1>5. conns \in Seq(Conn) /\ Len(conns) \in Nat /\ c \in 1..Len(conns)
  BY <1>2, <1>4, SMTT(30) DEF TableOk, LiveOf
<1>6. /\ conns' \in Seq(Conn) /\ Len(conns') = Len(conns)
      /\ \A k \in 1..Len(conns) : k # c => conns'[k] = conns[k]
      /\ conns'[c].exists = conns[c].exists /\ conns'[c].addr = conns[c].addr
      /\ conns'[c].fd = conns[c].fd /\ conns'[c].dup = 0
  <2>1. conns[c] \in Conn
    BY <1>5
  <2>2. PICK d : d = [conns[c] EXCEPT !.dup = 0]
    BY Zenon
  <2>3. /\ d \in Conn /\ d.exists = conns[c].exists /\ d.addr = conns[c].addr
        /\ d.fd = conns[c].fd /\ d.dup = 0
    BY <2>1, <2>2, Zenon DEF Conn
  <2>4. conns' = [conns EXCEPT ![c] = d]
    BY <1>3, <2>2, Zenon
  <2> QED BY <1>5, <2>3, <2>4
<1>7. /\ table' \in Seq(Entry) /\ Once(table')
      /\ ToSet(table') = ToSet(table) \ {e}
  BY <1>3, Removed, Zenon DEF LoopTable
<1>8. /\ ready' \in Seq(Entry) /\ Once(ready')
      /\ ToSet(ready') = ToSet(ready) \ {e}
  BY <1>3, Removed, Zenon DEF LoopTable
<1>9. TableOk(conns', ToSet(table'))
  <2>1. PICK cs, ds, T, U : /\ cs = conns /\ T = ToSet(table)
                            /\ ds = conns' /\ U = ToSet(table')
    BY Zenon
  <2>2. /\ \A x : x # <<c, "w">> => (x \in U <=> x \in T)
        /\ ~(<<c, "w">> \in U)
    BY <1>1, <1>7, <2>1, Zenon
  <2>3. TableOk(cs, T) /\ c \in LiveOf(cs)
    BY <1>2, <1>4, <2>1, Zenon
  <2>4. /\ ds \in Seq(Conn) /\ Len(ds) = Len(cs) /\ \A k \in 1..Len(cs) : k # c => ds[k] = cs[k]
        /\ ds[c].exists /\ ds[c].addr = cs[c].addr /\ ds[c].fd = cs[c].fd /\ ds[c].dup = 0
    BY <1>4, <1>6, <2>1, Zenon DEF LiveOf
  <2>5. TableOk(ds, U)
    BY <2>2, <2>3, <2>4, OkDup, SMTT(30)
  <2> QED BY <2>1, <2>5
<1>10. ToSet(ready') \subseteq ToSet(table')
  BY <1>7, <1>8, Zenon DEF LoopTable
<1> QED BY <1>3, <1>7, <1>8, <1>9, <1>10 DEF LoopTable

LEMMA ClosingKeeps ==
    ASSUME LoopTable, NEW c \in LiveOf(conns), Closing(c), posix' = posix
    PROVE  LoopTable'
<1>1. TableOk(conns, ToSet(table))
  BY Zenon DEF LoopTable
<1>2. PICK d : d = [exists |-> FALSE, addr |-> 0, fd |-> 0, dup |-> 0]
  BY Zenon
<1>3. d \in Conn /\ ~d.exists
  BY <1>2, Zenon DEF Conn
<1>4. /\ conns' = [conns EXCEPT ![c] = d]
      /\ table' = Drop(table, c) /\ ready' = Drop(ready, c)
  BY <1>2, Zenon DEF Closing
<1>5. conns \in Seq(Conn) /\ Len(conns) \in Nat /\ c \in 1..Len(conns)
  BY <1>1 DEF TableOk, LiveOf
<1>6. /\ conns' \in Seq(Conn) /\ Len(conns') = Len(conns)
      /\ \A k \in 1..Len(conns) : k # c => conns'[k] = conns[k]
      /\ ~conns'[c].exists
  BY <1>3, <1>4, <1>5, SMTT(30)
<1>7. /\ table' \in Seq(Entry) /\ Once(table')
      /\ \A e : e \in ToSet(table') <=>
                e \in ToSet(table) /\ e # <<c, "r">> /\ e # <<c, "w">>
  <2>1. table' = Drop(table, c) /\ table \in Seq(Entry) /\ Once(table)
    BY <1>4, Zenon DEF LoopTable
  <2> QED BY <2>1, Dropped
<1>8. /\ ready' \in Seq(Entry) /\ Once(ready')
      /\ \A e : e \in ToSet(ready') <=>
                e \in ToSet(ready) /\ e # <<c, "r">> /\ e # <<c, "w">>
  <2>1. ready' = Drop(ready, c) /\ ready \in Seq(Entry) /\ Once(ready)
    BY <1>4, Zenon DEF LoopTable
  <2> QED BY <2>1, Dropped
<1>9. TableOk(conns', ToSet(table'))
  <2>1. PICK cs, ds, T, U : /\ cs = conns /\ T = ToSet(table)
                            /\ ds = conns' /\ U = ToSet(table')
    BY Zenon
  <2>2. \A e : e \in U <=> e \in T /\ e # <<c, "r">> /\ e # <<c, "w">>
    BY <1>7, <2>1, Zenon
  <2>3. TableOk(cs, T) /\ c \in LiveOf(cs)
    BY <1>1, <2>1, Zenon
  <2>4. /\ ds \in Seq(Conn) /\ Len(ds) = Len(cs) /\ \A k \in 1..Len(cs) : k # c => ds[k] = cs[k]
        /\ ~ds[c].exists
    BY <1>6, <2>1, Zenon
  <2>5. TableOk(ds, U)
    BY <2>2, <2>3, <2>4, OkClose, SMTT(30)
  <2> QED BY <2>1, <2>5
<1>10. ToSet(ready') \subseteq ToSet(table')
  BY <1>7, <1>8, Zenon DEF LoopTable
<1> QED BY <1>7, <1>8, <1>9, <1>10 DEF LoopTable

\* The obus_fds that are ready are some of those in the table.
Raised(e) ==
    /\ e \in ToSet(table) /\ e \notin ToSet(ready)
    /\ ready' = Append(ready, e)

LEMMA ReadyMore ==
    ASSUME LoopTable, UNCHANGED <<posix, conns, table>>, NEW e, Raised(e)
    PROVE  LoopTable'
<1>0. /\ e \in ToSet(table) /\ e \notin ToSet(ready)
      /\ ready' = Append(ready, e)
  BY Zenon DEF Raised
<1>1. ready \in Seq(Entry) /\ Once(ready) /\ ToSet(ready) \subseteq ToSet(table)
  BY Zenon DEF LoopTable
<1>2. e \in Entry
  BY <1>0 DEF LoopTable, ToSet
<1>3. /\ ready' \in Seq(Entry) /\ Once(ready')
      /\ \A x : x \in ToSet(ready') <=> x \in ToSet(ready) \/ x = e
  <2>1. PICK q, r, S : q = ready /\ r = ready' /\ S = Entry
    BY Zenon
  <2>2. e \in S /\ e \notin ToSet(q) /\ r = Append(q, e) /\ q \in Seq(S) /\ Once(q)
    BY <1>0, <1>1, <1>2, <2>1, SMTT(30)
  <2>3. /\ r \in Seq(S) /\ Once(r)
        /\ \A x : x \in ToSet(r) <=> x \in ToSet(q) \/ x = e
    BY <2>2, Appended, ZenonT(40)
  <2> QED BY <2>1, <2>3
<1>4. ToSet(ready') \subseteq ToSet(table)
  BY <1>0, <1>1, <1>3, Zenon
<1> QED BY <1>3, <1>4 DEF LoopTable

LEMMA ReadyLess ==
    ASSUME LoopTable, UNCHANGED <<posix, conns, table>>,
           ready' = ready \/ \E e : ready' = RemoveFirst(ready, e)
    PROVE  LoopTable'
<1>1. ready \in Seq(Entry) /\ Once(ready) /\ ToSet(ready) \subseteq ToSet(table)
  BY Zenon DEF LoopTable
<1>2. CASE ready' = ready
  BY <1>2, Zenon DEF LoopTable
<1>3. ASSUME NEW e, ready' = RemoveFirst(ready, e) PROVE LoopTable'
  <2>1. /\ ready' \in Seq(Entry) /\ Once(ready')
        /\ ToSet(ready') = ToSet(ready) \ {e}
    BY <1>1, <1>3, Removed, SMTT(30)
  <2>2. ToSet(ready') \subseteq ToSet(table)
    BY <1>1, <2>1, Zenon
  <2> QED BY <2>1, <2>2 DEF LoopTable
<1> QED BY <1>2, <1>3

\* The events of the first k places of the array that are set.
Ready(b, k) == {m \in 1..k : b[m].ready}

\* The walk is at place i, and has counted the events before it; the kernel has told
\* how many there are.
WalkInv ==
    pc # "idle" =>
        /\ Len(batch) \in Nat /\ i \in Nat \ {0} /\ i <= Len(batch) + 1
        /\ ret = Cardinality(Ready(batch, Len(batch)))
        /\ j = Cardinality(Ready(batch, i - 1))

LEMMA CountNext ==
    ASSUME NEW b, NEW k \in Nat \ {0}
    PROVE  /\ IsFiniteSet(Ready(b, k - 1)) /\ Cardinality(Ready(b, k - 1)) \in Nat
           /\ Cardinality(Ready(b, k)) =
                IF b[k].ready THEN Cardinality(Ready(b, k - 1)) + 1 ELSE Cardinality(Ready(b, k - 1))
<1>1. PICK S, T, M : S = Ready(b, k - 1) /\ T = Ready(b, k) /\ M = 1..(k - 1)
  BY Zenon
<1>2. IsFiniteSet(M)
  BY <1>1, Numbers
<1>3. S \in SUBSET M
  BY <1>1, Zenon DEF Ready
<1>4. IsFiniteSet(S) /\ Cardinality(S) \in Nat
  BY <1>2, <1>3, FS_Subset, FS_CardinalityType, Zenon
<1>5. k \notin S
  BY <1>1 DEF Ready
<1>6. CASE b[k].ready
  <2>1. T = S \cup {k}
    BY <1>1, <1>6 DEF Ready
  <2>2. Cardinality(S \cup {k}) = IF k \in S THEN Cardinality(S) ELSE Cardinality(S) + 1
    BY <1>4, FS_AddElement, Zenon
  <2>3. Cardinality(T) = Cardinality(S) + 1
    BY <1>5, <2>1, <2>2, Zenon
  <2> QED BY <1>1, <1>4, <1>6, <2>3
<1>7. CASE ~b[k].ready
  <2>1. T = S
    BY <1>1, <1>7, SMTT(30) DEF Ready
  <2> QED BY <1>1, <1>4, <1>7, <2>1
<1> QED BY <1>6, <1>7

\* poll or epoll_wait returns the number of the events it has set: those that are
\* ready are all in the array, and each of them once.
LEMMA CountAll ==
    ASSUME NEW S, NEW src \in Seq(S), Once(src), NEW q \in Seq(S), Once(q),
           ToSet(q) \subseteq ToSet(src),
           NEW R, R = {m \in 1..Len(src) : src[m] \in ToSet(q)}
    PROVE  Cardinality(R) = Len(q)
<1>1. Len(q) \in Nat /\ Len(src) \in Nat
  OBVIOUS
<1>2. \A x : x \in ToSet(q) <=> \E k \in 1..Len(q) : x = q[k]
  BY DEF ToSet
<1>3. \A x : x \in ToSet(src) <=> \E k \in 1..Len(src) : x = src[k]
  BY DEF ToSet
<1> DEFINE f == [k \in 1..Len(q) |-> CHOOSE m \in 1..Len(src) : src[m] = q[k]]
<1>4. ASSUME NEW k \in 1..Len(q) PROVE f[k] \in 1..Len(src) /\ src[f[k]] = q[k]
  <2>1. \E m \in 1..Len(src) : src[m] = q[k]
    BY <1>2, <1>3, <1>4, Zenon
  <2>2. f[k] = CHOOSE m \in 1..Len(src) : src[m] = q[k]
    BY <1>4, Zenon
  <2> QED BY <2>1, <2>2, Zenon
<1>5. DOMAIN f = 1..Len(q) /\ f = [k \in 1..Len(q) |-> f[k]]
  OBVIOUS
<1> HIDE DEF f
<1>6. PICK Q : Q = 1..Len(q)
  BY Zenon
<1>7. f \in [Q -> R]
  <2>1. ASSUME NEW k \in Q PROVE f[k] \in R
    <3>1. q[k] \in ToSet(q)
      BY <1>2, <1>6, <2>1, Zenon
    <3>2. f[k] \in 1..Len(src) /\ src[f[k]] = q[k]
      BY <1>4, <1>6, <2>1, SMTT(30)
    <3> QED BY <3>1, <3>2
  <2> QED BY <1>5, <1>6, <2>1
<1>8. ASSUME NEW a \in Q, NEW b \in Q, f[a] = f[b] PROVE a = b
  <2>1. q[a] = q[b]
    BY <1>4, <1>6, <1>8, SMTT(30)
  <2> QED BY <1>6, <1>8, <2>1 DEF Once
<1>9. ASSUME NEW m \in R PROVE \E k \in Q : f[k] = m
  <2>1. m \in 1..Len(src) /\ src[m] \in ToSet(q)
    BY <1>9, Zenon
  <2>2. PICK k \in Q : src[m] = q[k]
    BY <1>2, <1>6, <2>1, SMTT(30)
  <2>3. f[k] \in 1..Len(src) /\ src[f[k]] = src[m]
    BY <1>4, <1>6, <2>2, Zenon
  <2>4. f[k] = m
    BY <2>1, <2>3, Zenon DEF Once
  <2> QED BY <2>4
<1>10. f \in Bijection(Q, R)
  <2>1. f \in Injection(Q, R)
    BY <1>7, <1>8, Zenon DEF Injection, IsInjective
  <2>2. f \in Surjection(Q, R)
    BY <1>7, <1>9, Zenon DEF Surjection
  <2> QED BY <2>1, <2>2 DEF Bijection
<1>11. ExistsBijection(Q, R)
  BY <1>10, Zenon DEF ExistsBijection
<1>12. IsFiniteSet(Q) /\ Cardinality(Q) = Len(q)
  BY <1>1, <1>6, Numbers, SMTT(30)
<1> QED BY <1>11, <1>12, FS_Bijection

\* What the loop keeps: its table, the handler it is about to call, and the walk.
LoopInv == LoopTable /\ CalledInTable /\ WalkInv

\* obus_loop_do_process asks the kernel.
LEMMA ProcessCounts ==
    ASSUME LoopTable, Process
    PROVE  WalkInv'
<1>1. PICK src, n : src = (IF posix THEN table ELSE ready) /\ n = Len(src)
  BY Zenon
<1>2. src \in Seq(Entry) /\ Once(src) /\ ToSet(ready) \subseteq ToSet(src)
      /\ ready \in Seq(Entry) /\ Once(ready)
  BY <1>1, Zenon DEF LoopTable
<1>3. n \in Nat
  BY <1>1, <1>2
<1>4. batch' = [k \in 1..n |-> Event(src[k])] /\ i' = 1 /\ j' = 0 /\ ret' = Len(ready)
  BY <1>1, Zenon DEF Process
<1>5. Len(batch') = n
  <2>1. batch' \in [1..n -> {batch'[k] : k \in 1..n}]
    BY <1>4, Zenon
  <2>2. batch' \in Seq({batch'[k] : k \in 1..n})
    BY <1>3, <2>1, SeqDef, Zenon
  <2> QED BY <1>3, <1>4, <2>2
<1>6. Ready(batch', n) = {m \in 1..n : src[m] \in ToSet(ready)}
  <2>1. \A m \in 1..n : batch'[m].ready <=> src[m] \in ToSet(ready)
    BY <1>4, Zenon DEF Event
  <2> QED BY <2>1 DEF Ready
<1>7. PICK R : R = {m \in 1..Len(src) : src[m] \in ToSet(ready)}
  BY Zenon
<1>8. Cardinality(R) = Len(ready)
  BY <1>2, <1>7, CountAll, SMTT(30)
<1>9. Cardinality(Ready(batch', n)) = ret'
  BY <1>1, <1>4, <1>6, <1>7, <1>8, ZenonT(40)
<1>10. Cardinality(Ready(batch', 0)) = 0
  <2>1. Ready(batch', 0) = {}
    BY DEF Ready
  <2> QED BY <2>1, FS_EmptySet
<1> QED BY <1>3, <1>4, <1>5, <1>9, <1>10 DEF WalkInv

\* One turn of the walk: the place it looks at is in the array, since all the events
\* have been counted when it has passed the end.
LEMMA WalkInside ==
    ASSUME WalkInv, pc = "walk", j < ret
    PROVE  i <= Len(batch)
<1>1. /\ Len(batch) \in Nat /\ i \in Nat \ {0} /\ i <= Len(batch) + 1
      /\ ret = Cardinality(Ready(batch, Len(batch))) /\ j = Cardinality(Ready(batch, i - 1))
  BY Zenon DEF WalkInv
<1>2. SUFFICES ASSUME i = Len(batch) + 1 PROVE FALSE
  BY <1>1
<1>3. i - 1 = Len(batch)
  BY <1>1, <1>2
<1>4. j = ret
  BY <1>1, <1>3, Zenon
<1>5. j \in Nat
  BY <1>1, CountNext, Zenon
<1> QED BY <1>4, <1>5

LEMMA WalkCounts ==
    ASSUME WalkInv, Walk
    PROVE  WalkInv'
<1>1. /\ pc = "walk" /\ j < ret /\ i' = i + 1 /\ batch' = batch /\ ret' = ret
      /\ j' = IF batch[i].ready THEN j + 1 ELSE j
  BY Zenon DEF Walk
<1>2. i <= Len(batch)
  BY <1>1, WalkInside, Zenon
<1>3. /\ Len(batch) \in Nat /\ i \in Nat \ {0}
      /\ ret = Cardinality(Ready(batch, Len(batch))) /\ j = Cardinality(Ready(batch, i - 1))
  BY <1>1, Zenon DEF WalkInv
<1>4. j' = Cardinality(Ready(batch, i))
  BY <1>1, <1>3, CountNext, Zenon
<1>5. i' - 1 = i /\ i' \in Nat \ {0} /\ i' <= Len(batch') + 1
  BY <1>1, <1>2, <1>3, SMTT(30)
<1>6. Ready(batch', Len(batch')) = Ready(batch, Len(batch)) /\ Ready(batch', i' - 1) = Ready(batch, i)
  BY <1>1, <1>5, Zenon DEF Ready
<1> QED BY <1>1, <1>3, <1>4, <1>5, <1>6 DEF WalkInv

LEMMA WalkSame ==
    ASSUME WalkInv, UNCHANGED walkVars, pc # "idle" \/ pc' = "idle"
    PROVE  WalkInv'
<1>1. batch' = batch /\ i' = i /\ j' = j /\ ret' = ret
  BY Zenon DEF walkVars
<1>2. Ready(batch', Len(batch')) = Ready(batch, Len(batch)) /\ Ready(batch', i' - 1) = Ready(batch, i - 1)
  BY <1>1, Zenon DEF Ready
<1> QED BY <1>1, <1>2 DEF WalkInv

LEMMA LoopStep ==
    ASSUME LoopAssumption, LoopInv, [Next]_(vars)
    PROVE  LoopInv'
<1>1. LoopTable /\ CalledInTable /\ WalkInv
  BY Zenon DEF LoopInv
<1>2. ASSUME Running, UNCHANGED <<walkVars, pc>>
      PROVE  CalledInTable' /\ WalkInv'
  <2>1. pc' # "call"
    BY <1>2, Zenon DEF Running
  <2>2. WalkInv'
    BY <1>1, <1>2, WalkSame, Zenon DEF Running
  <2> QED BY <2>1, <2>2 DEF CalledInTable
<1>3. CASE Open
  <2>1. Running /\ UNCHANGED <<walkVars, pc>>
    BY <1>3, Zenon DEF Open
  <2> QED BY <1>1, <1>2, <1>3, <2>1, OpenKeeps DEF LoopInv
<1>4. ASSUME NEW c, AddWrite(c) PROVE LoopInv'
  <2>1. Running /\ UNCHANGED <<walkVars, pc>>
    BY <1>4, Zenon DEF AddWrite
  <2> QED BY <1>1, <1>2, <1>4, <2>1, AddWriteKeeps DEF LoopInv
<1>5. ASSUME NEW c, RemoveWrite(c) PROVE LoopInv'
  <2>1. Running /\ UNCHANGED <<walkVars, pc>>
    BY <1>5, Zenon DEF RemoveWrite
  <2> QED BY <1>1, <1>2, <1>5, <2>1, RemoveWriteKeeps DEF LoopInv
<1>6. ASSUME NEW c, Close(c) PROVE LoopInv'
  <2>1. Running /\ UNCHANGED <<walkVars, pc>>
    BY <1>6, Zenon DEF Close
  <2>2. c \in LiveOf(conns) /\ Closing(c) /\ posix' = posix
    BY <1>6, LiveIs, Zenon DEF Close
  <2> QED BY <1>1, <1>2, <2>1, <2>2, ClosingKeeps DEF LoopInv
<1>7. ASSUME UNCHANGED <<posix, conns, table, walkVars, pc>>, pc = "idle", LoopTable'
      PROVE  LoopInv'
  <2>1. WalkInv'
    BY <1>1, <1>7, WalkSame, Zenon
  <2> QED BY <1>7, <2>1 DEF LoopInv, CalledInTable
<1>8. ASSUME NEW e, Signal(e) PROVE LoopInv'
  <2>1. UNCHANGED <<posix, conns, table, walkVars, pc>> /\ pc = "idle" /\ Raised(e)
    BY <1>8, LiveIs, Zenon DEF Signal, Raised
  <2> QED BY <1>1, <1>7, <2>1, ReadyMore
<1>9. ASSUME NEW c, HangUp(c) PROVE LoopInv'
  <2>1. PICK e : e = <<c, "r">>
    BY Zenon
  <2>2. /\ UNCHANGED <<posix, conns, table, walkVars, pc>> /\ pc = "idle"
        /\ e \in ToSet(table)
        /\ ready' = IF e \in ToSet(ready) THEN ready ELSE Append(ready, e)
    BY <1>9, <2>1, LiveIs, Zenon DEF HangUp
  <2>3. ready' = ready \/ Raised(e)
    BY <2>2, Zenon DEF Raised
  <2> QED BY <1>1, <1>7, <2>2, <2>3, ReadyMore, ReadyLess
<1>10. CASE Process
  <2>1. UNCHANGED <<posix, conns, table, ready>> /\ pc' = "walk"
    BY <1>10, Zenon DEF Process
  <2> QED BY <1>1, <1>10, <2>1, ReadyLess, ProcessCounts DEF LoopInv, CalledInTable
<1>11. CASE Walk
  <2>1. UNCHANGED <<posix, conns, table, ready>>
    BY <1>11, Zenon DEF Walk
  <2>2. pc' = "call" => cur'.of \in InTable
    <3>1. pc = "walk" /\ ((\E e \in Found(batch[i]) :
                             cur' = [of |-> e, err |-> batch[i].err, from |-> batch[i].from])
                         \/ pc' = pc)
      BY <1>11, Zenon DEF Walk
    <3> QED BY <3>1 DEF Found
  <2>3. InTable' = InTable
    BY <2>1, Zenon DEF InTable
  <2> QED BY <1>1, <1>11, <2>1, <2>2, <2>3, ReadyLess, WalkCounts DEF LoopInv, CalledInTable
<1>12. CASE WalkEnd
  <2>1. UNCHANGED <<posix, conns, table, ready>> /\ pc' = "idle"
    BY <1>12, Zenon DEF WalkEnd
  <2> QED BY <1>1, <2>1, ReadyLess DEF LoopInv, CalledInTable, WalkInv
<1>13. CASE Call
  <2>1. pc = "call" /\ pc' = "handler" /\ UNCHANGED <<posix, walkVars>>
    BY <1>13, Zenon DEF Call
  <2>2. WalkInv'
    BY <1>1, <2>1, WalkSame, SMTT(30)
  <2>3. CASE cur.err /\ Closing(cur.of[1])
    <3>1. cur.of[1] \in LiveOf(conns)
      BY <1>1, <2>1, LiveIs, Zenon DEF CalledInTable, LoopTable, TableOk
    <3>2. LoopTable'
      BY <1>1, <2>1, <2>3, <3>1, ClosingKeeps, SMTT(30)
    <3> QED BY <2>1, <2>2, <3>2 DEF LoopInv, CalledInTable
  <2>4. CASE ~cur.err
    <3>1. /\ UNCHANGED <<conns, table>>
          /\ ready' = ready \/ ready' = RemoveFirst(ready, cur.of)
      BY <1>13, <2>4, Zenon DEF Call
    <3>2. LoopTable'
      BY <1>1, <2>1, <3>1, ReadyLess, SMTT(30)
    <3> QED BY <2>1, <2>2, <3>2 DEF LoopInv, CalledInTable
  <2> QED BY <1>13, <2>3, <2>4 DEF Call
<1>14. CASE Return
  <2>1. UNCHANGED <<posix, conns, table, ready, walkVars>> /\ pc = "handler" /\ pc' = "walk"
    BY <1>14, Zenon DEF Return
  <2> QED BY <1>1, <2>1, ReadyLess, WalkSame DEF LoopInv, CalledInTable
<1>15. CASE UNCHANGED vars
  <2>1. UNCHANGED <<posix, conns, table, ready, walkVars, pc, cur>>
    BY <1>15, Zenon DEF vars, walkVars
  <2> QED BY <1>1, <2>1, ReadyLess, WalkSame DEF LoopInv, CalledInTable, InTable
<1> QED BY <1>3, <1>4, <1>5, <1>6, <1>8, <1>9, <1>10, <1>11, <1>12, <1>13, <1>14, <1>15
    DEF Next

LEMMA LoopStart == ASSUME LoopAssumption, Init PROVE LoopInv
<1>1. /\ posix \in BOOLEAN /\ conns = <<>> /\ table = <<>> /\ ready = <<>> /\ pc = "idle"
  BY Zenon DEF Init
<1>2. ToSet(table) = {} /\ ToSet(ready) = {}
  BY <1>1 DEF ToSet
<1>3. LiveOf(conns) = {}
  BY <1>1 DEF LiveOf
<1>4. conns \in Seq(Conn) /\ Len(conns) = 0 /\ MaxConns \in Nat
  BY <1>1 DEF LoopAssumption
<1>5. TableOk(conns, ToSet(table))
  BY <1>2, <1>3, <1>4, SMTT(30) DEF TableOk
<1>6. table \in Seq(Entry) /\ ready \in Seq(Entry) /\ Once(table) /\ Once(ready)
  BY <1>1 DEF Once
<1> QED BY <1>1, <1>2, <1>5, <1>6 DEF LoopInv, LoopTable, CalledInTable, WalkInv

\* A handler is called for an obus_fd that is in the table when it is called, whatever
\* the handlers before it in the same walk have removed or closed; an obus_fd in the
\* table has a descriptor, or an address, of its own, and a duplicate is open exactly as
\* long as there is something to write (obus_loop_do_process, obus_loop_add,
\* obus_loop_remove).
THEOREM CalledInTableCorrect ==
    ASSUME LoopAssumption
    PROVE  Spec => [](CalledInTable /\ Descriptors)
<1>1. Init => LoopInv
  BY LoopStart, Zenon
<1>2. LoopInv /\ [Next]_(vars) => LoopInv'
  BY LoopStep, Zenon
<1>3. LoopInv => CalledInTable
  BY Zenon DEF LoopInv
<1>4. LoopInv => Descriptors
  <2> SUFFICES ASSUME LoopInv PROVE Descriptors
    BY Zenon
  <2>1. PICK T : T = ToSet(table)
    BY Zenon
  <2>2. TableOk(conns, T) /\ InTable = T /\ Live = LiveOf(conns)
    BY <2>1, LiveIs, Zenon DEF LoopInv, LoopTable
  <2>3. \A e \in T : e[1] \in LiveOf(conns) /\ e[2] \in {"r", "w"} /\ e = <<e[1], e[2]>>
    BY <2>2 DEF TableOk
  <2>4. \A c \in LiveOf(conns) : conns[c].dup # 0 <=> <<c, "w">> \in T
    BY <2>2, Zenon DEF TableOk
  <2>5. ASSUME NEW d \in T, NEW e \in T, Key(d) = Key(e) PROVE d = e
    <3>1. /\ d[1] \in LiveOf(conns) /\ e[1] \in LiveOf(conns) /\ d = <<d[1], d[2]>> /\ e = <<e[1], e[2]>>
          /\ d[2] \in {"r", "w"} /\ e[2] \in {"r", "w"}
      BY <2>3, <2>5, Zenon
    <3>2. /\ d[2] = "w" => conns[d[1]].dup # 0
          /\ e[2] = "w" => conns[e[1]].dup # 0
      BY <2>4, <2>5, <3>1, SMTT(30)
    <3>3. /\ conns[d[1]].addr = conns[e[1]].addr => d[1] = e[1]
          /\ conns[d[1]].fd = conns[e[1]].fd => d[1] = e[1]
          /\ conns[d[1]].fd # conns[e[1]].dup /\ conns[e[1]].fd # conns[d[1]].dup
          /\ conns[d[1]].dup = conns[e[1]].dup /\ conns[d[1]].dup # 0 => d[1] = e[1]
      BY <2>2, <3>1, SMTT(30) DEF TableOk
    <3>4. CASE posix
      <4>1. (IF d[2] = "r" THEN conns[d[1]].fd ELSE conns[d[1]].dup)
            = (IF e[2] = "r" THEN conns[e[1]].fd ELSE conns[e[1]].dup)
        BY <2>5, <3>4, Zenon DEF Key
      <4>2. d[1] = e[1] /\ d[2] = e[2]
        BY <3>1, <3>2, <3>3, <4>1, SMTT(30)
      <4> QED BY <3>1, <4>2
    <3>5. CASE ~posix
      <4>1. <<conns[d[1]].addr, d[2]>> = <<conns[e[1]].addr, e[2]>>
        BY <2>5, <3>5, Zenon DEF Key
      <4>2. d[1] = e[1] /\ d[2] = e[2]
        BY <3>3, <4>1, Zenon
      <4> QED BY <3>1, <4>2
    <3> QED BY <3>4, <3>5
  <2> QED BY <2>2, <2>3, <2>4, <2>5 DEF Descriptors
<1> QED BY <1>1, <1>2, <1>3, <1>4, PTL DEF Spec

\* The walk over the events never reads past those that the kernel has filled in,
\* although its bound is the length of the table, which handlers change: it stops when
\* it has counted as many events as there are (obus_loop_do_process).
THEOREM WalkInArrayCorrect ==
    ASSUME LoopAssumption
    PROVE  Spec => []WalkInArray
<1>1. Init => LoopInv
  BY LoopStart, Zenon
<1>2. LoopInv /\ [Next]_(vars) => LoopInv'
  BY LoopStep, Zenon
<1>3. LoopInv => WalkInArray
  BY WalkInside, Zenon DEF LoopInv, WalkInArray
<1> QED BY <1>1, <1>2, <1>3, PTL DEF Spec

====
