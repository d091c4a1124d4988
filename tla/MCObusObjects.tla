---------------------------- MODULE MCObusObjects ---------------------------
(***************************************************************************)
(* The objects of the library and what they are made of, for TLC: the      *)
(* registry, the hash table, the walk over the peers, the coding of fields *)
(* and the merging of structures.  They do not share state; in a behaviour *)
(* one of them runs, the others stay as they begin.                        *)
(***************************************************************************)
EXTENDS ObusRegistry, Sequences, TLC

CONSTANTS
    Parts,                      \* the components that may run
    Keys, Data, Size,           \* of ObusHash
    Peers, MaxSends,            \* of ObusPeers
    NULL, EMPTY, FREE, red, blue     \* of ObusStruct and ObusCodec

VARIABLES
    part,                                                 \* the component that runs
    table, hashing, chains, entries, ret,                 \* ObusHash
    list, state, count, walks, got, sends, astray,        \* ObusPeers
    mem, obj, info, own, merged, want, infos, failed,     \* ObusStruct
    objs, rdesc, buf, out, cur, left, end, ctl, codecFails  \* ObusCodec

registryVars == vars
hashVars == <<table, hashing, chains, entries, ret>>
peersVars == <<list, state, count, walks, got, sends, astray>>
structVars == <<mem, obj, info, own, merged, want, infos, failed>>
codecVars == <<objs, rdesc, buf, out, cur, left, end, ctl, codecFails>>

-----------------------------------------------------------------------------
Hash == INSTANCE ObusHash WITH hash <- hashing

PeerWalk == INSTANCE ObusPeers WITH SendsInside <- FALSE, bad <- astray

\* Strings of the application and of the object; and null pointers, the array of the
\* object itself and an allocation that fails.
Merge == INSTANCE ObusStruct
    WITH Contents <- {red, blue}, Addr <- 1..9, Blocks <- 1..3, Slots <- {red, blue} \cup 0..2,
         Whole <- FALSE, Across <- FALSE, MaxItems <- 2, MaxInfos <- 2, MaxFails <- 0, fails <- failed
MergeFaulty == INSTANCE ObusStruct
    WITH Contents <- {red}, Addr <- 1..12, Blocks <- 1..4, Slots <- {NULL, red} \cup 0..2,
         Whole <- TRUE, Across <- FALSE, MaxItems <- 2, MaxInfos <- 3, MaxFails <- 1, fails <- failed

-----------------------------------------------------------------------------
(***************************************************************************)
(* A structure with a field of every kind, of which at most two are set,   *)
(* and clients with older or newer descriptions.                           *)
(***************************************************************************)

Radix == 16
ArrayOf(kind) == Radix \div 2 + kind
Field(uid, type) == [uid |-> uid, type |-> type]

\* The types, by their numbers in ObusCodec.
Byte == 0
Short == 1
Int32 == 2
Long == 3
Bool == 4
Enum == 5
Str == 6

Fields == << Field(1, Byte), Field(2, Short), Field(3, Long), Field(4, Bool), Field(5, Enum),
             Field(6, Str), Field(17, ArrayOf(Str)), Field(18, ArrayOf(Short)) >>

Strings == {NULL, <<>>, <<7>>}

Values(type) ==
    CASE type = Byte -> {15}
      [] type = Short -> {0, 18}
      [] type = Long -> {268435455}
      [] type = Bool -> {1, 2}
      [] type = Enum -> {33}
      [] type = Str -> Strings
      [] type = ArrayOf(Str) ->
           {[n |-> 0, items |-> NULL]} \cup {[n |-> 2, items |-> s] : s \in [1..2 -> Strings]}
      [] type = ArrayOf(Short) -> {[n |-> 2, items |-> <<1, 18>>], [n |-> 1, items |-> <<0>>]}

Uids == {Fields[i].uid : i \in 1..Len(Fields)}
TypeOf(u) == Fields[CHOOSE i \in 1..Len(Fields) : Fields[i].uid = u].type

\* The structures with at most two fields set; nothing reads the others.
Sources ==
    {[has |-> {}, val |-> <<>>]} \cup
    UNION {{[has |-> {u, w}, val |-> (u :> x) @@ (w :> y)] :
               x \in Values(TypeOf(u)), y \in Values(TypeOf(w))} :
           u \in Uids, w \in Uids}

Other == [has |-> {6}, val |-> [u \in {6} |-> <<7>>]]

Receivers ==
    { Fields,
      << Field(2, Int32), Field(3, ArrayOf(Long)), Field(6, Str), Field(17, Str) >>,
      << Field(1, Byte), Field(17, ArrayOf(Str)), Field(18, Short) >> }

Codec == INSTANCE ObusCodec
    WITH Others <- {Other},
         Stale <- [i \in 1..8 |-> 1], EnumDefault <- 1, MaxFails <- 1, fails <- codecFails

-----------------------------------------------------------------------------
ASSUME /\ Hash!HashAssumption /\ PeerWalk!PeersAssumption
       /\ Merge!StructAssumption /\ MergeFaulty!StructAssumption /\ Codec!CodecAssumption

\* Components that do not run begin in one state only.
InitObjects ==
    /\ part \in Parts
    /\ IF part = "hash" THEN TRUE ELSE hashing = [k \in Keys |-> 0]
    /\ IF part = "codec" THEN TRUE
       ELSE rdesc = Fields /\ objs = <<[has |-> {}, val |-> <<>>], Other>>
    /\ Init /\ Hash!Init /\ PeerWalk!Init /\ Codec!Init
    /\ IF part = "merge faulty" THEN MergeFaulty!Init ELSE Merge!Init

NextObjects ==
    \/ /\ part = "registry" /\ Next
       /\ UNCHANGED <<part, hashVars, peersVars, structVars, codecVars>>
    \/ /\ part = "hash" /\ Hash!Next
       /\ UNCHANGED <<part, registryVars, peersVars, structVars, codecVars>>
    \/ /\ part = "peers" /\ PeerWalk!Next
       /\ UNCHANGED <<part, registryVars, hashVars, structVars, codecVars>>
    \/ /\ part = "merge" /\ Merge!Next
       /\ UNCHANGED <<part, registryVars, hashVars, peersVars, codecVars>>
    \/ /\ part = "merge faulty" /\ MergeFaulty!Next
       /\ UNCHANGED <<part, registryVars, hashVars, peersVars, codecVars>>
    \/ /\ part = "codec" /\ Codec!Next
       /\ UNCHANGED <<part, registryVars, hashVars, peersVars, structVars>>

SpecObjects ==
    InitObjects /\ [][NextObjects]_<<part, registryVars, hashVars, peersVars, structVars, codecVars>>

-----------------------------------------------------------------------------
(***************************************************************************)
(* The properties of the components, with those of the registry.           *)
(***************************************************************************)

\* Through buckets and chains the hash table is a map that remembers the order of
\* its keys, for every hash function (obus_hash.c).
MapSpec == Hash!MapSpec

\* A walk over the peers never goes on to one that was freed, and each peer gets the
\* packets in the order in which they were sent (obus_server_send_peers).
WalkSafe == part = "peers" => PeerWalk!WalkSafe /\ PeerWalk!SentInOrder

\* Each string of the object is held by one field or one item only, and not by the
\* application: merging (obus_struct.c) never reads or frees what is free, whatever
\* fails and whatever strings of the object the application uses in an event, except
\* one that the same event replaces before it is read (Across of ObusStruct).
OwnedOnce ==
    /\ Merge!NoBadAccess
    /\ IF part = "merge faulty" THEN MergeFaulty!OwnedOnce ELSE Merge!OwnedOnce

\* What is allocated belongs to the object or to the application.
NothingLost == part = "merge" => Merge!NothingLost

\* A committed event gives the object the values that the application put in it,
\* although some of its strings were those of the object, except one that the same
\* event replaces before it is read.
MergeKeepsValues == part = "merge" => Merge!MergeKeepsValues

\* After every field of every object, decoded, skipped or given up for want of
\* memory, the reader is where the writer has put the next one, and a decoded
\* object has the fields that were sent and that its receiver knows with the same
\* type, with the values that were sent (obus_field.c, obus_struct.c).
RoundTrip == part = "codec" => Codec!Aligned /\ Codec!RoundTrip

=============================================================================
