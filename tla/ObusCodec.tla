------------------------------ MODULE ObusCodec -----------------------------
(***************************************************************************)
(* The encoding of the objects of a packet: fields (obus_field.c), the     *)
(* structures they form (obus_struct.c), the objects that carry them       *)
(* (obus_object.c) and the integers and strings below (obus_buffer.h).     *)
(*                                                                         *)
(* An object is written by a server whose description of its fields is     *)
(* Fields, and read by a client whose description rdesc may lack fields or *)
(* give them another type.  The description of a structure is a sequence   *)
(* of fields [uid, type]; a type below ArrayFlag is that of a value, the   *)
(* others are arrays.  Signed integers and floats share the code of the    *)
(* unsigned integers of their width.  The packet is encoded at once, as    *)
(* nothing runs in between; one step decodes one field, and an allocation  *)
(* the field needs may fail.                                               *)
(***************************************************************************)
EXTENDS Integers, SequencesExt

CONSTANTS
    Radix,      \* values of a byte
    Fields,     \* the server's description of the structure
    Sources,    \* the structures the server may send
    Others,     \* those it may send after the first one
    Receivers,  \* the client's description, one of these
    Stale,      \* the bytes left in the buffer after the packet
    NULL,       \* the null pointer
    EnumDefault, \* default value of an enumeration
    MaxFails    \* bound: allocations that fail

U8 == 0
U16 == 1
U32 == 2
U64 == 3
BOOL == 4
ENUM == 5
STR == 6
Kinds == U8..STR
ArrayFlag == Radix \div 2
IsArray(type) == type >= ArrayFlag
KindOf(type) == type % ArrayFlag

CodecAssumption ==
    /\ Radix \in Nat /\ Radix \div 2 > STR /\ MaxFails \in Nat
    /\ \A d \in {Fields} \cup Receivers : \A i, j \in 1..Len(d) :
         KindOf(d[i].type) \in Kinds /\ (d[i].uid = d[j].uid => i = j)

VARIABLES
    objs,   \* the structures of the packet
    rdesc,  \* the client's description
    buf,    \* the client's buffer: bytes (data), their number (length), pos
    out,    \* the objects decoded so far
    cur,    \* the object that is decoded: its structure, and what it lost
    left,   \* its fields that are left
    end,    \* end_pos
    ctl,    \* "object": between two objects; "field": between two fields
    fails   \* allocations that have failed

inputs == <<objs, rdesc>>
vars == <<inputs, buf, out, cur, left, end, ctl, fails>>

-----------------------------------------------------------------------------
(***************************************************************************)
(* Encoding.                                                               *)
(***************************************************************************)

\* obus_buffer_append_u8 ... u64: big endian.
Digits(w, v) == [i \in 1..w |-> (v \div Radix^(w - i)) % Radix]

Width == [k \in U8..ENUM |-> CASE k \in {U8, BOOL} -> 1 [] k = U16 -> 2
                               [] k \in {U32, ENUM} -> 4 [] k = U64 -> 8]

\* obus_buffer_append_string: a null string has size 0, another one counts its
\* terminator.
EncodeString(s) == IF s = NULL THEN Digits(4, 0) ELSE Digits(4, Len(s) + 1) \o s \o <<0>>

Truth(v) == IF v = 0 THEN 0 ELSE 1

EncodeValue(k, v) ==
    CASE k = BOOL -> Digits(1, Truth(v))
      [] k = STR -> EncodeString(v)
      [] OTHER -> Digits(Width[k], v)

EncodeArray(k, a) ==
    Digits(4, a.n) \o FlattenSeq([i \in 1..a.n |-> EncodeValue(k, a.items[i])])

EncodeField(f, v) ==
    Digits(2, f.uid) \o Digits(1, f.type)
      \o IF IsArray(f.type) THEN EncodeArray(KindOf(f.type), v) ELSE EncodeValue(f.type, v)

\* The fields that are set, in the order of the description.
FieldsSet(s) == SelectSeq(Fields, LAMBDA f : f.uid \in s.has)

\* obus_struct_encode, of the first n fields that are set.
EncodePrefix(s, n) ==
    Digits(2, Len(FieldsSet(s)))
      \o FlattenSeq([i \in 1..n |-> EncodeField(FieldsSet(s)[i], s.val[FieldsSet(s)[i].uid])])
EncodeStruct(s) == EncodePrefix(s, Len(FieldsSet(s)))

\* obus_object_add_encode: the identifier and the handle of the object, which
\* are its index here, the size of what follows, the structure.
EncodeObject(h, s) ==
    Digits(2, h) \o Digits(2, h) \o Digits(4, Len(EncodeStruct(s))) \o EncodeStruct(s)
HeaderSize == 8
EncodeObjects(ss) == FlattenSeq([i \in 1..Len(ss) |-> EncodeObject(i, ss[i])])

-----------------------------------------------------------------------------
(***************************************************************************)
(* Decoding.  What is read is [ok, v, pos]: if ok, the value and the       *)
(* position after it.                                                      *)
(***************************************************************************)

Failed(v, pos) == [ok |-> FALSE, v |-> v, pos |-> pos]

\* obus_buffer_read_u8 ... u64.  The last one compares with the size of the
\* buffer, not with the number of bytes in it.
ReadUint(w, pos) ==
    LET limit == IF w = 8 THEN Len(buf.data) ELSE buf.length
    IN  IF pos + w > limit THEN Failed(0, pos)
        ELSE [ok |-> TRUE, pos |-> pos + w,
              v |-> LET acc[i \in 0..w] == IF i = 0 THEN 0 ELSE Radix * acc[i - 1] + buf.data[pos + i]
                    IN  acc[w]]

\* obus_buffer_inc_read_position
Advanced(pos, n) == IF pos + n > buf.length THEN pos ELSE pos + n

\* Mutant: the terminator is taken for a byte of the string.
ReadStringTerminated(pos, oom, old) ==
    LET size == ReadUint(4, pos) IN
    CASE ~size.ok -> Failed(old, pos)
      [] size.ok /\ size.v = 0 -> [ok |-> TRUE, v |-> NULL, pos |-> size.pos]
      [] size.ok /\ size.v > 0 ->
           IF size.pos + size.v > buf.length \/ oom THEN Failed(NULL, size.pos)
           ELSE [ok |-> TRUE, pos |-> size.pos + size.v,
                 v |-> SubSeq(buf.data, size.pos + 1, size.pos + size.v)]

\* obus_buffer_read_string with obus_buffer_dup; old is the string before.
ReadString(pos, oom, old) ==
    LET size == ReadUint(4, pos) IN
    CASE ~size.ok -> Failed(old, pos)
      [] size.ok /\ size.v = 0 -> [ok |-> TRUE, v |-> NULL, pos |-> size.pos]
      [] size.ok /\ size.v > 0 ->
           IF size.pos + size.v > buf.length \/ oom THEN Failed(NULL, size.pos)
           ELSE [ok |-> TRUE, pos |-> size.pos + size.v,
                 v |-> SubSeq(buf.data, size.pos + 1, size.pos + size.v - 1)]

DecodeValue(k, pos, oom, old) ==
    CASE k = STR -> ReadString(pos, oom, old)
      [] k = BOOL -> LET r == ReadUint(1, pos) IN [r EXCEPT !.v = IF r.ok THEN Truth(@) ELSE old]
      [] OTHER -> LET r == ReadUint(Width[k], pos) IN [r EXCEPT !.v = IF r.ok THEN @ ELSE old]

\* What obus_field_array_alloc puts in an item.
Blank(k) == IF k = STR THEN <<>> ELSE 0

\* The items of an array, as far as they can be decoded: allocation number 1
\* is the array, number i + 1 the string of item i.
DecodeItems(k, n, pos, oom) ==
    LET f[i \in 0..n] ==
          IF i = 0 THEN [ok |-> TRUE, v |-> <<>>, pos |-> pos]
          ELSE IF ~f[i - 1].ok THEN f[i - 1]
          ELSE LET r == DecodeValue(k, f[i - 1].pos, oom = i + 1, Blank(k))
               IN  [r EXCEPT !.v = Append(f[i - 1].v, r.v)]
    IN  f[n]

\* obus_field_array_decode: when an item cannot be decoded the array is freed,
\* the number of items stays.
DecodeArray(k, pos, oom, old) ==
    LET n == ReadUint(4, pos)
        items == DecodeItems(k, n.v, n.pos, oom)
    IN  CASE ~n.ok -> Failed(old, pos)
          [] n.ok /\ n.v = 0 -> [ok |-> TRUE, v |-> [n |-> 0, items |-> NULL], pos |-> n.pos]
          [] n.ok /\ n.v > 0 ->
               IF oom = 1 \/ ~items.ok THEN Failed([n |-> n.v, items |-> NULL], items.pos)
               ELSE [ok |-> TRUE, v |-> [n |-> n.v, items |-> items.v], pos |-> items.pos]

\* obus_field_skip_value: a string is skipped with its size.
SkipValue(k, pos) ==
    IF k = STR
    THEN LET size == ReadUint(4, pos) IN IF size.ok THEN Advanced(size.pos, size.v) ELSE pos
    ELSE Advanced(pos, Width[k])

SkipArray(k, pos) ==
    LET n == ReadUint(4, pos)
        f[i \in 0..n.v] == IF i = 0 THEN n.pos ELSE SkipValue(k, f[i - 1])
    IN  IF n.ok THEN f[n.v] ELSE pos

Skip(type, pos) == IF IsArray(type) THEN SkipArray(KindOf(type), pos) ELSE SkipValue(type, pos)

Described(uid) == \E i \in 1..Len(rdesc) : rdesc[i].uid = uid
TypeOf(uid) == rdesc[CHOOSE i \in 1..Len(rdesc) : rdesc[i].uid = uid].type

\* obus_field_array_decode or obus_decode_value, by type.
Decoded(uid, type, pos, oom) ==
    IF IsArray(type)
    THEN DecodeArray(KindOf(type), pos, oom, cur.val[uid])
    ELSE DecodeValue(type, pos, oom = 1, cur.val[uid])

-----------------------------------------------------------------------------
(***************************************************************************)
(* The client.                                                             *)
(***************************************************************************)

\* obus_field_init
Default(type) ==
    CASE IsArray(type) -> [n |-> 0, items |-> NULL]
      [] type = ENUM -> EnumDefault
      [] OTHER -> Blank(type)

\* obus_object_new, obus_struct_init and the start of obus_struct_decode.
NewStruct == [has |-> {}, lost |-> {},
              val |-> [u \in {rdesc[i].uid : i \in 1..Len(rdesc)} |-> Default(TypeOf(u))]]

Init ==
    /\ \E s \in Sources, t \in Others : objs = <<s, t>>
    /\ rdesc \in Receivers
    /\ \E packet \in {EncodeObjects(objs)} :
          buf = [data |-> packet \o Stale, length |-> Len(packet), pos |-> 0]
    /\ out = <<>> /\ cur = NULL /\ left = 0 /\ end = 0
    /\ ctl = "object" /\ fails = 0

\* obus_object_add_decode: the header, a new object, the number of fields.
ObjectHeader ==
    /\ ctl = "object" /\ Len(out) < Len(objs)
    /\ LET size == ReadUint(4, buf.pos + 4)
           n == ReadUint(2, size.pos)
       IN  /\ end' = size.pos + size.v
           /\ buf' = [buf EXCEPT !.pos = n.pos]
           /\ left' = n.v
    /\ cur' = NewStruct
    /\ ctl' = "field"
    /\ UNCHANGED <<inputs, out, fails>>

\* obus_buffer_set_read_position
Positioned(pos) == IF pos > buf.length THEN buf ELSE [buf EXCEPT !.pos = pos]

\* There is no memory for the object: its bytes are eaten, as they are if its type is
\* not known to the receiver or its handle is not valid.
ObjectOom ==
    /\ ctl = "object" /\ Len(out) < Len(objs) /\ fails < MaxFails
    /\ LET size == ReadUint(4, buf.pos + 4) IN buf' = Positioned(size.pos + size.v)
    /\ fails' = fails + 1
    /\ out' = Append(out, NULL)
    /\ UNCHANGED <<inputs, cur, left, end, ctl>>

\* obus_field_decode: one field.  Allocation number oom fails, none if 0; if
\* the field makes no such allocation the step is not taken.
DecodeField(oom) ==
    /\ ctl = "field" /\ left > 0
    /\ \E uid \in {ReadUint(2, buf.pos)} : \E type \in {ReadUint(1, uid.pos)} :
           IF Described(uid.v) /\ TypeOf(uid.v) = type.v
           THEN \E r \in {Decoded(uid.v, type.v, type.pos, oom)} :
                /\ buf' = [buf EXCEPT !.pos = IF r.ok THEN r.pos ELSE Skip(type.v, type.pos)]
                /\ cur' = [cur EXCEPT !.val[uid.v] = r.v,
                                      !.has = IF r.ok THEN @ \cup {uid.v} ELSE @,
                                      !.lost = IF r.ok THEN @ ELSE @ \cup {uid.v}]
                /\ fails' = IF r.ok THEN fails ELSE fails + 1
           ELSE /\ buf' = [buf EXCEPT !.pos = Skip(type.v, type.pos)]
                /\ UNCHANGED <<cur, fails>>
    /\ (oom > 0 => fails' > fails) /\ fails' <= MaxFails
    /\ left' = left - 1
    /\ UNCHANGED <<inputs, out, end, ctl>>

\* The structure is decoded: the read position is set to where the object ends.
ObjectEnd ==
    /\ ctl = "field" /\ left = 0
    /\ buf' = Positioned(end)
    /\ out' = Append(out, cur)
    /\ ctl' = "object"
    /\ UNCHANGED <<inputs, cur, left, end, fails>>

\* The packet is decoded.
Finished == ctl = "object" /\ Len(out) = Len(objs) /\ UNCHANGED vars

MaxAllocs == 3

Next ==
    \/ ObjectHeader \/ ObjectOom \/ ObjectEnd \/ Finished
    \/ \E oom \in 0..MaxAllocs : DecodeField(oom)

Spec == Init /\ [][Next]_vars

-----------------------------------------------------------------------------
(***************************************************************************)
(* Properties.                                                             *)
(***************************************************************************)

\* The index of the object that is decoded.
Index == Len(out) + 1

\* The reader is where the writer was: after every field of every object, be
\* it decoded, skipped because the client does not know it or knows it with
\* another type, or given up half-way because there is no memory, the read
\* position is where obus_field_encode has put the next one.
Aligned ==
    LET start == Len(EncodeObjects(SubSeq(objs, 1, Len(out))))
    IN  IF ctl = "object" THEN buf.pos = start
        ELSE buf.pos = start + HeaderSize
                         + Len(EncodePrefix(objs[Index], Len(FieldsSet(objs[Index])) - left))

\* What a value becomes on its way.
Carried(type, v) == IF type = BOOL THEN Truth(v) ELSE v

\* A decoded object has the fields that were sent, the client describes with
\* the same type and no failed allocation has cost, and no other; each has the
\* value that was sent, a truth value as 0 or 1.
RoundTrip ==
    \A i \in 1..Len(out) : out[i] # NULL =>
        LET sent == FieldsSet(objs[i]) IN
        /\ out[i].has = {sent[j].uid : j \in
              {n \in 1..Len(sent) : Described(sent[n].uid) /\ TypeOf(sent[n].uid) = sent[n].type}}
              \ out[i].lost
        /\ \A u \in out[i].has : out[i].val[u] = Carried(TypeOf(u), objs[i].val[u])

-----------------------------------------------------------------------------
(***************************************************************************)
(* What the code does not do, although its comments suggest it: TLC finds  *)
(* a counterexample to each of these (see the README).                     *)
(***************************************************************************)

\* An array that obus_struct_destroy will walk has its items: the number of
\* items of a field never promises items that are not there, even when its
\* decoding has failed.
ArraysConsistent ==
    \A i \in 1..Len(out) : out[i] # NULL =>
        \A u \in DOMAIN out[i].val :
            IsArray(TypeOf(u)) /\ out[i].val[u].n > 0 => out[i].val[u].items # NULL

=============================================================================
