------------------------------ MODULE ObusStruct ----------------------------
(***************************************************************************)
(* Who owns the strings of an object: obus_struct_init, obus_struct_merge  *)
(* and obus_struct_destroy (obus_struct.c, obus_field.c) as a server uses  *)
(* them for the info of an object (obus_object.c) and for the events it    *)
(* commits to it (obus_event.c).                                           *)
(*                                                                         *)
(* The info has a field that is a string and one that is an array of       *)
(* strings; the fields without pointers are copied by value and left out.  *)
(* The memory mem holds the strings and the arrays, the pointers to them   *)
(* are addresses.  An address that is free may be given out again.  The    *)
(* application describes an event with strings and an array of its own,    *)
(* and with the strings of the object, which obus_object_get_info shows it *)
(* and which the array it builds may share.                                *)
(***************************************************************************)
EXTENDS Integers, Sequences, FiniteSets

CONSTANTS
    Contents,   \* the contents of a string
    Addr,       \* addresses of strings, a set of numbers
    Blocks,     \* addresses of arrays, a set of numbers
    NULL,       \* the null pointer
    EMPTY,      \* s_empty_string
    FREE,       \* nothing is allocated at an address
    Slots,      \* what the application puts in a string or in an item
    Whole,      \* the application may pass the array of the object itself
    Across,     \* it may use the object's string in an array beside a new string
    MaxItems,   \* bound: items of an array
    MaxInfos,   \* bound: infos the application builds
    MaxFails    \* bound: allocations that fail

\* A slot is the null pointer, one of the contents, or a string of the object:
\* that of its first field (0) or item i of its array (i).
StructAssumption ==
    /\ Addr \subseteq Nat /\ Blocks \subseteq Nat /\ Whole \in BOOLEAN /\ Across \in BOOLEAN
    /\ MaxItems \in Nat /\ MaxInfos \in Nat /\ MaxFails \in Nat
    /\ Slots \subseteq {NULL} \cup Contents \cup 0..MaxItems

VARIABLES
    mem,     \* str: what is at each address; arr: the items of each array;
             \* bad: something was freed twice or read after it was freed
    obj,     \* obj->info, NULL if there is no object
    info,    \* the info of the application, NULL if there is none
    own,     \* the strings and the arrays the application has to free
    merged,  \* has the info been merged, or has this failed
    want,    \* what the info said when it was built
    infos,   \* infos built so far
    fails    \* allocations that have failed

vars == <<mem, obj, info, own, merged, want, infos, fails>>

-----------------------------------------------------------------------------
(***************************************************************************)
(* Memory.                                                                 *)
(***************************************************************************)

Lowest(S) == CHOOSE x \in S : \A y \in S : x <= y
FreshStr(m) == Lowest({p \in Addr : m.str[p] = FREE})
FreshArr(m) == Lowest({b \in Blocks : m.arr[b] = FREE})

Freed(m, p) ==
    IF p \in {NULL, EMPTY} THEN m
    ELSE [m EXCEPT !.bad = @ \/ m.str[p] = FREE, !.str[p] = FREE]
FreedArr(m, b) ==
    IF b = NULL THEN m ELSE [m EXCEPT !.bad = @ \/ m.arr[b] = FREE, !.arr[b] = FREE]

Items(m, b) == IF b = NULL THEN <<>> ELSE m.arr[b]

\* The text a pointer stands for: the null pointer is the empty string.
Text(m, p) == IF p \in {NULL, EMPTY} THEN EMPTY ELSE m.str[p]
Texts(m, b) == [i \in 1..Len(Items(m, b)) |-> Text(m, Items(m, b)[i])]
Meaning(m, s) == [str |-> Text(m, s.str), arr |-> Texts(m, s.arr)]

-----------------------------------------------------------------------------
(***************************************************************************)
(* obus_field.c.  An operation yields the memory, a pointer, whether it    *)
(* succeeded and how many allocations it has made; number oom fails.       *)
(***************************************************************************)

\* Mutant: what was there is not freed.
CopyValueLeaked(m, dst, src, n, oom) ==
    IF src \in {NULL, EMPTY} THEN [m |-> Freed(m, dst), p |-> EMPTY, ok |-> TRUE, n |-> n]
    ELSE IF n + 1 = oom THEN [m |-> m, p |-> dst, ok |-> FALSE, n |-> n + 1]
    ELSE LET p == FreshStr(m)
             dup == [m EXCEPT !.bad = @ \/ m.str[src] = FREE, !.str[p] = m.str[src]]
         IN  [m |-> dup, p |-> p, ok |-> TRUE, n |-> n + 1]

\* obus_copy_value: the string is duplicated, then the old one is freed.
CopyValue(m, dst, src, n, oom) ==
    IF src \in {NULL, EMPTY} THEN [m |-> Freed(m, dst), p |-> EMPTY, ok |-> TRUE, n |-> n]
    ELSE IF n + 1 = oom THEN [m |-> m, p |-> dst, ok |-> FALSE, n |-> n + 1]
    ELSE LET p == FreshStr(m)
             dup == [m EXCEPT !.bad = @ \/ m.str[src] = FREE, !.str[p] = m.str[src]]
         IN  [m |-> Freed(dup, dst), p |-> p, ok |-> TRUE, n |-> n + 1]

\* Mutant: the string stays in the old array too.
RefValueShared(m, dst, src, i) ==
    LET same == {j \in 1..Len(Items(m, dst)) : Items(m, dst)[j] = m.arr[src][i]}
    IN  IF same = {} THEN [found |-> FALSE, m |-> m, p |-> NULL]
        ELSE [found |-> TRUE, m |-> m, p |-> m.arr[src][i]]

\* obus_field_array_ref_value: if the old array has the string it is moved.
\* The item is read after the old array is changed.
RefValue(m, dst, src, i) ==
    LET same == {j \in 1..Len(Items(m, dst)) : Items(m, dst)[j] = m.arr[src][i]}
    IN  IF same = {} THEN [found |-> FALSE, m |-> m, p |-> NULL]
        ELSE LET gone == [m EXCEPT !.arr[dst][Lowest(same)] = NULL]
             IN  [found |-> TRUE, m |-> gone, p |-> gone.arr[src][i]]

\* obus_field_array_destroy
DestroyArray(m, b) ==
    LET f[i \in 0..Len(Items(m, b))] ==
          IF i = 0 THEN m ELSE Freed(f[i - 1], Items(m, b)[i])
    IN  FreedArr(f[Len(Items(m, b))], b)

\* The items of the new array, one after the other.
CopyItems(m, dst, src, new, n, oom) ==
    LET f[i \in 0..Len(m.arr[src])] ==
          IF i = 0 THEN [m |-> m, ok |-> TRUE, n |-> n]
          ELSE LET s == f[i - 1]
                   r == RefValue(s.m, dst, src, i)
                   c == CopyValue(s.m, s.m.arr[new][i], s.m.arr[src][i], s.n, oom)
               IN  IF ~s.ok THEN s
                   ELSE IF r.found THEN [s EXCEPT !.m = [r.m EXCEPT !.arr[new][i] = r.p]]
                   ELSE [m |-> [c.m EXCEPT !.arr[new][i] = c.p], ok |-> c.ok, n |-> c.n]
    IN  f[Len(m.arr[src])]

\* Mutant: an empty array changes nothing.
CopyArrayFilled(m, dst, src, n, oom) ==
    IF src = NULL THEN [m |-> m, p |-> dst, ok |-> TRUE, n |-> n]
    ELSE IF n + 1 = oom THEN [m |-> m, p |-> dst, ok |-> FALSE, n |-> n + 1]
    ELSE LET new == FreshArr(m)
             blank == [m EXCEPT !.arr[new] = [i \in 1..Len(m.arr[src]) |-> EMPTY]]
             c == CopyItems(blank, dst, src, new, n + 1, oom)
         IN  IF c.ok THEN [m |-> DestroyArray(c.m, dst), p |-> new, ok |-> TRUE, n |-> c.n]
             ELSE [m |-> c.m, p |-> dst, ok |-> FALSE, n |-> c.n]

\* obus_field_array_copy, with obus_field_array_alloc.  When it fails half-way
\* it returns, and the new array is lost.
CopyArray(m, dst, src, n, oom) ==
    IF src = NULL THEN [m |-> DestroyArray(m, dst), p |-> NULL, ok |-> TRUE, n |-> n]
    ELSE IF n + 1 = oom THEN [m |-> m, p |-> dst, ok |-> FALSE, n |-> n + 1]
    ELSE LET new == FreshArr(m)
             blank == [m EXCEPT !.arr[new] = [i \in 1..Len(m.arr[src]) |-> EMPTY]]
             c == CopyItems(blank, dst, src, new, n + 1, oom)
         IN  IF c.ok THEN [m |-> DestroyArray(c.m, dst), p |-> new, ok |-> TRUE, n |-> c.n]
             ELSE [m |-> c.m, p |-> dst, ok |-> FALSE, n |-> c.n]

-----------------------------------------------------------------------------
(***************************************************************************)
(* obus_struct.c.                                                          *)
(***************************************************************************)

\* obus_struct_init with obus_field_init
InitStruct == [str |-> EMPTY, arr |-> NULL]

\* obus_struct_merge: the fields that src has, in the order of the description.
Merge(m, dst, src, oom) ==
    LET s == IF "str" \in src.has THEN CopyValue(m, dst.str, src.str, 0, oom)
             ELSE [m |-> m, p |-> dst.str, ok |-> TRUE, n |-> 0]
        a == IF s.ok /\ "arr" \in src.has THEN CopyArray(s.m, dst.arr, src.arr, s.n, oom)
             ELSE [m |-> s.m, p |-> dst.arr, ok |-> s.ok, n |-> s.n]
    IN  [m |-> a.m, ok |-> a.ok, n |-> a.n,
         st |-> [str |-> s.p, arr |-> a.p]]

DestroyStruct(m, s) == DestroyArray(Freed(m, s.str), s.arr)

-----------------------------------------------------------------------------
(***************************************************************************)
(* The application and the object.                                         *)
(***************************************************************************)

Init ==
    /\ mem = [str |-> [p \in Addr |-> FREE], arr |-> [b \in Blocks |-> FREE], bad |-> FALSE]
    /\ obj = NULL /\ info = NULL
    /\ own = [str |-> {}, arr |-> {}]
    /\ merged = "no" /\ want = NULL /\ infos = 0 /\ fails = 0

\* The slots that can be filled: those of the object need an object.
Usable(slot) ==
    slot \in {NULL} \cup Contents \/ (obj # NULL /\ slot \in 0..Len(Items(mem, obj.arr)))

\* The pointer for a slot, in memory m.
Pointed(m, slot) ==
    CASE slot = NULL -> NULL
      [] slot \in Contents -> FreshStr(m)
      [] OTHER -> IF slot = 0 THEN obj.str ELSE m.arr[obj.arr][slot]

Written(m, slot) == IF slot \in Contents THEN [m EXCEPT !.str[FreshStr(m)] = slot] ELSE m

\* The application fills an info: its string, then the items of its array.  A
\* field it does not fill stays as it is in an empty info.  Unless Across it does
\* not set the string of the object and use the old one in the array: the merge
\* frees it (obus_field.c:205) before it reads it from there (obus_field.c:917).
Build(has, slot, items) ==
    /\ info = NULL /\ infos < MaxInfos
    /\ ("str" \notin has => slot = NULL) /\ ("arr" \notin has => items = <<>>)
    /\ Usable(slot) /\ \A i \in 1..Len(items) : Usable(items[i])
    /\ Across \/ "str" \notin has \/ \A i \in 1..Len(items) : items[i] # 0
    /\ LET f[i \in 0..Len(items)] ==
             IF i = 0 THEN [m |-> Written(mem, slot), s |-> <<>>]
             ELSE [m |-> Written(f[i - 1].m, items[i]),
                   s |-> Append(f[i - 1].s, Pointed(f[i - 1].m, items[i]))]
           m == f[Len(items)].m
           b == IF items = <<>> THEN NULL ELSE FreshArr(m)
           built == IF items = <<>> THEN m ELSE [m EXCEPT !.arr[b] = f[Len(items)].s]
       IN  /\ info' = [has |-> has, str |-> Pointed(mem, slot), arr |-> b]
           /\ mem' = built
           /\ own' = [str |-> {p \in Addr : mem.str[p] = FREE /\ built.str[p] # FREE},
                      arr |-> {b} \ {NULL}]
           /\ want' = Meaning(built, info')
    /\ merged' = "no" /\ infos' = infos + 1
    /\ UNCHANGED <<obj, fails>>

\* It passes the array of the object as it is.
BuildWhole ==
    /\ Whole /\ info = NULL /\ infos < MaxInfos /\ obj # NULL /\ obj.arr # NULL
    /\ info' = [has |-> {"arr"}, str |-> NULL, arr |-> obj.arr]
    /\ want' = Meaning(mem, info')
    /\ merged' = "no" /\ infos' = infos + 1
    /\ UNCHANGED <<mem, obj, own, fails>>

\* Allocation number oom, if any, is one that is made, and fails.
Fault(r, oom) ==
    /\ (oom > 0 => ~r.ok) /\ fails + (IF r.ok THEN 0 ELSE 1) <= MaxFails
    /\ fails' = IF r.ok THEN fails ELSE fails + 1

\* obus_object_new with an info: an object that cannot be filled is freed, what
\* is in it is not.
NewObject(oom) ==
    /\ obj = NULL /\ info # NULL /\ merged = "no"
    /\ \E r \in {Merge(mem, InitStruct, info, oom)} :
        /\ Fault(r, oom)
        /\ mem' = r.m
        /\ obj' = IF r.ok THEN r.st ELSE NULL
        /\ merged' = IF r.ok THEN "yes" ELSE "failed"
    /\ UNCHANGED <<info, own, want, infos>>

\* obus_event_commit: the info of the event is merged with that of the object.
Commit(oom) ==
    /\ obj # NULL /\ info # NULL /\ merged = "no"
    /\ \E r \in {Merge(mem, obj, info, oom)} :
        /\ Fault(r, oom)
        /\ mem' = r.m /\ obj' = r.st
        /\ merged' = IF r.ok THEN "yes" ELSE "failed"
    /\ UNCHANGED <<info, own, want, infos>>

\* The application frees what it has allocated.
Release ==
    /\ info # NULL /\ merged # "no"
    /\ mem' = [mem EXCEPT !.str = [p \in Addr |-> IF p \in own.str THEN FREE ELSE @[p]],
                          !.arr = [b \in Blocks |-> IF b \in own.arr THEN FREE ELSE @[b]]]
    /\ info' = NULL /\ own' = [str |-> {}, arr |-> {}]
    /\ merged' = "no" /\ want' = NULL
    /\ UNCHANGED <<obj, infos, fails>>

\* obus_object_destroy
DestroyObject ==
    /\ obj # NULL /\ info = NULL
    /\ mem' = DestroyStruct(mem, obj)
    /\ obj' = NULL
    /\ UNCHANGED <<info, own, merged, want, infos, fails>>

MaxAllocs == MaxItems + 2

\* The arrays the application builds.
Arrays == UNION {[1..n -> Slots] : n \in 0..MaxItems}

Next ==
    \/ \E has \in SUBSET {"str", "arr"}, slot \in Slots \cup {NULL}, items \in Arrays : Build(has, slot, items)
    \/ BuildWhole
    \/ \E oom \in 0..MaxAllocs : NewObject(oom) \/ Commit(oom)
    \/ Release \/ DestroyObject

Spec == Init /\ [][Next]_vars

-----------------------------------------------------------------------------
(***************************************************************************)
(* Properties.                                                             *)
(***************************************************************************)

\* Nothing is freed twice and nothing is read after it was freed, whatever fails and
\* whatever the strings of the object the application uses, of the same field or of
\* the other, in an item or in many: except those of a field that the same event
\* sets before (Across).
NoBadAccess == ~mem.bad

\* How many times the object holds the string at p.
Holds(p) ==
    IF obj = NULL THEN 0
    ELSE Cardinality({i \in 1..Len(Items(mem, obj.arr)) : Items(mem, obj.arr)[i] = p})
         + (IF obj.str = p THEN 1 ELSE 0)

\* Each string of the object is allocated, held by one field or one item only
\* and none of the application's: the object may free it, and nobody else will.
\* Excepted is the use of a string of a field that the same event sets (Across).
OwnedOnce ==
    /\ \A p \in Addr : Holds(p) > 0 => Holds(p) = 1 /\ mem.str[p] # FREE /\ p \notin own.str
    /\ (obj # NULL /\ obj.arr # NULL) => mem.arr[obj.arr] # FREE /\ obj.arr \notin own.arr

\* While no allocation has failed nothing is lost: what is allocated belongs to
\* the object or to the application.
NothingLost ==
    fails = 0 =>
        /\ \A p \in Addr : mem.str[p] # FREE => p \in own.str \/ Holds(p) > 0
        /\ \A b \in Blocks : mem.arr[b] # FREE =>
             b \in own.arr \/ (obj # NULL /\ obj.arr = b)

\* A committed event gives the object the values that the application put in
\* the event, although some of its strings were those of the object, except those
\* of a field that the event sets before (Across).
MergeKeepsValues ==
    merged = "yes" /\ obj # NULL =>
        /\ "str" \in info.has => Text(mem, obj.str) = want.str
        /\ "arr" \in info.has => Texts(mem, obj.arr) = want.arr

=============================================================================
