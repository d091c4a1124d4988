------------------------------- MODULE ObusHash -----------------------------
(***************************************************************************)
(* The hash table of obus_hash.c: chains of entries in buckets, and a list *)
(* of all entries.  The hash of a key is any function: two keys may have   *)
(* the same bucket or not.                                                 *)
(***************************************************************************)
EXTENDS Naturals, Sequences, FiniteSets

CONSTANTS
    Keys,       \* keys
    Data,       \* data of entries
    Size        \* number of buckets

HashAssumption == Size \in Nat \ {0}

VARIABLES
    table,    \* "new", "ready", "broken" or "gone"
    hash,     \* obus_hash_32, modulo the size
    chains,   \* buckets
    entries,  \* the list of all entries
    ret       \* the result of the last operation

vars == <<table, hash, chains, entries, ret>>

Entry(k, d, c) == [key |-> k, data |-> d, const |-> c]
NoChains == [b \in 0..(Size - 1) |-> <<>>]

Init ==
    /\ table = "new" /\ hash \in [Keys -> 0..(Size - 1)]
    /\ chains = NoChains /\ entries = <<>> /\ ret = "none"

HashInit ==
    /\ table = "new" /\ table' = "ready" /\ ret' = "ok"
    /\ UNCHANGED <<hash, chains, entries>>

\* The structure is freed although it is part of another, and the function returns 0.
HashInitFails ==
    /\ table = "new" /\ table' = "broken" /\ ret' = "ok"
    /\ UNCHANGED <<hash, chains, entries>>

\* The positions of a key in its chain.
Found(k) == {i \in DOMAIN chains[hash[k]] : chains[hash[k]][i].key = k}

\* Mutant: the entry is put first in the list.
InsertFirst(e) ==
    /\ table = "ready"
    /\ IF Found(e.key) # {}
       THEN ret' = "EEXIST" /\ UNCHANGED <<chains, entries>>
       ELSE /\ chains' = [chains EXCEPT ![hash[e.key]] = <<e>> \o @]
            /\ entries' = <<e>> \o entries /\ ret' = "ok"
    /\ UNCHANGED <<table, hash>>

\* obus_hash_insert, obus_hash_insert_const
Insert(e) ==
    /\ table = "ready"
    /\ IF Found(e.key) # {}
       THEN ret' = "EEXIST" /\ UNCHANGED <<chains, entries>>
       ELSE /\ chains' = [chains EXCEPT ![hash[e.key]] = <<e>> \o @]
            /\ entries' = Append(entries, e) /\ ret' = "ok"
    /\ UNCHANGED <<table, hash>>

InsertNoMemory ==
    /\ table = "ready" /\ ret' = "ENOMEM"
    /\ UNCHANGED <<table, hash, chains, entries>>

\* obus_hash_lookup, obus_hash_lookup_const
Lookup(k, const) ==
    /\ table = "ready"
    /\ IF Found(k) = {} THEN ret' = "ENOENT"
       ELSE \E i \in Found(k) :
              LET e == chains[hash[k]][i]
              IN  ret' = IF e.const /\ ~const THEN "EPERM" ELSE e.data
    /\ UNCHANGED <<table, hash, chains, entries>>

\* The one before the entry at i, or the head, goes on after it.
Unlinked(seq, i) == SubSeq(seq, 1, i - 1) \o SubSeq(seq, i + 1, Len(seq))

\* obus_hash_remove: the entry leaves its chain and the list.
Remove(k) ==
    /\ table = "ready"
    /\ IF Found(k) = {} THEN ret' = "ENOENT" /\ UNCHANGED <<chains, entries>>
       ELSE \E i \in Found(k), n \in DOMAIN entries :
              /\ entries[n] = chains[hash[k]][i]
              /\ chains' = [chains EXCEPT ![hash[k]] = Unlinked(@, i)]
              /\ entries' = Unlinked(entries, n) /\ ret' = "ok"
    /\ UNCHANGED <<table, hash>>

\* The elements of a sequence at some places, in their order.
Kept(seq, places) ==
    LET Rank(n) == Cardinality({m \in places : m <= n})
    IN  [x \in {Rank(n) : n \in places} |-> seq[CHOOSE n \in places : Rank(n) = x]]

\* obus_hash_destroy: the entries that are in the chains are freed.
Destroy ==
    /\ table = "ready" /\ table' = "gone" /\ ret' = "ok"
    /\ entries' = Kept(entries, {n \in DOMAIN entries : Found(entries[n].key) = {}})
    /\ chains' = NoChains
    /\ UNCHANGED hash

Next ==
    \/ HashInit \/ HashInitFails \/ Destroy
    \/ \E k \in Keys :
         \/ Remove(k)
         \/ \E c \in BOOLEAN : \/ Lookup(k, c)
                              \/ \E d \in Data : Insert(Entry(k, d, c)) \/ InsertNoMemory

Spec == Init /\ [][Next]_vars

-----------------------------------------------------------------------------
(***************************************************************************)
(* Properties.                                                             *)
(***************************************************************************)

Map == INSTANCE ObusMap WITH pairs <- entries

\* Through buckets and chains the table is a map that remembers the order of its
\* keys, which obus_bus_clear walks: each result is that of the map, for every
\* hash function, and its destruction frees all entries.
MapSpec == Map!Spec

-----------------------------------------------------------------------------
(***************************************************************************)
(* What the code does not do, although its comments suggest it: TLC finds  *)
(* a counterexample to each of these (see the README).                     *)
(***************************************************************************)

\* obus_hash_init tells its caller that there is no table.
InitReported == table = "broken" => ret # "ok"

=============================================================================
