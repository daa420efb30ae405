----------------------------- MODULE HashBucket -----------------------------
(***************************************************************************)
(* The current bucket of an open database: a hash table of BucketElems     *)
(* slots with linear probing, the one-entry data cache that goes with it,  *)
(* and the key/data areas in the file its slots point to.                  *)
(*                                                                         *)
(* The module follows _gdbm_findkey (findkey.c), gdbm_fetch (gdbmfetch.c), *)
(* gdbm_store (gdbmstore.c) and gdbm_delete (gdbmdelete.c) loop iteration  *)
(* by loop iteration.  File space comes from an allocator that hands out   *)
(* any unused area (module FileAlloc models the real one), and a store     *)
(* that meets a full bucket leaves for _gdbm_split_bucket (HashDir).       *)
(***************************************************************************)
EXTENDS Integers, FiniteSets

CONSTANTS
    Key,          \* the keys whose hash leads to this bucket
    Value,        \* contents
    Size,         \* Size[v] is the dsize of content v
    Hash,         \* Hash[k] is _gdbm_hash (k)
    Stub,         \* Stub[k] is key_size and key_start, what a slot keeps of k
    StubSet,      \* the values of Stub
    BucketElems,  \* dbf->header->bucket_elems
    Adr,          \* file addresses the allocator may hand out
    NoElem        \* a slot whose hash_value is -1

Slot == 0 .. BucketElems - 1
Elem == [hash_value : Nat, key_start : StubSet, data_pointer : Adr]
Datum == [key : Key, data : Value]

ASSUME BucketElemsAssumption == BucketElems \in Nat \ {0}
ASSUME HashAssumption == Hash \in [Key -> Nat]
ASSUME StubAssumption == Stub \in [Key -> StubSet]
ASSUME NoElemAssumption == NoElem \notin Elem
ASSUME AdrAssumption == Adr # {} /\ Datum # {}

VARIABLES
    h_table,   \* the slots of dbf->bucket
    count,     \* dbf->bucket->count
    file,      \* what is written at each address
    inuse,     \* the areas the allocator has handed out and not got back
    ca_data,   \* the data cache of the bucket, cache_mru->ca_data
    op,        \* the call being served
    pc,        \* where that call stands
    elem_loc,  \* local variable of the same name in findkey, store, delete
    last_loc,  \* last_loc of gdbm_delete: the slot emptied last
    ret        \* what the last call returned

vars == <<h_table, count, file, inuse, ca_data, op, pc, elem_loc, last_loc, ret>>

-----------------------------------------------------------------------------
(* Slots and probing. *)

\* Mutant of NextLoc: the table is not circular.
NextLocNoWrap(i) == i + 1

\* (elem_loc + 1) % bucket_elems
NextLoc(i) == IF i + 1 = BucketElems THEN 0 ELSE i + 1

\* The home position of a hash value.
HomeOf(h) == h % BucketElems

Occupied(i) == h_table[i] # NoElem

\* The key and content the slot's area of the file holds.
DatumAt(i) == file[h_table[i].data_pointer]

\* Slot i passes the cheap comparisons with key k: hash, size and first bytes.
Candidate(i, k) ==
    /\ Occupied(i)
    /\ h_table[i].hash_value = Hash[k]
    /\ h_table[i].key_start = Stub[k]

(* The data cache. *)
NoData == [elem_loc |-> -1, hash_val |-> -1, datum |-> CHOOSE d \in Datum : TRUE]

\* _gdbm_read_entry: the cached copy if there is one, otherwise the file's,
\* which then replaces the cached one.
ReadEntry(i) ==
    IF ca_data.elem_loc = i
    THEN ca_data
    ELSE [elem_loc |-> i, hash_val |-> h_table[i].hash_value, datum |-> DatumAt(i)]

\* Mutant of CacheHit: trusts equal hash values.
CacheHitByHash(k) == ca_data.elem_loc # -1 /\ ca_data.hash_val = Hash[k]

\* The last entry found in this bucket is the one asked for.
CacheHit(k) ==
    /\ ca_data.elem_loc # -1
    /\ ca_data.hash_val = Hash[k]
    /\ ca_data.datum.key = k

\* Mutant of WriteBucket: the cached entry survives the write.
WriteBucketKeepsData == UNCHANGED ca_data

\* _gdbm_write_bucket, reached from _gdbm_end_update because the bucket has
\* changed, forgets the cached entry.
WriteBucket == ca_data' = NoData

-----------------------------------------------------------------------------
Calls == [kind : {"fetch", "delete"}, key : Key]
           \cup [kind : {"insert", "replace"}, key : Key, data : Value]

\* Between calls the arguments and local variables have no meaning; they are
\* given one value.
NoCall == CHOOSE c \in Calls : TRUE

Return(r) ==
    /\ ret' = r
    /\ pc' = "idle"
    /\ op' = NoCall
    /\ elem_loc' = 0
    /\ last_loc' = 0

Init ==
    /\ h_table = [i \in Slot |-> NoElem]
    /\ count = 0
    /\ file = [a \in Adr |-> CHOOSE d \in Datum : TRUE]
    /\ inuse = {}
    /\ ca_data = NoData
    /\ op = NoCall
    /\ pc = "idle"
    /\ elem_loc = 0
    /\ last_loc = 0
    /\ ret = "none"

\* A call arrives: _gdbm_findkey computes the hash and the home slot and tries
\* the data cache first.
Call(c) ==
    /\ pc = "idle"
    /\ op' = c
    /\ ret' = "none"
    /\ IF CacheHit(c.key)
       THEN pc' = "found" /\ elem_loc' = ca_data.elem_loc
       ELSE pc' = "probe" /\ elem_loc' = HomeOf(Hash[c.key])
    /\ UNCHANGED <<h_table, count, file, inuse, ca_data, last_loc>>

\* An empty slot ends the search.
ProbeEmpty ==
    /\ pc = "probe"
    /\ ~Occupied(elem_loc)
    /\ pc' = "missed"
    /\ UNCHANGED <<h_table, count, file, inuse, ca_data, op, elem_loc, last_loc, ret>>

\* Mutant of Advance: a full circle does not end the search.
AdvanceForever == elem_loc' = NextLoc(elem_loc) /\ pc' = "probe"

\* Where the search goes from a slot that is not the one: on, or to an end when
\* it is back at the home slot.
Advance ==
    /\ elem_loc' = NextLoc(elem_loc)
    /\ pc' = IF NextLoc(elem_loc) = HomeOf(Hash[op.key]) THEN "missed" ELSE "probe"

\* The slot differs in hash value, key size or first bytes.
ProbeOther ==
    /\ pc = "probe"
    /\ Occupied(elem_loc)
    /\ ~Candidate(elem_loc, op.key)
    /\ Advance
    /\ UNCHANGED <<h_table, count, file, inuse, ca_data, op, last_loc, ret>>

\* The slot may be the one; only reading the whole key tells.
ProbeRead ==
    /\ pc = "probe"
    /\ Candidate(elem_loc, op.key)
    /\ ca_data' = ReadEntry(elem_loc)
    /\ IF ca_data'.datum.key = op.key
       THEN pc' = "found" /\ UNCHANGED elem_loc
       ELSE Advance
    /\ UNCHANGED <<h_table, count, file, inuse, op, last_loc, ret>>

-----------------------------------------------------------------------------
(* gdbm_fetch *)

Fetch ==
    /\ op.kind = "fetch"
    /\ \/ pc = "found" /\ Return(ca_data.datum.data)
       \/ pc = "missed" /\ Return("not found")
    /\ UNCHANGED <<h_table, count, file, inuse, ca_data>>

(* gdbm_store *)

\* The key exists and GDBM_INSERT was asked for.
StoreRefused ==
    /\ pc = "found"
    /\ op.kind = "insert"
    /\ Return("cannot replace")
    /\ UNCHANGED <<h_table, count, file, inuse, ca_data>>

\* The area a replacement goes to: the old one when the size is the same, else
\* any area the allocator has, the one just freed included.
ReplacementArea(old, v) ==
    IF Size[file[old].data] = Size[v]
    THEN {old}
    ELSE (Adr \ inuse) \cup {old}

\* The key exists and GDBM_REPLACE was asked for.
StoreReplace ==
    /\ pc = "found"
    /\ op.kind = "replace"
    /\ LET old == h_table[elem_loc].data_pointer
       IN \E a \in ReplacementArea(old, op.data) :
            /\ inuse' = (inuse \ {old}) \cup {a}
            /\ h_table' = [h_table EXCEPT ![elem_loc].data_pointer = a]
            /\ file' = [file EXCEPT ![a] = [key |-> op.key, data |-> op.data]]
    /\ WriteBucket
    /\ Return("stored")
    /\ UNCHANGED count

\* No such key, and the bucket is full: _gdbm_split_bucket takes over.
StoreSplit ==
    /\ pc = "missed"
    /\ op.kind \in {"insert", "replace"}
    /\ count = BucketElems
    /\ Return("split")
    /\ UNCHANGED <<h_table, count, file, inuse, ca_data>>

\* Mutant of StoreNew: does not look at count.
StoreNewUnchecked ==
    /\ pc = "missed"
    /\ op.kind \in {"insert", "replace"}
    /\ elem_loc' = HomeOf(Hash[op.key])
    /\ pc' = "place"
    /\ UNCHANGED <<h_table, count, file, inuse, ca_data, op, last_loc, ret>>

\* No such key: look for a free slot, starting from the home slot again.
StoreNew ==
    /\ pc = "missed"
    /\ op.kind \in {"insert", "replace"}
    /\ count # BucketElems
    /\ elem_loc' = HomeOf(Hash[op.key])
    /\ pc' = "place"
    /\ UNCHANGED <<h_table, count, file, inuse, ca_data, op, last_loc, ret>>

\* The slot is taken; a full circle means the table is damaged.
PlaceNext ==
    /\ pc = "place"
    /\ Occupied(elem_loc)
    /\ elem_loc' = NextLoc(elem_loc)
    /\ pc' = IF NextLoc(elem_loc) = HomeOf(Hash[op.key]) THEN "bad hash table" ELSE "place"
    /\ UNCHANGED <<h_table, count, file, inuse, ca_data, op, last_loc, ret>>

\* The slot is free: the element goes there.
PlaceHere ==
    /\ pc = "place"
    /\ ~Occupied(elem_loc)
    /\ \E a \in Adr \ inuse :
         /\ inuse' = inuse \cup {a}
         /\ file' = [file EXCEPT ![a] = [key |-> op.key, data |-> op.data]]
         /\ h_table' = [h_table EXCEPT ![elem_loc] =
                          [hash_value |-> Hash[op.key],
                           key_start |-> Stub[op.key],
                           data_pointer |-> a]]
    /\ count' = count + 1
    /\ WriteBucket
    /\ Return("stored")

(* gdbm_delete *)

DeleteMissing ==
    /\ pc = "missed"
    /\ op.kind = "delete"
    /\ Return("not found")
    /\ UNCHANGED <<h_table, count, file, inuse, ca_data>>

\* Mutant of DeleteElem: the area of the element is not freed.
DeleteElemLeaks ==
    /\ pc = "found"
    /\ op.kind = "delete"
    /\ h_table' = [h_table EXCEPT ![elem_loc] = NoElem]
    /\ count' = count - 1
    /\ last_loc' = elem_loc
    /\ elem_loc' = NextLoc(elem_loc)
    /\ pc' = "close gap"
    /\ UNCHANGED <<file, inuse, ca_data, op, ret>>

\* Empty the slot.  gdbm_delete gives the area back after the loop; nothing in
\* between looks at the allocator, so the model does it here.
DeleteElem ==
    /\ pc = "found"
    /\ op.kind = "delete"
    /\ inuse' = inuse \ {h_table[elem_loc].data_pointer}
    /\ h_table' = [h_table EXCEPT ![elem_loc] = NoElem]
    /\ count' = count - 1
    /\ last_loc' = elem_loc
    /\ elem_loc' = NextLoc(elem_loc)
    /\ pc' = "close gap"
    /\ UNCHANGED <<file, ca_data, op, ret>>

\* Mutant of MustMove: forgets that the scan may have wrapped round.
MustMoveNoWrap(l, e, home) == l < e /\ (home <= l \/ home > e)

\* The element in slot e must move to the empty slot l to stay reachable.
MustMove(l, e, home) ==
    \/ l < e /\ (home <= l \/ home > e)
    \/ l > e /\ home <= l /\ home > e

\* One iteration of the loop that moves later elements into the gap.
CloseGap ==
    /\ pc = "close gap"
    /\ elem_loc # last_loc
    /\ Occupied(elem_loc)
    /\ IF MustMove(last_loc, elem_loc, HomeOf(h_table[elem_loc].hash_value))
       THEN /\ h_table' = [h_table EXCEPT ![last_loc] = h_table[elem_loc],
                                          ![elem_loc] = NoElem]
            /\ last_loc' = elem_loc
       ELSE UNCHANGED <<h_table, last_loc>>
    /\ elem_loc' = NextLoc(elem_loc)
    /\ UNCHANGED <<count, file, inuse, ca_data, op, pc, ret>>

\* The loop ends: forget the cached entry and write the bucket.
DeleteDone ==
    /\ pc = "close gap"
    /\ (elem_loc = last_loc \/ ~Occupied(elem_loc))
    /\ WriteBucket
    /\ Return("deleted")
    /\ UNCHANGED <<h_table, count, file, inuse>>

-----------------------------------------------------------------------------
Step ==
    \/ ProbeEmpty \/ ProbeOther \/ ProbeRead
    \/ Fetch
    \/ StoreRefused \/ StoreReplace \/ StoreSplit \/ StoreNew
    \/ PlaceNext \/ PlaceHere
    \/ DeleteMissing \/ DeleteElem \/ CloseGap \/ DeleteDone

Next == Step \/ \E c \in Calls : Call(c)

\* A call in progress runs to its end; nobody has to make another one.
Spec == Init /\ [][Next]_vars /\ WF_vars(Step)
-----------------------------------------------------------------------------
(* Properties. *)

TypeOK ==
    /\ h_table \in [Slot -> Elem \cup {NoElem}]
    /\ count \in Int
    /\ file \in [Adr -> Datum]
    /\ inuse \subseteq Adr
    /\ ca_data \in [elem_loc : Slot \cup {-1}, hash_val : Nat \cup {-1}, datum : Datum]
    /\ op \in Calls
    /\ pc \in {"idle", "probe", "found", "missed", "place", "close gap", "bad hash table"}
    /\ elem_loc \in Slot
    /\ last_loc \in Slot

\* x lies on the circular way from a up to, and not including, b.
InArc(a, b, x) == IF a <= b THEN a <= x /\ x < b ELSE a <= x \/ x < b

\* Between calls no probe chain has a hole: every slot between the home slot of
\* an element and the slot it is in is taken.  It is what the moving loop of
\* gdbm_delete (gdbmdelete.c:62-79) is for, and what lets _gdbm_findkey stop at
\* the first empty slot.
ChainsClosed ==
    pc # "close gap" =>
        \A i \in Slot : Occupied(i) =>
            \A x \in Slot : InArc(HomeOf(h_table[i].hash_value), i, x) => Occupied(x)

\* _gdbm_findkey answers with the slot that holds the key, and says "not found"
\* only when no slot holds it, whatever deletions and collisions came before;
\* the datum gdbm_fetch then copies is the one in the file.
SearchRight ==
    /\ pc = "found" =>
         /\ Occupied(elem_loc)
         /\ DatumAt(elem_loc).key = op.key
         /\ ca_data.elem_loc = elem_loc /\ ca_data.datum = DatumAt(elem_loc)
    /\ pc \in {"missed", "place"} =>
         \A i \in Slot : Occupied(i) => DatumAt(i).key # op.key

\* The data cache of the bucket is never stale between calls: what it keeps for
\* a slot is what the file holds for that slot now.  gdbm_store has no
\* invalidation of its own; it relies on _gdbm_write_bucket.
CacheCoherent ==
    pc # "close gap" /\ ca_data.elem_loc # -1 =>
        /\ Occupied(ca_data.elem_loc)
        /\ ca_data.hash_val = h_table[ca_data.elem_loc].hash_value
        /\ ca_data.datum = DatumAt(ca_data.elem_loc)

\* No key has two elements, no two elements share an area of the file, and the
\* areas in use are exactly those the elements point to: no store, replacement
\* or delete leaks an area or hands out one that is still referenced.
OneAreaPerKey ==
    /\ \A i, j \in Slot : Occupied(i) /\ Occupied(j) /\ i # j =>
          /\ DatumAt(i).key # DatumAt(j).key
          /\ h_table[i].data_pointer # h_table[j].data_pointer
    /\ inuse = {h_table[i].data_pointer : i \in {j \in Slot : Occupied(j)}}

\* count is the number of elements, and the search for a free slot that it
\* guards (gdbmstore.c:129) never comes round to GDBM_BAD_HASH_TABLE.
CountRight ==
    /\ count = Cardinality({i \in Slot : Occupied(i)})
    /\ pc # "bad hash table"

(* What makes the properties above inductive. *)

\* A slot keeps the hash value and the stub of the key its area holds.
ElemsRight ==
    \A i \in Slot : Occupied(i) =>
        /\ h_table[i].hash_value = Hash[DatumAt(i).key]
        /\ h_table[i].key_start = Stub[DatumAt(i).key]

\* The loop of gdbm_delete: the only hole in a probe chain is last_loc, and the
\* elements already passed do not need it.
GapRight ==
    pc = "close gap" =>
        /\ ~Occupied(last_loc)
        /\ \A x \in Slot : InArc(NextLoc(last_loc), elem_loc, x) => Occupied(x)
        /\ \A i \in Slot : Occupied(i) =>
             /\ \A x \in Slot : InArc(HomeOf(h_table[i].hash_value), i, x)
                                 => Occupied(x) \/ x = last_loc
             /\ InArc(HomeOf(h_table[i].hash_value), i, last_loc)
                   => ~InArc(NextLoc(last_loc), elem_loc, i)

\* The loops of _gdbm_findkey and gdbm_store: what they have passed.
ProbeRight ==
    /\ pc = "probe" =>
         \A x \in Slot : InArc(HomeOf(Hash[op.key]), elem_loc, x)
                           => Occupied(x) /\ DatumAt(x).key # op.key
    /\ pc = "place" =>
         /\ op.kind \in {"insert", "replace"}
         /\ count # BucketElems
         /\ \A x \in Slot : InArc(HomeOf(Hash[op.key]), elem_loc, x) => Occupied(x)

IInv ==
    /\ TypeOK
    /\ ElemsRight
    /\ OneAreaPerKey
    /\ ChainsClosed
    /\ GapRight
    /\ ProbeRight
    /\ SearchRight
    /\ CacheCoherent
    /\ CountRight

\* Every call returns: the probing loops and the moving loop of gdbm_delete end,
\* in a full table too, where no empty slot stops them.
CallsReturn == pc # "idle" ~> pc = "idle"
=============================================================================
