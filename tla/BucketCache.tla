----------------------------- MODULE BucketCache -----------------------------
(***************************************************************************)
(* The cache of buckets (bucket.c): a list in order of use, whose head is  *)
(* the current bucket, and a hash table of collision chains over the same  *)
(* elements.  Changed buckets are written when a call ends, when they are  *)
(* thrown out, and before an unchanged bucket becomes the current one.     *)
(*                                                                         *)
(* Of a bucket's content the model keeps whether it is the newest one.     *)
(* Left out: buckets that cannot be read or written, and which key leads   *)
(* to which bucket.                                                        *)
(***************************************************************************)
EXTENDS Integers, SequencesExt

CONSTANTS
    Adr,           \* file addresses of buckets
    AdrHash,       \* AdrHash[n]: the 32-bit product in adrhash for a table of 2^n entries,
                   \* with the address mixed for this n; the index is its first n bits
    HashBits,      \* the number of bits of the product, 32 in the code
    CacheBits,     \* the values cache_bits may get from gdbm_setopt and growth
    MaxDirBits,    \* bound on dir_bits
    InitLive,      \* the sets of buckets a database may have when it is opened
    Modes          \* which behaviours are admitted, see Admitted, Grows and SplitFails

ASSUME CacheAssumption ==
    /\ HashBits \in Nat
    /\ AdrHash \in [CacheBits -> [Adr -> 0 .. 2^HashBits - 1]]
    /\ \A n \in CacheBits : n \in 2 .. HashBits /\ (n < MaxDirBits => n + 1 \in CacheBits)
    /\ MaxDirBits \in Nat \ {0, 1}
    /\ \A L \in InitLive : L \subseteq Adr /\ L # {}
    /\ Modes \subseteq [resize : BOOLEAN, stale_slot : BOOLEAN, gap : BOOLEAN]

\* The laws of exponents the index relies on.
ASSUME PowerAssumption ==
    \A n \in 0 .. HashBits : /\ 2^n \in Nat \ {0}
                             /\ 2^n * 2^(HashBits - n) = 2^HashBits
                             /\ n >= 2 => 2^n >= 4
                             /\ 2^(n + 1) = 2 * 2^n

VARIABLES
    lru,         \* the list of elements, from cache_mru to cache_lru
    tab,         \* dbf->cache: the collision chain, by address, of every index
    avail,       \* the number of freed elements in cache_avail
    cache_bits,  \* log2 of the capacity
    cache_auto,  \* the cache may grow by itself
    disk,        \* disk[a]: the file holds the newest content of bucket a
    live,        \* the buckets the directory points to
    leaked,      \* allocated by a split that failed, and never freed
    dir_bits,    \* dbf->header->dir_bits
    pc,          \* "idle"; "got" a bucket; "split" it; "aborted"; "corrupted"
    mode         \* a member of Modes

vars == <<lru, tab, avail, cache_bits, cache_auto, disk, live, leaked, dir_bits, pc, mode>>

\* An element: ca_adr, ca_changed, whether ca_bucket is the newest content, and
\* whether the element is in a collision chain.
Element(a, changed, fresh, intab) ==
    [adr |-> a, changed |-> changed, fresh |-> fresh, intab |-> intab]

-----------------------------------------------------------------------------
(* Operators on the cache as a whole, a record of the variables above. *)

Cache == [lru |-> lru, tab |-> tab, avail |-> avail, bits |-> cache_bits, disk |-> disk,
          aborted |-> FALSE]

\* adrhash
Index(a, bits) == AdrHash[bits][a] \div 2^(HashBits - bits)

\* cache_tab_lookup_slot finds an element.
InTable(c, a) == Contains(c.tab[Index(a, c.bits)], a)

\* Positions of the list that a flush writes: it stops at the first unchanged
\* element.
FlushRange(list) == {i \in DOMAIN list : \A j \in 1 .. i : list[j].changed}

\* Mutant of Flush: writes the current bucket only.
FlushOne(c) ==
    IF c.lru # <<>> /\ c.lru[1].changed
    THEN [c EXCEPT !.lru[1].changed = FALSE, !.disk[c.lru[1].adr] = c.lru[1].fresh]
    ELSE c

\* _gdbm_cache_flush
Flush(c) ==
    LET written == FlushRange(c.lru)
    IN [c EXCEPT
          !.lru = [i \in DOMAIN @ |-> IF i \in written THEN [@[i] EXCEPT !.changed = FALSE] ELSE @[i]],
          !.disk = [a \in Adr |-> IF \E i \in written : c.lru[i].adr = a
                                  THEN \E i \in written : c.lru[i].adr = a /\ c.lru[i].fresh
                                  ELSE @[a]]]

\* Mutant of Unchain: the element stays in its chain.
UnchainNot(c, e) == c.tab

\* A chain without the element of address a.
Unlink(chain, a) == RemoveAt(chain, CHOOSE i \in DOMAIN chain : chain[i] = a)

\* The table without element e.
Unchain(c, e) ==
    IF e.intab THEN [c.tab EXCEPT ![Index(e.adr, c.bits)] = Unlink(@, e.adr)]
    ELSE c.tab

\* cache_elem_free of the element at position i.
ElemFree(c, i) ==
    [c EXCEPT !.tab = Unchain(c, c.lru[i]), !.lru = RemoveAt(@, i), !.avail = @ + 1]

\* cache_elem_new: a freed element is used again.
ElemNew(c) == IF c.avail > 0 THEN [c EXCEPT !.avail = @ - 1] ELSE c

\* Mutant of LruFree: a changed element is not written.
LruFreeUnwritten(c) == ElemFree(c, Len(c.lru))

\* cache_lru_free
LruFree(c) ==
    LET last == Last(c.lru)
    IN ElemFree(IF last.changed THEN [c EXCEPT !.disk[last.adr] = last.fresh] ELSE c, Len(c.lru))

\* The table with address a at the end of chain h.
Link(table, h, a) == [table EXCEPT ![h] = Append(@, a)]

\* A new table of the addresses, each entered at the end of its chain, in order.
Rehash(adrs, bits) ==
    LET Entered[i \in 0 .. Len(adrs)] ==
          IF i = 0 THEN [h \in 0 .. 2^bits - 1 |-> <<>>]
          ELSE Link(Entered[i - 1], Index(adrs[i], bits), adrs[i])
    IN Entered[Len(adrs)]

\* cache_tab_resize: the elements that fit are entered into the new table, the
\* least recently used first; it aborts on a second element of an address.
Resize(c, bits) ==
    IF bits = c.bits THEN c
    ELSE LET f == Flush(c)
             kept == SubSeq(f.lru, 1, IF Len(f.lru) < 2^bits THEN Len(f.lru) ELSE 2^bits)
             adrs == [i \in DOMAIN kept |-> kept[Len(kept) + 1 - i].adr]
         IN [f EXCEPT
               !.bits = bits,
               !.avail = @ + Len(f.lru) - Len(kept),
               !.lru = [i \in DOMAIN kept |-> [kept[i] EXCEPT !.intab = TRUE]],
               !.tab = Rehash(adrs, bits),
               !.aborted = \E i, j \in DOMAIN adrs : i # j /\ adrs[i] = adrs[j]]

\* Mutant of Full: one element too many.
FullLate(c) == Len(c.lru) > 2^c.bits

Full(c) == Len(c.lru) = 2^c.bits

\* Mutant of SlotBits: the slot found before the resize.
SlotBitsOld(c) == cache_bits

\* The width of the index the new element is entered at: the slot is computed
\* again after a resize.
SlotBits(c) == c.bits

\* The chain that a missing address would extend ends with the element at the
\* end of the list: the slot that cache_tab_lookup_slot has returned is part of
\* the element that cache_lru_free is about to free.
SlotInLast(c, a) ==
    LET chain == c.tab[Index(a, c.bits)]
    IN chain # <<>> /\ Last(c.lru).intab /\ Last(chain) = Last(c.lru).adr

Grows(c) == cache_auto /\ c.bits < dir_bits /\ mode.resize

\* Room for an element that is going to be added.
MakeRoom(c) ==
    IF ~Full(c) THEN c
    ELSE IF Grows(c) THEN Resize(c, c.bits + 1)
    ELSE LruFree(c)

\* What cache_lookup does for an address that is not in the table: the new
\* element goes to position pos of the list.  It is not in any chain when its
\* slot was in the element that was freed.
AddElem(c, a, pos) ==
    LET lost == Full(c) /\ ~Grows(c) /\ SlotInLast(c, a)
        r == MakeRoom(ElemNew(c))
        e == Element(a, FALSE, FALSE, ~lost)
        h == Index(a, SlotBits(r))
    IN [r EXCEPT !.lru = InsertAt(@, pos, e),
                 !.tab = IF lost THEN @ ELSE Link(@, h, a)]

\* The behaviours in which that happens are left out in some modes.
Admitted(c, a) ==
    mode.stale_slot \/ InTable(c, a) \/ ~(Full(c) /\ ~Grows(c) /\ SlotInLast(c, a))

Install(c) ==
    /\ lru' = c.lru
    /\ tab' = c.tab
    /\ avail' = c.avail
    /\ cache_bits' = c.bits
    /\ disk' = c.disk

-----------------------------------------------------------------------------
\* A database has just been opened.
Init ==
    /\ lru = <<>>
    /\ \E bits \in CacheBits :
         /\ cache_bits = bits
         /\ tab = [h \in 0 .. 2^bits - 1 |-> <<>>]
    /\ avail = 0
    /\ cache_auto \in BOOLEAN
    /\ disk = [a \in Adr |-> TRUE]
    /\ live \in InitLive
    /\ leaked = {}
    /\ dir_bits = 2
    /\ pc = "idle"
    /\ mode \in Modes

\* The element with address a, and where it is in the list.
PosOf(c, a) == CHOOSE i \in DOMAIN c.lru : c.lru[i].adr = a /\ c.lru[i].intab

\* Mutant of FlushBefore: never flushes.
FlushBeforeNot(c, e) == c

\* An unchanged bucket that becomes the current one has all changed ones written
\* before.
FlushBefore(c, e) == IF e.changed THEN c ELSE Flush(c)

\* _gdbm_get_bucket of a bucket that is in the cache: it moves to the head.
GetCached(a) ==
    /\ pc = "idle"
    /\ a \in live
    /\ InTable(Cache, a)
    /\ LET i == PosOf(Cache, a)
           c == FlushBefore([Cache EXCEPT !.lru = RemoveAt(@, i)], lru[i])
       IN Install([c EXCEPT !.lru = <<lru[i]>> \o @])
    /\ pc' = "got"
    /\ UNCHANGED <<cache_auto, live, leaked, dir_bits, mode>>

\* _gdbm_get_bucket of a bucket that is not: it is added and read.
GetNew(a) ==
    /\ pc = "idle"
    /\ a \in live
    /\ ~InTable(Cache, a)
    /\ Admitted(Cache, a)
    /\ LET r == AddElem(Cache, a, 1)
           c == FlushBefore([r EXCEPT !.lru = Tail(@)], r.lru[1])
       IN /\ Install([c EXCEPT !.lru = <<[r.lru[1] EXCEPT !.fresh = c.disk[a]]>> \o @])
          /\ pc' = IF r.aborted THEN "aborted" ELSE "got"
    /\ UNCHANGED <<cache_auto, live, leaked, dir_bits, mode>>

\* A call that only reads the current bucket returns.
Return ==
    /\ pc = "got"
    /\ pc' = "idle"
    /\ UNCHANGED <<lru, tab, avail, cache_bits, cache_auto, disk, live, leaked, dir_bits, mode>>

\* gdbm_store or gdbm_delete changes the current bucket, which makes all other
\* copies of it old, and _gdbm_end_update writes the changed buckets.
Change ==
    /\ pc \in {"got", "split"}
    /\ LET cur == lru[1].adr
       IN Install(Flush([Cache EXCEPT
            !.lru = [i \in DOMAIN lru |->
                       IF i = 1 THEN [lru[1] EXCEPT !.changed = TRUE]
                       ELSE [lru[i] EXCEPT !.fresh = lru[i].fresh /\ lru[i].adr # cur]],
            !.disk[cur] = FALSE]))
    /\ pc' = "idle"
    /\ UNCHANGED <<cache_auto, live, leaked, dir_bits, mode>>

\* One iteration of _gdbm_split_bucket with new buckets a0 and a1: they are
\* added right behind the current bucket, filled and marked as changed, the
\* current bucket is freed, and the one the new key belongs to goes to the head.
\* The directory may be doubled.
Split(a0, a1) ==
    /\ pc \in {"got", "split"}
    /\ a0 \notin live \cup leaked /\ a1 \notin live \cup leaked /\ a0 # a1
    /\ Admitted(Cache, a0)
    /\ LET c0 == AddElem(Cache, a0, 2)
           c1 == AddElem(c0, a1, 3)
           c == ElemFree(c1, 1)
           new(i) == [c.lru[i] EXCEPT !.changed = TRUE, !.fresh = TRUE]
       IN IF InTable(Cache, a0) \/ InTable(c0, a1)
          THEN pc' = "corrupted" /\ UNCHANGED <<lru, tab, avail, cache_bits, disk, live, dir_bits>>
          ELSE /\ Admitted(c0, a1)
               /\ \/ Install([c EXCEPT !.lru = [@ EXCEPT ![1] = new(1), ![2] = new(2)],
                                       !.disk = [@ EXCEPT ![a0] = FALSE, ![a1] = FALSE]])
                  \/ Install([c EXCEPT !.lru = [@ EXCEPT ![1] = new(2), ![2] = new(1)],
                                       !.disk = [@ EXCEPT ![a0] = FALSE, ![a1] = FALSE]])
               /\ live' = (live \ {lru[1].adr}) \cup {a0, a1}
               /\ dir_bits' \in {dir_bits, IF dir_bits < MaxDirBits THEN dir_bits + 1 ELSE dir_bits}
               /\ pc' = IF c1.aborted THEN "aborted" ELSE "split"
    /\ UNCHANGED <<cache_auto, leaked, mode>>

\* There is memory for the first new bucket of an iteration and none for the
\* second: gdbm_store fails without _gdbm_end_update, the database stays usable,
\* and the first one stays in the cache, unchanged, behind the current bucket.
\* Some modes leave out that this separates changed elements.
SplitFails(a0) ==
    /\ pc \in {"got", "split"}
    /\ a0 \notin live \cup leaked
    /\ ~InTable(Cache, a0)
    /\ Admitted(Cache, a0)
    /\ LET c == AddElem(Cache, a0, 2)
       IN /\ c.avail = 0
          /\ mode.gap \/ ~(Len(c.lru) >= 3 /\ c.lru[3].changed)
          /\ Install(c)
          /\ pc' = IF c.aborted THEN "aborted" ELSE "idle"
    /\ leaked' = leaked \cup {a0}
    /\ UNCHANGED <<cache_auto, live, dir_bits, mode>>

\* After a split the key or its content cannot be written, because mmap failed
\* and then write: that error is not fatal, gdbm_store fails without
\* _gdbm_end_update, and the database stays usable.
StoreFails ==
    /\ pc = "split"
    /\ pc' = "idle"
    /\ UNCHANGED <<lru, tab, avail, cache_bits, cache_auto, disk, live, leaked, dir_bits, mode>>

\* gdbm_setopt GDBM_SETCACHESIZE: the capacity is fixed.
SetCacheSize(bits) ==
    /\ pc = "idle"
    /\ mode.resize
    /\ Install(Resize(Cache, bits))
    /\ cache_auto' = FALSE
    /\ pc' = IF Resize(Cache, bits).aborted THEN "aborted" ELSE "idle"
    /\ UNCHANGED <<live, leaked, dir_bits, mode>>

\* gdbm_setopt GDBM_SETCACHEAUTO
SetCacheAuto(n) ==
    /\ pc = "idle"
    /\ cache_auto' = n
    /\ UNCHANGED <<lru, tab, avail, cache_bits, disk, live, leaked, dir_bits, pc, mode>>

Next ==
    \/ \E a \in Adr : GetCached(a) \/ GetNew(a) \/ SplitFails(a)
    \/ \E a0, a1 \in Adr : Split(a0, a1)
    \/ Return \/ Change \/ StoreFails
    \/ \E bits \in CacheBits : SetCacheSize(bits)
    \/ \E n \in BOOLEAN : SetCacheAuto(n)

Spec == Init /\ [][Next]_vars
-----------------------------------------------------------------------------
(* Properties. *)

TypeOK ==
    /\ cache_bits \in CacheBits
    /\ Len(lru) <= 2^cache_bits
    /\ \A i \in DOMAIN lru : lru[i] \in [adr : Adr, changed : BOOLEAN, fresh : BOOLEAN, intab : BOOLEAN]
    /\ \A h \in 0 .. 2^cache_bits - 1 : \A i \in DOMAIN tab[h] : tab[h][i] \in Adr
    /\ disk \in [Adr -> BOOLEAN]
    /\ avail \in Nat
    /\ live \subseteq Adr /\ leaked \subseteq Adr \ live
    /\ pc \in {"idle", "got", "split", "aborted", "corrupted"}

\* The changed elements are a contiguous sequence at the head of the list
\* (comment at bucket.c:754), in the middle of a split of several iterations
\* too; _gdbm_cache_flush stops at the first unchanged one and would miss others.
ChangedFirst ==
    \A i, j \in DOMAIN lru : i < j /\ lru[j].changed => lru[i].changed

\* What a lookup in the table can find is never out of date: not after the
\* bucket was thrown out and read again, and not when the address has been freed
\* by a split and belongs to another bucket now.  (The address of a bucket that a
\* failed split left behind, nobody looks up.)
CacheFresh ==
    \A i \in DOMAIN lru : lru[i].intab /\ lru[i].adr \notin leaked => lru[i].fresh /\ lru[i].adr \in live

\* Between calls the file holds the newest content of every bucket, or the next
\* flush, which only looks at the head of the list, will write it.
AllWritten ==
    pc = "idle" => \A a \in live : disk[a] \/ \E i \in FlushRange(lru) : lru[i].adr = a

\* The list and the table have the same elements, every one in the chain of its
\* address and only there, through evictions, splits and resizes.
ListIsTable ==
    /\ \A h \in 0 .. 2^cache_bits - 1 : \A i \in DOMAIN tab[h] :
         /\ Index(tab[h][i], cache_bits) = h
         /\ \A j \in DOMAIN tab[h] : tab[h][i] = tab[h][j] => i = j
         /\ \E j \in DOMAIN lru : lru[j].adr = tab[h][i] /\ lru[j].intab
    /\ \A i \in DOMAIN lru :
         /\ lru[i].intab => InTable(Cache, lru[i].adr)
         /\ mode.stale_slot \/ lru[i].intab

\* The places marked as "shouldn't happen" (bucket.c:279, the abort of
\* cache_tab_resize) and "should not happen" (bucket.c:493 and 512, a new bucket
\* that is in the cache already) are not reached.
NeverCorrupted == pc \notin {"aborted", "corrupted"}
=============================================================================
