------------------------------ MODULE FileAlloc ------------------------------
(***************************************************************************)
(* File space: who owns which bytes of the database file.                  *)
(*                                                                         *)
(* The header has a table of free extents, backed by a stack of avail      *)
(* blocks in the file; every bucket has a small table of its own.  The     *)
(* module follows falloc.c and the calls that gdbm_store, gdbm_delete,     *)
(* _gdbm_split_bucket (bucket.c) and gdbm_convert (gdbmopen.c) make to it. *)
(* Addresses and sizes are real numbers of bytes, in a small scale.        *)
(*                                                                         *)
(* Left out: input/output errors, and which key goes to which bucket (a    *)
(* split may divide the elements in any way; HashDir models the keys).     *)
(***************************************************************************)
EXTENDS Integers, Sequences, FiniteSets, SequencesExt

CONSTANTS
    BlockSize,      \* block_size, bucket_size and the initial dir_size
    BucketElems,    \* bucket_elems
    BucketAvail,    \* BUCKET_AVAIL
    IgnoreSize,     \* IGNORE_SIZE
    ElemBytes,      \* sizeof (avail_elem)
    AvailHead,      \* sizeof (avail_block)
    StdSize,        \* entries of the header table in the standard format
    ExtSize,        \* and in the extended (numsync) format
    MaxDirHalf,     \* GDBM_MAX_DIR_HALF
    AreaSizes,      \* sizes of key and data to be stored
    InitDirBits,    \* dir_bits of a new database
    InitSizes,      \* the header table sizes a database may start with
    Ages,           \* how fragmented it may be when the behaviour starts
    FromWithStack,  \* gdbm_convert (dbf, 0) may find avail blocks on the stack
    MaxCalls        \* bound on the number of calls

ASSUME SizesAssumption ==
    /\ BlockSize \in Nat /\ IgnoreSize \in Nat /\ IgnoreSize < BlockSize
    /\ BucketElems \in Nat \ {0}
    /\ BucketAvail \in Nat /\ BucketAvail \div 3 > 0
    /\ ElemBytes \in Nat \ {0} /\ AvailHead \in Nat \ {0}
    /\ AreaSizes \subseteq Nat \ {0}
    /\ InitSizes \subseteq {StdSize, ExtSize} /\ Ages \subseteq Nat
    /\ FromWithStack \in BOOLEAN

\* The header table is not so small that it overflows while half of it is being
\* pushed: half of the entries stay, and adjust_bucket_avail may bring in
\* BUCKET_AVAIL / 3 more next to the freed one and the rest of the pushed block.
\* The smallest block size, 512, gives 26 entries and BUCKET_AVAIL is 6.  The
\* standard header lacks the gdbm_ext_header, which is as long as two entries, so
\* that half of the table is at most one entry longer.
ASSUME TableRoomAssumption ==
    /\ StdSize \in Nat /\ ExtSize \in Nat
    /\ (ExtSize + 1) \div 2 + BucketAvail \div 3 + 2 <= ExtSize
    /\ StdSize > ExtSize
    /\ StdSize \div 2 <= ExtSize \div 2 + 1

VARIABLES
    db,     \* the descriptor: the header, with the avail table of the current bucket
    dir,    \* the directory: where it is, and dir_bits
    bucket, \* the buckets, by address: avail table and bucket_bits
    cur,    \* the address of the current bucket
    area,   \* the key/data areas, with the bucket whose elements own them
    pc,     \* "idle", "split" (in _gdbm_split_bucket), "need recovery"
    olds,   \* old_adr, old_size of _gdbm_split_bucket
    fresh,  \* the area allocated for the element a split makes room for
    calls   \* the number of calls so far

vars == <<db, dir, bucket, cur, area, pc, olds, fresh, calls>>

Extent(a, n) == [adr |-> a, size |-> n]
NoExtent == Extent(0, 0)

\* F(v).  The operators below pass a descriptor from one to the next through it;
\* v is evaluated only once, however often F uses its argument.
With(v, F(_)) == CHOOSE r \in {F(x) : x \in {v}} : TRUE

-----------------------------------------------------------------------------
(* Tables of free extents, sorted by size. *)

\* One round of the binary search, over the count entries that follow the first
\* start; an entry of the very size ends it.
Halve(size, t, s) ==
    LET pivot == s.start + s.count \div 2
    IN IF s.count = 0 THEN s
       ELSE IF size = t[pivot + 1].size THEN [start |-> pivot, count |-> 0]
       ELSE IF size > t[pivot + 1].size
            THEN [start |-> pivot + 1, count |-> (s.count - 1) \div 2]
            ELSE [start |-> s.start, count |-> s.count \div 2]

\* Mutant of AvailLookup: one entry too far.
AvailLookupHigh(size, t) ==
    LET Round[n \in 0 .. Len(t)] ==
          IF n = 0 THEN [start |-> 0, count |-> Len(t)]
          ELSE With(Round[n - 1], LAMBDA s : Halve(size, t, s))
    IN With(Round[Len(t)].start, LAMBDA i : IF i < Len(t) THEN i + 1 ELSE i)

\* avail_lookup: an index, counted from 0, whose entry is at least as large as
\* size.  Every round shortens the search, so there are at most Len(t).
AvailLookup(size, t) ==
    LET Round[n \in 0 .. Len(t)] ==
          IF n = 0 THEN [start |-> 0, count |-> Len(t)]
          ELSE With(Round[n - 1], LAMBDA s : Halve(size, t, s))
    IN Round[Len(t)].start

\* The entry get_elem takes from a table, and the table that is left.
GetElem(size, t) ==
    With(AvailLookup(size, t), LAMBDA i :
      IF i >= Len(t)
      THEN [elem |-> NoExtent, table |-> t]
      ELSE [elem |-> t[i + 1], table |-> RemoveAt(t, i + 1)])

\* One look of the coalescing loop: the entry e is swallowed by the new one or
\* kept.
Coalesce(acc, e) ==
    IF e.adr + e.size = acc.new.adr
    THEN [new |-> Extent(e.adr, e.size + acc.new.size), kept |-> acc.kept]
    ELSE IF acc.new.adr + acc.new.size = e.adr
    THEN [new |-> Extent(acc.new.adr, e.size + acc.new.size), kept |-> acc.kept]
    ELSE [new |-> acc.new, kept |-> Append(acc.kept, e)]

CoalesceAll(new, t) ==
    LET Acc[i \in 0 .. Len(t)] ==
          IF i = 0 THEN [new |-> new, kept |-> <<>>]
          ELSE With(Acc[i - 1], LAMBDA acc : Coalesce(acc, t[i]))
    IN Acc[Len(t)]

\* _gdbm_put_av_elem.
PutAvElem(new, t, can_merge) ==
    IF new.size <= IgnoreSize
    THEN t
    ELSE With(IF can_merge THEN CoalesceAll(new, t) ELSE [new |-> new, kept |-> t],
              LAMBDA m : InsertAt(m.kept, AvailLookup(m.new.size, m.kept) + 1, m.new))

-----------------------------------------------------------------------------
(* The descriptor: the parts of it that the allocator works on.  Every       *)
(* operator below returns the descriptor as the function of falloc.c leaves  *)
(* it.  The blocks that the header links, the top one first, are the         *)
(* sequence stack; table is the avail table of the current bucket.           *)

Full(d) == Len(d.avail) = d.size

\* Bytes of a pushed avail block, computed from the size of the header table.
AvailBlockBytes(d) == (d.size * ElemBytes) \div 2 + AvailHead

\* get_block: whole blocks from the end of the file.
GetBlock(d, size) ==
    With(IF size <= BlockSize THEN BlockSize
         ELSE BlockSize * ((size + BlockSize - 1) \div BlockSize),
         LAMBDA bytes :
           [d |-> [d EXCEPT !.next_block = @ + bytes, !.header_changed = TRUE],
            elem |-> Extent(d.next_block, bytes)])

\* An extent from the header table, or else from the end of the file.
FromHeader(d, size) ==
    With(GetElem(size, d.avail), LAMBDA g :
      IF g.elem = NoExtent
      THEN GetBlock(d, size)
      ELSE [d |-> [d EXCEPT !.avail = g.table], elem |-> g.elem])

PutHeader(d, e, can_merge) == [d EXCEPT !.avail = PutAvElem(e, @, can_merge)]
PutBucket(d, e) == [d EXCEPT !.table = PutAvElem(e, @, d.coalesce_blocks)]

Third == BucketAvail \div 3

\* An iteration of the loop of adjust_bucket_avail: the smallest extent of a
\* bucket that has too many moves to the header.
SpillOne(d) ==
    IF Len(d.table) > BucketAvail - Third /\ Len(d.avail) < d.size
    THEN With(GetElem(0, d.table), LAMBDA g :
           PutHeader([d EXCEPT !.table = g.table], g.elem, d.coalesce_blocks))
    ELSE d

\* The whole loop; Third iterations are enough for a full table.
Spill(d) ==
    LET Round[i \in 0 .. Third] ==
          IF i = 0 THEN d ELSE With(Round[i - 1], LAMBDA s : SpillOne(s))
    IN Round[Third]

\* adjust_bucket_avail.
AdjustBucketAvail(d) ==
    IF Len(d.table) >= Third THEN Spill(d)
    ELSE IF d.avail = <<>> THEN d
    ELSE PutBucket([d EXCEPT !.avail = Front(@)], Last(d.avail))

\* The extent goes to the header's table when it is large, when gdbm_setopt has
\* asked for it, or when the bucket's table is full.
GoesToHeader(d, num_bytes) ==
    \/ num_bytes >= BlockSize
    \/ d.central_free
    \/ Len(d.table) >= BucketAvail

\* The second half of _gdbm_free: the extent is put in the table chosen for it.
FreeInto(desc, e, to_header) ==
    With(desc, LAMBDA d :
      With(IF to_header
           THEN [PutHeader(d, e, d.coalesce_blocks) EXCEPT !.header_changed = TRUE]
           ELSE PutBucket(d, e),
           LAMBDA r : IF r.header_changed THEN AdjustBucketAvail(r) ELSE r))

\* _gdbm_free as push_avail_block calls it: by then half of the entries have left
\* the header table, so that it has room (FileAllocProofs, HalfLeavesRoom) and
\* _gdbm_free does not call push_avail_block again.
FreeWithRoom(desc, e) ==
    With(desc, LAMBDA d :
      IF e.size <= IgnoreSize THEN d ELSE FreeInto(d, e, GoesToHeader(d, e.size)))

Even(t) == [i \in 1 .. (Len(t) + 1) \div 2 |-> t[2 * i - 1]]
Odd(t) == [i \in 1 .. Len(t) \div 2 |-> t[2 * i]]

AvailBlock(a, t, n) == [adr |-> a, table |-> t, bytes |-> n]

\* The table kept, and the rest pushed in a block of n bytes at loc: the space
\* left over there is freed, then the block is written.
PushAt(loc, kept, moved, n) ==
    With(FreeWithRoom([loc.d EXCEPT !.avail = kept],
                      Extent(loc.elem.adr + n, loc.elem.size - n)),
         LAMBDA d : [d EXCEPT !.stack = <<AvailBlock(loc.elem.adr, moved, n)>> \o @])

\* Mutant of PushAvailBlock: all entries but one move.
PushAvailBlockMost(d) ==
    With(FromHeader(d, AvailBlockBytes(d)), LAMBDA loc :
      PushAt(loc, <<loc.d.avail[1]>>, Tail(loc.d.avail), AvailBlockBytes(d)))

\* push_avail_block: the entries with an odd index (from 0) go to a new block on
\* the stack.
PushAvailBlock(d) ==
    With(FromHeader(d, AvailBlockBytes(d)), LAMBDA loc :
      PushAt(loc, Even(loc.d.avail), Odd(loc.d.avail), AvailBlockBytes(d)))

PushIfFull(desc) == With(desc, LAMBDA d : IF Full(d) THEN PushAvailBlock(d) ELSE d)

\* _gdbm_free.
Free(desc, e) ==
    With(desc, LAMBDA d :
      IF e.size <= IgnoreSize THEN d
      ELSE IF GoesToHeader(d, e.size) THEN FreeInto(PushIfFull(d), e, TRUE)
      ELSE FreeInto(d, e, FALSE))

\* Several extents are freed, one after the other.
FreeAll(d, es) ==
    LET Acc[i \in 0 .. Len(es)] ==
          IF i = 0 THEN d ELSE With(Acc[i - 1], LAMBDA s : Free(s, es[i]))
    IN Acc[Len(es)]

\* The entries of a popped block go to the header table, which is split again
\* when one of them fills it.
LoadAll(d, t) ==
    LET Acc[i \in 0 .. Len(t)] ==
          IF i = 0 THEN d ELSE With(Acc[i - 1], LAMBDA s : PushIfFull(PutHeader(s, t[i], TRUE)))
    IN Acc[Len(t)]

\* pop_avail_block: the entries of the top block go to the header table, then
\* the block itself is freed.  The blocks pushed meanwhile are all there is on
\* the stack while the entries are loaded: they are linked above the popped
\* block, and the link to them is overwritten by the one the popped block had.
PopAvailBlock(desc) ==
    With(PushIfFull(desc), LAMBDA d0 :
      With(LoadAll([d0 EXCEPT !.stack = <<>>], Head(d0.stack).table), LAMBDA loaded :
        With(PushIfFull([loaded EXCEPT !.stack = Tail(d0.stack),
                                       !.orphans = @ \cup ToSet(loaded.stack),
                                       !.header_changed = TRUE]),
             LAMBDA d : PutHeader(d, Extent(Head(d0.stack).adr, AvailBlockBytes(d0)), TRUE))))

\* The extent _gdbm_alloc takes the space from: the current bucket's table, then
\* the header's, which is filled up from the stack when it is half empty, then
\* the end of the file.
Source(d, num_bytes) ==
    With(GetElem(num_bytes, d.table), LAMBDA b :
      IF b.elem # NoExtent
      THEN [d |-> [d EXCEPT !.table = b.table], elem |-> b.elem]
      ELSE With(IF Len(d.avail) <= d.size \div 2 /\ d.stack # <<>>
                THEN PopAvailBlock(d) ELSE d,
                LAMBDA p : FromHeader([p EXCEPT !.header_changed = TRUE], num_bytes)))

\* Mutant of Alloc: what is left of the extent starts one byte too early.
AllocOverlaps(desc, num_bytes) ==
    With(desc, LAMBDA d :
      With(Source(d, num_bytes), LAMBDA g :
        [d |-> Free(g.d, Extent(g.elem.adr + num_bytes - 1, g.elem.size - num_bytes)),
         adr |-> g.elem.adr]))

\* _gdbm_alloc: what is not needed of the extent is freed again.
Alloc(desc, num_bytes) ==
    With(desc, LAMBDA d :
      With(Source(d, num_bytes), LAMBDA g :
        [d |-> Free(g.d, Extent(g.elem.adr + num_bytes, g.elem.size - num_bytes)),
         adr |-> g.elem.adr]))

-----------------------------------------------------------------------------
(* The calls. *)

Elements(b) == {x \in area : x.bucket = b}
BucketFull(b) == Cardinality(Elements(b)) = BucketElems
Area(e, b) == [adr |-> e.adr, size |-> e.size, bucket |-> b]

\* _gdbm_get_bucket has made b the current bucket.
InBucket(b) == [db EXCEPT !.table = bucket[b].avail]

\* _gdbm_end_update has written what changed.
EndUpdate(d) == [d EXCEPT !.header_changed = FALSE]

\* b is the current bucket, and what d says of its avail table is in the bucket.
Current(b, d) ==
    /\ cur' = b
    /\ bucket' = [bucket EXCEPT ![b].avail = d.table]

\* A new file: header, directory, one bucket and a block for its elements.
NewFile(size) ==
    [avail |-> <<>>, size |-> size, stack |-> <<>>, orphans |-> {},
     next_block |-> 4 * BlockSize, header_changed |-> FALSE,
     table |-> <<Extent(3 * BlockSize, BlockSize)>>,
     coalesce_blocks |-> FALSE, central_free |-> FALSE]

\* A key is stored and deleted again, with more content each time, which leaves
\* extents of many sizes behind.
StoreDelete(d, n) ==
    With(Alloc(d, n), LAMBDA r : EndUpdate(Free(EndUpdate(r.d), Extent(r.adr, n))))
Aged(d, n) ==
    LET Acc[i \in 0 .. n] ==
          IF i = 0 THEN d ELSE With(Acc[i - 1], LAMBDA s : StoreDelete(s, i))
    IN Acc[n]

Init ==
    /\ \E size \in InitSizes, age \in Ages : db = Aged(NewFile(size), age)
    /\ dir = [adr |-> BlockSize, size |-> BlockSize, bits |-> InitDirBits]
    /\ cur = 2 * BlockSize
    /\ bucket = [b \in {cur} |-> [avail |-> db.table, bits |-> 0]]
    /\ area = {}
    /\ pc = "idle"
    /\ olds = <<>>
    /\ fresh = NoExtent
    /\ calls = 0

Call ==
    /\ pc = "idle"
    /\ calls < MaxCalls
    /\ calls' = calls + 1

\* gdbm_store of a new key that belongs to bucket b: the area is allocated
\* before the bucket is split.
StoreNew(b, n) ==
    /\ Call
    /\ \E r \in {Alloc(InBucket(b), n)} :
         /\ Current(b, r.d)
         /\ IF BucketFull(b)
            THEN /\ db' = r.d
                 /\ fresh' = Extent(r.adr, n)
                 /\ pc' = "split"
                 /\ UNCHANGED area
            ELSE /\ db' = EndUpdate(r.d)
                 /\ area' = area \cup {Area(Extent(r.adr, n), b)}
                 /\ UNCHANGED <<pc, fresh>>
    /\ UNCHANGED <<dir, olds>>

\* gdbm_store that replaces an element by one of another size.
StoreReplace(x, n) ==
    /\ Call
    /\ n # x.size
    /\ \E r \in {Alloc(Free(InBucket(x.bucket), Extent(x.adr, x.size)), n)} :
         /\ Current(x.bucket, r.d)
         /\ db' = EndUpdate(r.d)
         /\ area' = (area \ {x}) \cup {Area(Extent(r.adr, n), x.bucket)}
    /\ UNCHANGED <<dir, pc, olds, fresh>>

Delete(x) ==
    /\ Call
    /\ \E d \in {Free(InBucket(x.bucket), Extent(x.adr, x.size))} :
         /\ Current(x.bucket, d)
         /\ db' = EndUpdate(d)
    /\ area' = area \ {x}
    /\ UNCHANGED <<dir, pc, olds, fresh>>

\* The part of _gdbm_split_bucket that allocates the two buckets.
TwoBuckets ==
    With(Alloc(db, BlockSize), LAMBDA a0 :
      With(Alloc(a0.d, BlockSize), LAMBDA a1 :
        [d |-> a1.d, adr_0 |-> a0.adr, adr_1 |-> a1.adr]))

MustDouble == dir.bits = bucket[cur].bits

\* The new directory; header->dir_bits becomes new_bits.
DoubleDir(d) ==
    With(Alloc(d, 2 * dir.size), LAMBDA r :
      [d |-> [r.d EXCEPT !.header_changed = TRUE],
       dir |-> [adr |-> r.adr, size |-> 2 * dir.size, bits |-> bucket[cur].bits + 1]])

\* Mutant of SplitTables: a full table is copied as it is.
SplitTablesFull(d, blk) == [t0 |-> d.table, t1 |-> <<blk>>]

\* The avail tables of the two buckets: the old one, short of its first entry
\* when it is full, and a fresh block.
SplitTables(d, blk) ==
    IF Len(d.table) = BucketAvail
    THEN [t0 |-> Tail(d.table), t1 |-> PutAvElem(d.table[1], <<blk>>, d.coalesce_blocks)]
    ELSE [t0 |-> d.table, t1 |-> <<blk>>]

\* Mutant of AddOld: the space of the old bucket is forgotten.
AddOldNot(t) == t

\* The avail table of the bucket that does not become the current one gets the
\* space of the old bucket.
AddOld(t) == PutAvElem(Extent(cur, BlockSize), t, db.coalesce_blocks)

\* One iteration of _gdbm_split_bucket: the elements in moved go to the second
\* new bucket; the key to be stored belongs to the second one, or to the first.
Split(moved, one) ==
    \E n \in {TwoBuckets} :
    \E new \in {IF MustDouble THEN DoubleDir(n.d) ELSE [d |-> n.d, dir |-> dir]} :
    \E blk \in {Alloc(new.d, BlockSize)} :
    \E tabs \in {SplitTables(blk.d, Extent(blk.adr, BlockSize))} :
    \E t0 \in {IF one THEN AddOld(tabs.t0) ELSE tabs.t0},
       t1 \in {IF one THEN tabs.t1 ELSE AddOld(tabs.t1)} :
        /\ bucket' = [b \in (DOMAIN bucket \ {cur}) \cup {n.adr_0, n.adr_1} |->
                        IF b \in {n.adr_0, n.adr_1}
                        THEN [avail |-> IF b = n.adr_0 THEN t0 ELSE t1,
                              bits |-> bucket[cur].bits + 1]
                        ELSE bucket[b]]
        /\ cur' = IF one THEN n.adr_1 ELSE n.adr_0
        /\ db' = [blk.d EXCEPT !.table = IF one THEN t1 ELSE t0]
        /\ dir' = new.dir
        /\ area' = {Area(x, IF x \in moved THEN n.adr_1
                            ELSE IF x.bucket = cur THEN n.adr_0 ELSE x.bucket) : x \in area}
        /\ olds' = IF MustDouble THEN Append(olds, Extent(dir.adr, dir.size)) ELSE olds

SplitIter ==
    /\ pc = "split"
    /\ BucketFull(cur)
    /\ ~(MustDouble /\ dir.size >= MaxDirHalf)
    /\ \E moved \in SUBSET Elements(cur), one \in BOOLEAN : Split(moved, one)
    /\ UNCHANGED <<pc, fresh, calls>>

\* GDBM_DIR_OVERFLOW, a fatal error met after the buckets are allocated.
DirOverflow ==
    /\ pc = "split"
    /\ BucketFull(cur)
    /\ MustDouble /\ dir.size >= MaxDirHalf
    /\ \E n \in {TwoBuckets} : Current(cur, n.d) /\ db' = n.d
    /\ pc' = "need recovery"
    /\ UNCHANGED <<dir, area, olds, fresh, calls>>

\* The loop is over: the old directories are freed, the element is stored.
SplitEnd ==
    /\ pc = "split"
    /\ ~BucketFull(cur)
    /\ \E d \in {FreeAll(db, olds)} : Current(cur, d) /\ db' = EndUpdate(d)
    /\ area' = area \cup {Area(fresh, cur)}
    /\ pc' = "idle"
    /\ olds' = <<>>
    /\ fresh' = NoExtent
    /\ UNCHANGED <<dir, calls>>

\* _gdbm_convert_to_numsync: the header table gets shorter, and the entries
\* that no longer fit are freed.
ConvertToNumsync(b) ==
    /\ Call
    /\ db.size = StdSize
    /\ \E keep \in {IF Len(db.avail) <= ExtSize THEN Len(db.avail) ELSE ExtSize} :
       \E d \in {FreeAll([InBucket(b) EXCEPT !.size = ExtSize, !.avail = SubSeq(@, 1, keep)],
                         Reverse(SubSeq(db.avail, keep + 1, Len(db.avail))))} :
         /\ Current(b, d)
         /\ db' = EndUpdate(d)
    /\ UNCHANGED <<dir, area, pc, olds, fresh>>

\* _gdbm_convert_from_numsync: the header table gets longer.
ConvertFromNumsync ==
    /\ Call
    /\ db.size = ExtSize
    /\ FromWithStack \/ db.stack = <<>>
    /\ db' = [db EXCEPT !.size = StdSize]
    /\ UNCHANGED <<dir, bucket, cur, area, pc, olds, fresh>>

SetCentFree(n) ==
    /\ Call
    /\ db' = [db EXCEPT !.central_free = n]
    /\ UNCHANGED <<dir, bucket, cur, area, pc, olds, fresh>>

SetCoalesceBlks(n) ==
    /\ Call
    /\ db' = [db EXCEPT !.coalesce_blocks = n]
    /\ UNCHANGED <<dir, bucket, cur, area, pc, olds, fresh>>

\* GDBM_ASSERT_CONSISTENCY: every call is refused.
Refused ==
    /\ pc = "need recovery"
    /\ UNCHANGED vars

\* The bound is reached.
Enough ==
    /\ pc = "idle"
    /\ calls = MaxCalls
    /\ UNCHANGED vars

Next ==
    \/ \E b \in DOMAIN bucket, n \in AreaSizes : StoreNew(b, n)
    \/ \E x \in area, n \in AreaSizes : StoreReplace(x, n)
    \/ \E x \in area : Delete(x)
    \/ SplitIter \/ DirOverflow \/ SplitEnd
    \/ \E b \in DOMAIN bucket : ConvertToNumsync(b)
    \/ ConvertFromNumsync
    \/ \E n \in BOOLEAN : SetCentFree(n) \/ SetCoalesceBlks(n)
    \/ Refused \/ Enough

Spec == Init /\ [][Next]_vars
-----------------------------------------------------------------------------
(* Properties. *)

\* Everything that claims bytes of the file, each claim under a name of its own:
\* what the owner is, where it is, and which of its claims this is.
Claim(what, owner, i, e) ==
    [what |-> what, owner |-> owner, index |-> i, adr |-> e.adr, size |-> e.size]
TableClaims(what, owner, t) == {Claim(what, owner, i, t[i]) : i \in 1 .. Len(t)}

\* What is in use by something else than the allocator.
UsedClaims ==
    {Claim("header", 0, 0, Extent(0, BlockSize)), Claim("directory", 0, 0, dir)}
    \cup {Claim("bucket", b, 0, Extent(b, BlockSize)) : b \in DOMAIN bucket}
    \cup {Claim("area", 0, 0, x) : x \in area \cup ({fresh} \ {NoExtent})}
    \cup TableClaims("old directory", 0, olds)

Claims ==
    UsedClaims
    \cup TableClaims("avail", 0, db.avail)
    \cup (UNION {TableClaims("bucket avail", b, bucket[b].avail) : b \in DOMAIN bucket})
    \cup {Claim("stack", i, 0, Extent(db.stack[i].adr, db.stack[i].bytes)) :
             i \in 1 .. Len(db.stack)}
    \cup (UNION {TableClaims("stack avail", i, db.stack[i].table) : i \in 1 .. Len(db.stack)})

Bytes(e) == e.adr .. e.adr + e.size - 1
BytesOfAll(S) == UNION {Bytes(e) : e \in S}

IsTable(t, max) ==
    /\ Len(t) <= max
    /\ \A i \in 1 .. Len(t) : t[i].size > IgnoreSize /\ t[i].adr \in Nat

TypeOK ==
    /\ db.size \in {StdSize, ExtSize}
    /\ IsTable(db.avail, db.size)
    /\ \A b \in DOMAIN bucket : IsTable(bucket[b].avail, BucketAvail)
    /\ cur \in DOMAIN bucket /\ db.table = bucket[cur].avail
    /\ pc \in {"idle", "split", "need recovery"}
    /\ pc = "idle" => olds = <<>> /\ fresh = NoExtent /\ ~db.header_changed

\* No byte of the file has two owners: header, directory, buckets, key/data
\* areas, avail blocks and free extents are disjoint and end at next_block.  So
\* _gdbm_alloc never hands out bytes that something else still uses.
SpaceExclusive ==
    /\ \A c, e \in Claims : c # e => c.adr + c.size <= e.adr \/ e.adr + e.size <= c.adr
    /\ \A c \in Claims : c.adr + c.size <= db.next_block

Sorted(t) == \A i \in 1 .. Len(t) - 1 : t[i].size <= t[i + 1].size

\* Every avail table stays sorted by size, through coalescing, splitting a full
\* header table and loading it again; avail_lookup's binary search needs it.
TablesSorted ==
    /\ Sorted(db.avail)
    /\ \A b \in DOMAIN bucket : Sorted(bucket[b].avail)
    /\ \A k \in ToSet(db.stack) \cup db.orphans : Sorted(k.table)

\* gdbm_avail_table_valid_p; it also restores an order that TablesSorted says is
\* never lost.
AvailTableValid(d, t) ==
    \A e \in ToSet(t) : e.adr >= BlockSize /\ e.adr + e.size <= d.next_block

\* gdbm_avail_block_validate, for a table read from that many bytes.
AvailBlockValid(d, t, bytes) ==
    /\ bytes > AvailHead
    /\ Len(t) <= (bytes - AvailHead) \div ElemBytes + 1
    /\ AvailTableValid(d, t)

\* gdbm_bucket_avail_table_validate
BucketAvailValid(d, b) ==
    Len(bucket[b].avail) <= BucketAvail /\ AvailTableValid(d, bucket[b].avail)

\* gdbm_avail_traverse: the blocks of the stack, none of them met before, are
\* valid.  They are read with the size that follows from the header table of the
\* moment, which may not be the one they were written with.
AvailTraverse(d) ==
    \A i \in 1 .. Len(d.stack) :
        /\ d.stack[i].adr # 0
        /\ \A j \in 1 .. i - 1 : d.stack[j].adr # d.stack[i].adr
        /\ AvailBlockValid(d, d.stack[i].table, AvailBlockBytes(d))

\* gdbm_avail_verify finds nothing wrong at any moment, nor does the validation of a
\* bucket that is read: every table is within its bounds and within the file, every
\* block of the stack can be read by pop_avail_block, and the stack has no loop
\* (avail.c:48-103, 206-290).
StackReadable ==
    /\ AvailBlockValid(db, db.avail, db.size * ElemBytes + AvailHead)
    /\ AvailTraverse(db)
    /\ \A b \in DOMAIN bucket : BucketAvailValid(db, b)

Lost == (0 .. db.next_block - 1) \ BytesOfAll(Claims)

BlockOf(k) == Extent(k.adr, k.bytes)

\* The avail blocks that nothing links, and the space listed in them.
Orphaned == UNION {Bytes(BlockOf(k)) \cup BytesOfAll(ToSet(k.table)) : k \in db.orphans}

\* The ends of avail blocks that were pushed when the header table was longer.
Tails == UNION {k.adr + AvailBlockBytes(db) .. k.adr + k.bytes - 1 : k \in ToSet(db.stack)}

\* Space is lost, that is, neither used nor in any avail table, only by
\* pop_avail_block: with a block it pushes itself when the popped entries fill
\* the header table (falloc.c:248 overwrites the link to it), or at the end of a
\* block from before a conversion to the extended format.  No store,
\* replacement, deletion, split or conversion loses any otherwise (short of a
\* directory overflow).
LostOnlyByPop ==
    [][ pc' # "need recovery" => Lost' \subseteq Lost \cup Orphaned' \cup Tails ]_vars

\* The part of validate_header_std and validate_header_numsync that looks at the
\* extent of the directory, in a file of st_size bytes.
DirAccepted(st_size) ==
    /\ dir.adr > 0
    /\ dir.adr < st_size
    /\ dir.size > 0
    /\ dir.adr + dir.size < st_size

\* The header that _gdbm_end_update writes is one that gdbm_open accepts.  The
\* file then ends at next_block, _gdbm_file_extend sees to that.
OwnHeaderAccepted == pc = "idle" => DirAccepted(db.next_block)
=============================================================================
