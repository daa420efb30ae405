------------------------------- MODULE HashDir -------------------------------
(***************************************************************************)
(* Extendible hashing: the directory, the buckets it points to, splitting  *)
(* a full bucket and doubling the directory, and the walk of gdbm_firstkey *)
(* and gdbm_nextkey over the slots.                                        *)
(*                                                                         *)
(* A call is one step, except that _gdbm_split_bucket takes one step per   *)
(* iteration.  The probing loops inside a bucket are modelled by their     *)
(* results here and step by step in module HashBucket.                     *)
(***************************************************************************)
EXTENDS Integers, FiniteSets

CONSTANTS
    Key, Value,
    None,           \* an empty slot, or no key
    Hash,           \* Hash[k] is _gdbm_hash (k)
    HashBits,       \* GDBM_HASH_BITS
    BucketElems,    \* dbf->header->bucket_elems
    InitDirBits,    \* dir_bits of a new database
    MaxDirBits,     \* the directory cannot grow beyond 2^MaxDirBits entries
    Adr             \* file addresses, enough for the buckets of a full directory

Slot == 0 .. BucketElems - 1
Elem == [key : Key, data : Value]
Table == [Slot -> Elem \cup {None}]

ASSUME ConstAssumption ==
    /\ BucketElems \in Nat \ {0}
    /\ HashBits \in Nat
    /\ InitDirBits \in 0 .. MaxDirBits
    /\ MaxDirBits \in 0 .. HashBits
    /\ Hash \in [Key -> 0 .. 2^HashBits - 1]
    /\ None \notin Key \cup Value \cup Elem
    /\ \A S \in SUBSET Adr : Cardinality(S) <= 2^MaxDirBits + 1 => S # Adr

\* The law of exponents the shifts rely on.
ASSUME PowerAssumption == \A n \in 0 .. HashBits : 2^n \in Nat \ {0} /\ 2^(n + 1) = 2 * 2^n

VARIABLES
    dir_bits,    \* dbf->header->dir_bits
    dir,         \* dbf->dir
    bucket,      \* the bucket at each address in use
    bucket_dir,  \* dbf->bucket_dir while a call is served; every call sets it anew
    op,          \* the element a split makes room for, or None
    seen, at,    \* the keys the caller's walk has got so far, and the last one;
                 \* it is given up when an element is added or removed
    ret,         \* what the last call returned
    need_recovery

vars == <<dir_bits, dir, bucket, bucket_dir, op, seen, at, ret, need_recovery>>

-----------------------------------------------------------------------------
(* Inside a bucket. *)

EmptyTable == [s \in Slot |-> None]
Used(t) == {s \in Slot : t[s] # None}
Home(k) == Hash[k] % BucketElems

\* The slot m places after the home slot of k.
Probe(k, m) == (Home(k) + m) % BucketElems

\* Probing for k reaches slot s: it meets no empty slot on the way.
Reached(t, k, s) ==
    \A j \in 0 .. ((s - Home(k)) % BucketElems) - 1 : t[Probe(k, j)] # None

\* _gdbm_findkey: the slots that hold k and that probing reaches.
FindKey(t, k) == {s \in Used(t) : t[s].key = k /\ Reached(t, k, s)}

\* The first free slot probing meets.
FreeSlot(t, k) == CHOOSE s \in Slot \ Used(t) : Reached(t, k, s)

Put(t, e) == [t EXCEPT ![FreeSlot(t, e.key)] = e]

\* Mutant of MustMove: forgets that the scan may have wrapped round.
MustMoveNoWrap(l, e, home) == l < e /\ (home <= l \/ home > e)

\* gdbm_delete: the element in slot e, with this home slot, has to move to the
\* empty slot l.
MustMove(l, e, home) ==
    \/ l < e /\ (home <= l \/ home > e)
    \/ l > e /\ home <= l /\ home > e

\* The table after slot s is emptied and the elements behind it have closed the
\* gap; Gap[m] is the state of the loop of gdbm_delete after m iterations.
Remove(t, s) ==
    LET Gap[m \in 0 .. BucketElems] ==
          IF m = 0 THEN [table |-> [t EXCEPT ![s] = None], last |-> s, ended |-> FALSE]
          ELSE LET g == Gap[m - 1]
                   e == (s + m) % BucketElems
               IN IF g.ended \/ e = g.last \/ g.table[e] = None
                  THEN [g EXCEPT !.ended = TRUE]
                  ELSE IF MustMove(g.last, e, Home(g.table[e].key))
                       THEN [g EXCEPT !.table = [@ EXCEPT ![g.last] = g.table[e], ![e] = None],
                                      !.last = e]
                       ELSE g
    IN Gap[BucketElems].table

-----------------------------------------------------------------------------
(* The directory. *)

\* _gdbm_bucket_dir: the first bits of the hash value.
BucketDir(h, bits) == h \div 2^(HashBits - bits)

DirRange(bits) == 0 .. 2^bits - 1

\* _gdbm_hash_key and _gdbm_get_bucket: where key k belongs.
DirOf(k) == BucketDir(Hash[k], dir_bits)
TableOf(k) == bucket[dir[DirOf(k)]].h_table

Slots(k) == FindKey(TableOf(k), k)

\* _gdbm_alloc.  Nothing depends on an address but whether it is another one's,
\* so one choice stands for all (module FileAlloc has the real one).
NewAdr(taken) == CHOOSE a \in Adr : a \notin taken

SetTable(a, t) == bucket' = [bucket EXCEPT ![a].h_table = t]

Init ==
    /\ dir_bits = InitDirBits
    /\ dir = [i \in DirRange(InitDirBits) |-> NewAdr({})]
    /\ bucket = [a \in {NewAdr({})} |-> [bits |-> 0, h_table |-> EmptyTable]]
    /\ bucket_dir = 0
    /\ op = None
    /\ seen = {None}
    /\ at = None
    /\ ret = "none"
    /\ need_recovery = FALSE

\* GDBM_ASSERT_CONSISTENCY, and no call while another one is being served.
Callable == ~need_recovery /\ op = None

NoWalk ==
    /\ seen' = {None}
    /\ at' = None

Fetch(k) ==
    /\ Callable
    /\ ret' = IF Slots(k) = {} THEN "not_found"
              ELSE TableOf(k)[CHOOSE s \in Slots(k) : TRUE].data
    /\ UNCHANGED <<dir_bits, dir, bucket, bucket_dir, op, seen, at, need_recovery>>

\* gdbm_exists
Exists(k) ==
    /\ Callable
    /\ ret' = IF Slots(k) = {} THEN "no" ELSE "yes"
    /\ UNCHANGED <<dir_bits, dir, bucket, bucket_dir, op, seen, at, need_recovery>>

\* gdbm_store of a key that exists: no element changes its slot.
StoreExisting(k, v, replace) ==
    /\ Callable
    /\ Slots(k) # {}
    /\ IF replace
       THEN /\ SetTable(dir[DirOf(k)],
                        [TableOf(k) EXCEPT ![CHOOSE s \in Slots(k) : TRUE].data = v])
            /\ ret' = "stored"
       ELSE /\ ret' = "cannot_replace"
            /\ UNCHANGED bucket
    /\ UNCHANGED <<dir_bits, dir, bucket_dir, op, seen, at, need_recovery>>

BucketFull(a) == Used(bucket[a].h_table) = Slot

\* gdbm_store of a new key.
StoreNew(k, v) ==
    /\ Callable
    /\ Slots(k) = {}
    /\ IF BucketFull(dir[DirOf(k)])
       THEN /\ op' = [key |-> k, data |-> v]
            /\ bucket_dir' = DirOf(k)
            /\ UNCHANGED <<bucket, seen, at, ret>>
       ELSE /\ SetTable(dir[DirOf(k)], Put(TableOf(k), [key |-> k, data |-> v]))
            /\ NoWalk
            /\ ret' = "stored"
            /\ UNCHANGED <<op, bucket_dir>>
    /\ UNCHANGED <<dir_bits, dir, need_recovery>>

\* The elements of table t whose hash value has the given bit at position bits
\* go to a new table, in the order of their slots.
Redistribute(t, bits, bit) ==
    LET Goes(e) == (Hash[e.key] \div 2^(HashBits - bits)) % 2 = bit
        Sofar[i \in 0 .. BucketElems] ==
          IF i = 0 THEN EmptyTable
          ELSE IF Goes(t[i - 1]) THEN Put(Sofar[i - 1], t[i - 1]) ELSE Sofar[i - 1]
    IN Sofar[BucketElems]

\* The directory after it has been doubled, if the bucket's bits call for it.
Doubled(bits) ==
    IF dir_bits = bits THEN [i \in DirRange(bits + 1) |-> dir[i \div 2]] ELSE dir

\* Mutant of DirTooBig: off by one.
DirTooBigLate == dir_bits > MaxDirBits

\* The directory cannot be doubled: dir_size >= GDBM_MAX_DIR_HALF.
DirTooBig == dir_bits >= MaxDirBits

\* Mutant of SplitRange: leaves one entry of the first half behind.
SplitRangeShort(index, shift) ==
    LET start1 == 2 * (index \div 2^(shift + 1)) + 1
    IN [start0 |-> (start1 - 1) * 2^shift + 1, start1 |-> start1 * 2^shift,
        end |-> (start1 + 1) * 2^shift]

\* dir_start0, dir_start1 and dir_end: the entries that point to the bucket and
\* their middle; shift is dir_bits - new_bits.
SplitRange(index, shift) ==
    LET start1 == 2 * (index \div 2^(shift + 1)) + 1
    IN [start0 |-> (start1 - 1) * 2^shift, start1 |-> start1 * 2^shift,
        end |-> (start1 + 1) * 2^shift]

\* One iteration of the loop of _gdbm_split_bucket.
SplitIter ==
    /\ op # None
    /\ LET old == dir[bucket_dir]
           bits == bucket[old].bits
           table == bucket[old].h_table
           index == IF dir_bits = bits THEN 2 * bucket_dir ELSE bucket_dir
           new_dir_bits == IF dir_bits = bits THEN bits + 1 ELSE dir_bits
           range == SplitRange(index, new_dir_bits - bits - 1)
           adr_0 == NewAdr(DOMAIN bucket)
           adr_1 == NewAdr(DOMAIN bucket \cup {adr_0})
       IN /\ BucketFull(old)
          /\ ~(dir_bits = bits /\ DirTooBig)
          /\ bucket' = [a \in (DOMAIN bucket \ {old}) \cup {adr_0, adr_1} |->
               IF a \in {adr_0, adr_1}
               THEN [bits |-> bits + 1,
                     h_table |-> Redistribute(table, bits + 1, IF a = adr_0 THEN 0 ELSE 1)]
               ELSE bucket[a]]
          /\ dir' = [i \in DirRange(new_dir_bits) |->
               IF i \in range.start0 .. range.start1 - 1 THEN adr_0
               ELSE IF i \in range.start1 .. range.end - 1 THEN adr_1
               ELSE Doubled(bits)[i]]
          /\ dir_bits' = new_dir_bits
          /\ bucket_dir' = BucketDir(Hash[op.key], new_dir_bits)
    /\ UNCHANGED <<op, seen, at, ret, need_recovery>>

\* GDBM_DIR_OVERFLOW: fatal, and the database is not usable any more.
DirOverflow ==
    /\ op # None
    /\ BucketFull(dir[bucket_dir])
    /\ dir_bits = bucket[dir[bucket_dir]].bits /\ DirTooBig
    /\ need_recovery' = TRUE
    /\ op' = None
    /\ ret' = "directory_overflow"
    /\ bucket_dir' = 0
    /\ NoWalk
    /\ UNCHANGED <<dir_bits, dir, bucket>>

\* There is room in the current bucket: gdbm_store goes on.
StoreAfterSplit ==
    /\ op # None
    /\ ~BucketFull(dir[bucket_dir])
    /\ SetTable(dir[bucket_dir], Put(bucket[dir[bucket_dir]].h_table, op))
    /\ op' = None
    /\ bucket_dir' = 0
    /\ ret' = "stored"
    /\ NoWalk
    /\ UNCHANGED <<dir_bits, dir, need_recovery>>

Delete(k) ==
    /\ Callable
    /\ IF Slots(k) = {}
       THEN /\ ret' = "not_found"
            /\ UNCHANGED <<bucket, seen, at>>
       ELSE /\ SetTable(dir[DirOf(k)], Remove(TableOf(k), CHOOSE s \in Slots(k) : TRUE))
            /\ NoWalk
            /\ ret' = "deleted"
    /\ UNCHANGED <<dir_bits, dir, bucket_dir, op, need_recovery>>

-----------------------------------------------------------------------------
(* gdbm_firstkey and gdbm_nextkey. *)

Least(S) == CHOOSE x \in S : \A y \in S : x <= y

\* Mutant of NextDir: takes the next entry whatever it points to.
NextDirPlain(i) == i + 1

\* The first directory entry after i that points to another bucket.
NextDir(i) ==
    LET others == {j \in DirRange(dir_bits) : j > i /\ dir[j] # dir[i]}
    IN IF others = {} THEN 2^dir_bits ELSE Least(others)

\* get_next_key: the next taken slot, after slot s of the bucket of entry i.  Its
\* directory entry is 2^dir_bits when there is none.
NextPos(i, s) ==
    LET Later(j, after) == {x \in Used(bucket[dir[j]].h_table) : x > after}
        From[j \in 0 .. 2^dir_bits] ==
          IF j = 2^dir_bits THEN [index |-> j, slot |-> 0]
          ELSE IF Later(j, -1) # {} THEN [index |-> j, slot |-> Least(Later(j, -1))]
          ELSE From[NextDir(j)]
    IN IF Later(i, s) # {} THEN [index |-> i, slot |-> Least(Later(i, s))]
       ELSE From[NextDir(i)]

\* gdbm_count: what the buckets hold, each counted at its first entry.
Count ==
    LET From[j \in 0 .. 2^dir_bits] ==
          IF j = 2^dir_bits THEN 0
          ELSE Cardinality(Used(bucket[dir[j]].h_table)) + From[NextDir(j)]
    IN From[0]

\* gdbm_bucket_count
BucketCount ==
    LET From[j \in 0 .. 2^dir_bits] == IF j = 2^dir_bits THEN 0 ELSE 1 + From[NextDir(j)]
    IN From[0]

\* What get_next_key does with the position it finds.
Visit(pos, visited) ==
    \/ /\ pos.index = 2^dir_bits
       /\ NoWalk
       /\ ret' = "not_found"
    \/ /\ pos.index # 2^dir_bits
       /\ \E k \in {bucket[dir[pos.index]].h_table[pos.slot].key} :
            /\ seen' = visited \cup {k}
            /\ at' = k
            /\ ret' = k

FirstKey ==
    /\ Callable
    /\ Visit(NextPos(0, -1), {})
    /\ UNCHANGED <<dir_bits, dir, bucket, bucket_dir, op, need_recovery>>

NextKey ==
    /\ Callable
    /\ at # None
    /\ Visit(NextPos(DirOf(at), CHOOSE s \in Slots(at) : TRUE), seen)
    /\ UNCHANGED <<dir_bits, dir, bucket, bucket_dir, op, need_recovery>>

\* The database needs recovery: every call fails.
Refused ==
    /\ need_recovery
    /\ UNCHANGED vars

Next ==
    \/ \E k \in Key : Fetch(k) \/ Exists(k) \/ Delete(k)
    \/ \E k \in Key, v \in Value :
         StoreNew(k, v) \/ \E replace \in BOOLEAN : StoreExisting(k, v, replace)
    \/ SplitIter \/ DirOverflow \/ StoreAfterSplit
    \/ FirstKey \/ NextKey
    \/ Refused

Spec == Init /\ [][Next]_vars
-----------------------------------------------------------------------------
(* Properties. *)

TypeOK ==
    /\ dir_bits \in InitDirBits .. MaxDirBits
    /\ DOMAIN bucket \subseteq Adr
    /\ \A a \in DOMAIN bucket : bucket[a].bits \in 0 .. dir_bits /\ bucket[a].h_table \in Table
    /\ dir \in [DirRange(dir_bits) -> DOMAIN bucket]
    /\ bucket_dir \in DirRange(dir_bits)
    /\ op \in Elem \cup {None}

\* The entries that point to a bucket are exactly those that agree in its first
\* bucket_bits bits, and every bucket has some: _gdbm_split_bucket computes the
\* two halves of that range with shifts.
DirRegular ==
    /\ {dir[i] : i \in DirRange(dir_bits)} = DOMAIN bucket
    /\ \A i, j \in DirRange(dir_bits) :
         dir[i] = dir[j] <=>
            LET width == 2^(dir_bits - bucket[dir[i]].bits) IN i \div width = j \div width

\* Every element is in the bucket its hash value leads to and is found there by
\* probing, whatever splits, doublings and deletions came before; so no key has
\* two elements.  And gdbm_count and gdbm_bucket_count, which pass over directory
\* entries that share a bucket, count every key and every bucket once.
EveryKeyFound ==
    /\ \A a \in DOMAIN bucket : \A s \in Used(bucket[a].h_table) :
         LET k == bucket[a].h_table[s].key
         IN dir[DirOf(k)] = a /\ Slots(k) = {s}
    /\ Count = Cardinality({k \in Key : Slots(k) # {}})
    /\ BucketCount = Cardinality(DOMAIN bucket)

\* The content of every key, as a caller would find it.
Contents ==
    [k \in Key |-> IF Slots(k) = {} THEN None
                   ELSE TableOf(k)[CHOOSE s \in Slots(k) : TRUE].data]

Abstract == INSTANCE KVStore WITH kv <- Contents, usable <- ~need_recovery

\* What the caller sees is a KVStore: a split, with the directory rewritten from
\* one iteration to the next, changes nothing; and a walk of gdbm_firstkey and
\* gdbm_nextkey visits every key once (doc/gdbm.texi:914), fetches, refused
\* stores and replacements in the middle of it included.
IsKVStore == Abstract!Spec
=============================================================================
