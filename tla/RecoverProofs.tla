---------------------------- MODULE RecoverProofs ----------------------------
(***************************************************************************)
(* The safety properties of Recover, for every directory, every database   *)
(* that may be found, every set of limits and every number of calls: what  *)
(* can be read is carried over, limits are kept, one copy is always there. *)
(***************************************************************************)
EXTENDS Recover, WellFoundedInduction, TLAPS

Running == pc \in {"bucket", "elem", "finish", "backup", "rename", "swap"}
Copying == pc \in {"bucket", "elem"}
Counters == [recovered_keys : Nat, recovered_buckets : Nat, failed_keys : Nat,
             failed_buckets : Nat, duplicate_keys : Nat]

Types ==
    /\ disk \in [Bucket -> Content \cup {Bad}]
    /\ cache \in [Bucket -> Content \cup {None}]
    /\ changed \subseteq Bucket
    /\ \A b \in changed : cache[b] # None
    /\ at \in 0 .. Len(Dir)
    /\ req \in Request
    /\ rcvr \in Counters
    /\ new \in [mem : SUBSET Key, disk : SUBSET Key, failed : BOOLEAN]

\* The elements of this set that can be read are in the new file or were missed.
Taken(elems) == \A e \in elems : e.st # "unreadable" => e.key \in new.mem \cup missed
BucketTaken(b) == Readable(b) => Taken(View(b))

\* The walk over the directory: the buckets of all entries before the current one,
\* which share theirs with some of those, are done.
Walk ==
    /\ Copying => \A j \in 1 .. at : BucketTaken(Dir[j])
    /\ pc = "elem" => /\ at < Len(Dir)
                      /\ Readable(Dir[at + 1])
                      /\ todo \subseteq View(Dir[at + 1])
                      /\ Taken(View(Dir[at + 1]) \ todo)
    /\ Running /\ ~Copying => was \ missed \subseteq new.mem

\* The source of the copy does not change under it.
Source == Running => was = Recoverable /\ new.mem \subseteq was

\* Every comparison with a limit so far came out unequal.
Limits ==
    Running => /\ Below(rcvr.failed_keys, req.max_keys)
               /\ Below(rcvr.failed_buckets, req.max_buckets)
               /\ Below(rcvr.failed_keys + rcvr.failed_buckets, req.max_failures)

\* The name leads to the new file only until dbf takes that over, and to no file
\* only while the old one has a backup name.
Names ==
    /\ names = [db |-> names.db, backups |-> names.backups, kept |-> names.kept]
    /\ names.db \in {"old", "none", "new"}
    /\ names.db = "none" => names.kept
    /\ names.db = "new" => pc = "swap"

\* Unless a write failed, all of the new file that is in memory is on disk.
Written == Running => new.failed \/ new.disk = new.mem

IInv == Types /\ Walk /\ Source /\ Limits /\ Names /\ Written

-----------------------------------------------------------------------------
(* The operators of the model. *)

\* A set of natural numbers has a least element.
LEMMA Least ==
    ASSUME NEW S, S \subseteq Nat, S # {}
    PROVE  \E x \in S : \A y \in S : x <= y
<1>1. PICK x \in S : \A y \in S : ~(<<y, x>> \in OpToRel(<, Nat))
  BY NatLessThanWellFounded, WFMin
<1>2. \A y \in S : ~(y < x)
  BY <1>1 DEF OpToRel
<1>3. QED
  BY <1>2

\* _gdbm_next_bucket_dir passes over entries of the same bucket only.
LEMMA NextDirSkipsSame ==
    ASSUME NEW i \in Nat, i < Len(Dir)
    PROVE  /\ NextDir(i) \in i + 1 .. Len(Dir)
           /\ \A j \in i + 2 .. NextDir(i) : Dir[j] = Dir[i + 1]
<1> DEFINE later == {j \in i + 1 .. Len(Dir) - 1 : Dir[j + 1] # Dir[i + 1]}
<1>1. Len(Dir) \in Nat
  BY ConstAssumption
<1>2. CASE later = {}
  <2>1. NextDir(i) = Len(Dir)
    BY <1>2 DEF NextDir
  <2>2. ASSUME NEW j \in i + 2 .. Len(Dir) PROVE Dir[j] = Dir[i + 1]
    <3>1. j - 1 \in i + 1 .. Len(Dir) - 1 /\ (j - 1) + 1 = j
      BY <1>1, <2>2
    <3>2. ~(Dir[(j - 1) + 1] # Dir[i + 1])
      BY <1>2, <3>1
    <3>3. QED
      BY <3>1, <3>2
  <2>3. QED
    BY <1>1, <2>1, <2>2
<1>3. CASE later # {}
  <2>1. \E j \in later : \A l \in later : j <= l
    <3>1. later \subseteq Nat
      BY <1>1
    <3> HIDE DEF later
    <3>2. QED
      BY <1>3, <3>1, Least
  <2> DEFINE n == CHOOSE j \in later : \A l \in later : j <= l
  <2>2. n \in later /\ \A l \in later : n <= l
    BY <2>1
  <2>3. NextDir(i) = n
    BY <1>3 DEF NextDir
  <2> HIDE DEF n
  <2>4. n \in i + 1 .. Len(Dir) - 1
    BY <2>2
  <2>5. ASSUME NEW j \in i + 2 .. n PROVE Dir[j] = Dir[i + 1]
    <3>1. j - 1 \in i + 1 .. Len(Dir) - 1 /\ (j - 1) + 1 = j /\ ~(n <= j - 1)
      BY <1>1, <2>4, <2>5
    <3>2. QED
      BY <2>2, <3>1
  <2>6. QED
    BY <1>1, <2>3, <2>4, <2>5
<1>4. QED
  BY <1>2, <1>3

\* A bucket that can be read is a set of elements.
LEMMA ViewType ==
    ASSUME Types, NEW b \in Bucket
    PROVE  View(b) \in Content \cup {Bad} /\ (Readable(b) => View(b) \subseteq Elem)
BY DEF Types, View, Readable, Content

\* As long as neither the file nor the cache changes, the database looks the same.
LEMMA SameView ==
    ASSUME UNCHANGED <<disk, cache>>
    PROVE  /\ \A b : View(b)' = View(b)
           /\ \A b : Readable(b)' <=> Readable(b)
           /\ Recoverable' = Recoverable
<1>1. \A b : View(b)' = View(b)
  BY DEF View
<1>2. \A b : Readable(b)' <=> Readable(b)
  BY <1>1 DEF Readable
<1>3. Recoverable' = Recoverable
  BY DEF Recoverable, Readable, View
<1>4. QED
  BY <1>1, <1>2, <1>3

\* What is recoverable, bucket by bucket.
LEMMA RecoverableMeans ==
    \A k : k \in Recoverable <=>
        \E b \in Bucket : Readable(b) /\ \E e \in View(b) : e.st # "unreadable" /\ e.key = k
BY DEF Recoverable

\* After the last directory entry every key that can be read is in the new file.
LEMMA AllTaken ==
    ASSUME \A j \in 1 .. Len(Dir) : BucketTaken(Dir[j]), was = Recoverable
    PROVE  was \ missed \subseteq new.mem
<1> SUFFICES ASSUME NEW k \in was, k \notin missed PROVE k \in new.mem
  OBVIOUS
<1>1. PICK b \in Bucket : Readable(b) /\ \E e \in View(b) : e.st # "unreadable" /\ e.key = k
  BY RecoverableMeans
<1>2. PICK j \in 1 .. Len(Dir) : Dir[j] = b
  BY ConstAssumption
<1>3. QED
  BY <1>1, <1>2 DEF BucketTaken, Taken

-----------------------------------------------------------------------------
(* Types. *)

\* The keys of a set of elements.
LEMMA ElemFacts ==
    /\ \A e \in Elem : e.key \in Key /\ e.st \in {"good", "unreadable", "altered"}
    /\ \A k \in Key : [key |-> k, st |-> "good"] \in Elem
    /\ \A k \in Key : [key |-> k, st |-> "unreadable"] \in Elem
    /\ \A k \in Key : [key |-> k, st |-> "altered"] \in Elem
BY DEF Elem

\* Before the first call.
LEMMA InitInv == Init => IInv
<1> SUFFICES ASSUME Init PROVE IInv
  OBVIOUS
<1>1. disk \in [Bucket -> Content \cup {Bad}] /\ cache \in [Bucket -> Content \cup {None}]
  BY ConstAssumption DEF Init
<1>2. at \in 0 .. Len(Dir) /\ req \in Request /\ rcvr \in Counters
      /\ new \in [mem : SUBSET Key, disk : SUBSET Key, failed : BOOLEAN]
  <2>1. Len(Dir) \in Nat
    BY ConstAssumption
  <2>2. QED
    BY <2>1 DEF Init, NoRequest, Request, Zero, Counters, NoNew
<1>3. Types
  BY <1>1, <1>2 DEF Init, Types
<1>4. Names
  BY DEF Init, Names
<1>5. QED
  BY <1>3, <1>4 DEF Init, IInv, Walk, Source, Limits, Written, Running, Copying

\* What _gdbm_cache_flush leaves in the file and in the list of changed buckets.
LEMMA FlushType ==
    ASSUME Types, NEW mem \in [Bucket -> Content \cup {None}], NEW dirty \in SUBSET Bucket,
           \A b \in dirty : mem[b] # None,
           NEW fl \in Flushes(mem, dirty)
    PROVE  fl.disk \in [Bucket -> Content \cup {Bad}] /\ fl.left \subseteq dirty
<1>1. PICK x \in [written : SUBSET dirty, torn : SUBSET dirty] :
          fl = [disk |-> [b \in Bucket |-> CASE b \in x.written -> mem[b] [] b \in x.torn -> Bad
                                             [] OTHER -> disk[b]],
                left |-> dirty \ x.written]
  BY DEF Flushes
<1>2. \A b \in x.written : mem[b] \in Content
  OBVIOUS
<1>3. \A b \in Bucket : disk[b] \in Content \cup {Bad}
  BY DEF Types
<1>4. QED
  BY <1>1, <1>2, <1>3

\* An update that ends, whatever fails in it, keeps the types.
LEMMA EndUpdateType ==
    ASSUME Types, NEW mem \in [Bucket -> Content \cup {None}], NEW dirty \in SUBSET Bucket,
           \A b \in dirty : mem[b] # None,
           NEW more, EndUpdate(mem, dirty, more), UNCHANGED recovery
    PROVE  Types'
<1>1. PICK fl \in Flushes(mem, dirty) : disk' = fl.disk /\ cache' = mem /\ changed' = fl.left
  BY DEF EndUpdate
<1>2. fl.disk \in [Bucket -> Content \cup {Bad}] /\ fl.left \subseteq dirty
  BY FlushType
<1>3. QED
  BY <1>1, <1>2 DEF Types, recovery

\* A bucket in memory that gets a new content.
LEMMA CacheType ==
    ASSUME Types, NEW b \in Bucket, NEW c \in Content
    PROVE  /\ [cache EXCEPT ![b] = c] \in [Bucket -> Content \cup {None}]
           /\ \A d \in changed \cup {b} : [cache EXCEPT ![b] = c][d] # None
BY ConstAssumption DEF Types

\* Outside of a recovery only the types and the names matter.
LEMMA IdleInv ==
    ASSUME Names, Types', pc' \in {"idle", "closed"}, pc # "swap", UNCHANGED names
    PROVE  IInv'
BY DEF Names, IInv, Walk, Source, Limits, Written, Running, Copying

\* Every call but gdbm_recover keeps the types.
LEMMA CallStep ==
    ASSUME IInv,
           \/ \E k \in Stored : Store(k) \/ Delete(k)
           \/ \E b \in Bucket : FetchBad(b)
           \/ Sync
           \/ \E v \in BOOLEAN : SetSyncMode(v)
           \/ Close
    PROVE  IInv'
<1>t. Types /\ Names
  BY DEF IInv
<1>f. ASSUME NEW flag, Fails(flag), Enter PROVE Types'
  BY <1>t, <1>f DEF Fails, Enter, recovery, Types
<1>h. \A k \in Stored : k \in Key /\ Home[k] \in Bucket
  BY ConstAssumption
<1>e. Enter => pc' \in {"idle", "closed"} /\ pc # "swap" /\ UNCHANGED names
  BY DEF Enter, Call, recovery
<1>1. ASSUME NEW k \in Stored, Store(k) PROVE IInv'
  <2>1. Enter /\ Home[k] \in Bucket /\ k \in Key
    BY <1>1, <1>h DEF Store
  <2>2. CASE \E flag : Fails(flag)
    BY <1>t, <1>f, <1>e, <2>1, <2>2, IdleInv
  <2>3. CASE Readable(Home[k]) /\ NoData(Home[k], k)
    <3>1. PICK e \in Elem : cache' = [cache EXCEPT ![Home[k]] = View(Home[k]) \cup {e}]
      BY <2>1, <2>3, ElemFacts DEF NoData
    <3>2. View(Home[k]) \cup {e} \in Content
      BY <1>t, <2>1, <2>3, ViewType DEF Content
    <3>3. UNCHANGED <<disk, changed>> /\ UNCHANGED recovery
      BY <2>1, <2>3 DEF NoData, Enter
    <3>4. Types'
      BY <1>t, <2>1, <3>1, <3>2, <3>3, CacheType DEF Types, recovery
    <3>5. QED
      BY <1>t, <1>e, <2>1, <3>4, IdleInv
  <2>4. CASE /\ Readable(Home[k])
             /\ EndUpdate([cache EXCEPT ![Home[k]] = View(Home[k]) \cup {[key |-> k, st |-> "good"]}],
                          changed \cup {Home[k]}, NoMore)
    <3> DEFINE c == View(Home[k]) \cup {[key |-> k, st |-> "good"]}
               mem == [cache EXCEPT ![Home[k]] = c]
    <3>1. c \in Content
      BY <1>t, <2>1, <2>4, ViewType, ElemFacts DEF Content
    <3>2. /\ mem \in [Bucket -> Content \cup {None}]
          /\ \A d \in changed \cup {Home[k]} : mem[d] # None
      BY <1>t, <2>1, <3>1, CacheType
    <3>3. EndUpdate(mem, changed \cup {Home[k]}, NoMore)
      BY <2>4
    <3>4. changed \cup {Home[k]} \in SUBSET Bucket /\ UNCHANGED recovery
      BY <1>t, <2>1 DEF Types, Enter
    <3> HIDE DEF mem
    <3>5. Types'
      BY <1>t, <3>2, <3>3, <3>4, EndUpdateType
    <3>6. QED
      BY <1>t, <1>e, <2>1, <3>5, IdleInv
  <2>5. QED
    BY <1>1, <2>2, <2>3, <2>4 DEF Store, Refused
<1>2. ASSUME NEW k \in Stored, Delete(k) PROVE IInv'
  <2>1. Enter /\ Home[k] \in Bucket
    BY <1>2, <1>h DEF Delete
  <2>2. CASE \E flag : Fails(flag)
    BY <1>t, <1>f, <1>e, <2>1, <2>2, IdleInv
  <2>3. ASSUME ~(\E flag : Fails(flag)) PROVE IInv'
    <3>1. Readable(Home[k])
      BY <1>2, <2>3 DEF Delete, Refused
    <3>2. PICK e \in View(Home[k]) :
              LET mem == [cache EXCEPT ![Home[k]] = View(Home[k]) \ {e}]
              IN \/ EndUpdate(mem, changed \cup {Home[k]}, NoMore)
                 \/ cache' = mem /\ UNCHANGED <<disk, changed>>
      BY <1>2, <2>3 DEF Delete, Refused
    <3> DEFINE c == View(Home[k]) \ {e}
               mem == [cache EXCEPT ![Home[k]] = c]
    <3>3. c \in Content
      BY <1>t, <2>1, <3>1, ViewType DEF Content
    <3>4. /\ mem \in [Bucket -> Content \cup {None}]
          /\ \A d \in changed \cup {Home[k]} : mem[d] # None
      BY <1>t, <2>1, <3>3, CacheType
    <3>5. changed \cup {Home[k]} \in SUBSET Bucket /\ UNCHANGED recovery
      BY <1>t, <2>1 DEF Types, Enter
    <3>6. \/ EndUpdate(mem, changed \cup {Home[k]}, NoMore)
          \/ cache' = mem /\ UNCHANGED <<disk, changed>>
      BY <3>2
    <3> HIDE DEF mem
    <3>7. CASE EndUpdate(mem, changed \cup {Home[k]}, NoMore)
      BY <1>t, <1>e, <2>1, <3>4, <3>5, <3>7, EndUpdateType, IdleInv
    <3>8. CASE cache' = mem /\ UNCHANGED <<disk, changed>>
      <4>1. Types'
        BY <1>t, <3>4, <3>5, <3>8 DEF Types, recovery
      <4>2. QED
        BY <1>t, <1>e, <2>1, <4>1, IdleInv
    <3>9. QED
      BY <3>6, <3>7, <3>8
  <2>4. QED
    BY <2>2, <2>3
<1>3. ASSUME NEW b \in Bucket, FetchBad(b) PROVE IInv'
  BY <1>t, <1>f, <1>e, <1>3, IdleInv DEF FetchBad
<1>4. CASE Sync
  <2>1. CASE Refused
    BY <1>t, <1>f, <1>e, <1>4, <2>1, IdleInv DEF Sync, Refused
  <2>2. CASE EndUpdate(cache, changed, SyncMore)
    <3>1. Enter /\ UNCHANGED recovery
      BY <1>4 DEF Sync, Enter
    <3>2. /\ cache \in [Bucket -> Content \cup {None}]
          /\ changed \in SUBSET Bucket
          /\ \A b \in changed : cache[b] # None
      BY <1>t DEF Types
    <3>3. Types'
      BY <1>t, <2>2, <3>1, <3>2, EndUpdateType
    <3>4. QED
      BY <1>t, <1>e, <3>1, <3>3, IdleInv
  <2>3. QED
    BY <1>4, <2>1, <2>2 DEF Sync
<1>5. ASSUME NEW v \in BOOLEAN, SetSyncMode(v) PROVE IInv'
  <2>1. Types'
    BY <1>t, <1>5 DEF SetSyncMode, recovery, Types
  <2>2. QED
    BY <1>t, <1>5, <2>1, IdleInv DEF SetSyncMode, Call, recovery
<1>6. CASE Close
  <2>1. Types'
    BY <1>t, <1>6 DEF Close, recovery, Types
  <2>2. QED
    BY <1>t, <1>6, <2>1, IdleInv DEF Close, Call, recovery
<1>7. QED
  BY <1>1, <1>2, <1>3, <1>4, <1>5, <1>6

-----------------------------------------------------------------------------
(* The steps of gdbm_recover. *)

\* What the counters start from is below every limit.
LEMMA ZeroBelow ==
    ASSUME NEW r \in Request
    PROVE  /\ Below(0, r.max_keys) /\ Below(0, r.max_buckets) /\ Below(0, r.max_failures)
           /\ Zero \in Counters /\ Zero.failed_keys = 0 /\ Zero.failed_buckets = 0
BY DEF Request, Below, Zero, Counters

\* A comparison for equality after one more failure is enough.
LEMMA OneMore ==
    ASSUME NEW n \in Nat, NEW limit \in Nat \cup {None}, Below(n, limit), n + 1 # limit
    PROVE  Below(n + 1, limit)
BY DEF Below

\* The copy stops: the file and the names are as they were.
LEMMA AbortInv ==
    ASSUME Types, Names, NEW flag, RecAbort(flag), rcvr' \in Counters, pc # "swap",
           UNCHANGED <<disk, cache, changed, at, req, names>>
    PROVE  IInv'
<1>1. Types'
  BY DEF Types, RecAbort, NoNew
<1>2. QED
  BY <1>1, IdleInv DEF RecAbort, RecReturn

\* gdbm_recover begins: nothing is copied and nothing has failed.
LEMMA BeginStep == ASSUME IInv, NEW r \in Requests, RecBegin(r) PROVE IInv'
<1>1. /\ req' = r /\ r \in Request
      /\ rcvr' = Zero /\ at' = 0 /\ todo' = {} /\ was' = Recoverable /\ new' = NoNew
      /\ UNCHANGED <<disk, cache, changed, names>>
      /\ pc = "idle" /\ pc' \in {"idle", "bucket"}
  BY ConstAssumption DEF RecBegin, RecReturn, Call
<1>2. Types'
  <2>1. Len(Dir) \in Nat
    BY ConstAssumption
  <2>2. QED
    BY <1>1, <2>1, ZeroBelow DEF IInv, Types, NoNew
<1>3. Source'
  BY <1>1, SameView DEF Source, NoNew
<1>4. Limits'
  BY <1>1, ZeroBelow DEF Limits
<1>5. Walk'
  BY <1>1 DEF Walk, Running, Copying
<1>6. Names'
  BY <1>1 DEF IInv, Names
<1>7. Written'
  BY <1>1 DEF Written, NoNew
<1>8. QED
  BY <1>2, <1>3, <1>4, <1>5, <1>6, <1>7 DEF IInv

\* A step of the copy that reads: what was taken stays taken.
LEMMA TakenStays ==
    ASSUME UNCHANGED <<disk, cache>>, new.mem \cup missed \subseteq new'.mem \cup missed'
    PROVE  /\ \A b : BucketTaken(b) => BucketTaken(b)'
           /\ \A s : Taken(s) => \A e \in s : e.st # "unreadable" => e.key \in new'.mem \cup missed'
BY SameView DEF BucketTaken, Taken

\* The walk goes from entry i to the next one when the bucket of i is done.
LEMMA WalkOn ==
    ASSUME NEW i \in Nat, i < Len(Dir), at' = NextDir(i),
           \A j \in 1 .. i : BucketTaken(Dir[j])', BucketTaken(Dir[i + 1])'
    PROVE  at' \in 0 .. Len(Dir) /\ \A j \in 1 .. at' : BucketTaken(Dir[j])'
<1>1. Len(Dir) \in Nat
  BY ConstAssumption
<1>2. /\ at' \in i + 1 .. Len(Dir)
      /\ \A j \in i + 2 .. at' : Dir[j] = Dir[i + 1]
  BY NextDirSkipsSame
<1>3. ASSUME NEW j \in 1 .. at' PROVE BucketTaken(Dir[j])'
  <2>1. j \in 1 .. i \/ j = i + 1 \/ j \in i + 2 .. at'
    BY <1>1, <1>2
  <2>2. CASE j \in 1 .. i
    BY <2>2
  <2>3. CASE Dir[j] = Dir[i + 1]
    BY <2>3 DEF BucketTaken, Readable, View, Taken
  <2>4. QED
    BY <1>2, <2>1, <2>2, <2>3
<1>4. QED
  BY <1>1, <1>2, <1>3

\* What the new file holds after its changed buckets were to be written.
LEMMA WritesMeans ==
    ASSUME NEW keys \in SUBSET Key, new \in [mem : SUBSET Key, disk : SUBSET Key, failed : BOOLEAN]
    PROVE  \A w \in NewWrites(keys) : /\ w.disk \in SUBSET Key
                                      /\ w.failed \in BOOLEAN
                                      /\ w.failed \/ w.disk = keys
<1> SUFFICES ASSUME NEW w \in NewWrites(keys)
             PROVE  w.disk \in SUBSET Key /\ w.failed \in BOOLEAN /\ (w.failed \/ w.disk = keys)
  OBVIOUS
<1>1. \/ w = [disk |-> keys, failed |-> FALSE, need |-> FALSE]
      \/ \E n \in BOOLEAN : w = [disk |-> new.disk, failed |-> TRUE, need |-> n]
  BY DEF NewWrites
<1>2. CASE w = [disk |-> keys, failed |-> FALSE, need |-> FALSE]
  <2>1. w.disk = keys /\ w.failed = FALSE
    BY <1>2
  <2>2. QED
    BY <2>1
<1>3. CASE \E n \in BOOLEAN : w = [disk |-> new.disk, failed |-> TRUE, need |-> n]
  <2>1. w.disk = new.disk /\ w.failed = TRUE
    BY <1>3
  <2>2. QED
    BY <2>1
<1>4. QED
  BY <1>1, <1>2, <1>3

\* A bucket is read or not: it becomes the one whose elements are copied, or all it
\* had is missed, or nothing of it could be read.
LEMMA BucketStep == ASSUME IInv, RecBucket PROVE IInv'
<1>1. /\ pc = "bucket" /\ at < Len(Dir) /\ Types /\ Walk /\ Source /\ Limits /\ Names
      /\ Written
      /\ UNCHANGED <<disk, cache, changed, req, names, was>>
  BY DEF RecBucket, IInv
<1>2. at \in Nat /\ Len(Dir) \in Nat /\ Dir[at + 1] \in Bucket
  <2>1. at \in Nat /\ Len(Dir) \in Nat /\ at + 1 \in 1 .. Len(Dir)
    BY <1>1, ConstAssumption DEF Types
  <2>2. QED
    BY <2>1, ConstAssumption
<1>3. \A j \in 1 .. at : BucketTaken(Dir[j])
  BY <1>1 DEF Walk, Copying
<1>r. /\ rcvr \in Counters /\ rcvr.failed_keys \in Nat /\ rcvr.failed_buckets \in Nat
      /\ req.max_keys \in Nat \cup {None} /\ req.max_buckets \in Nat \cup {None}
      /\ req.max_failures \in Nat \cup {None}
  BY <1>1 DEF Types, Counters, Request
<1>4. CASE pc' = "elem"
  <2>1. /\ Readable(Dir[at + 1]) /\ todo' = View(Dir[at + 1])
        /\ rcvr' = [rcvr EXCEPT !.recovered_buckets = @ + 1]
        /\ UNCHANGED <<at, new, missed>>
    BY <1>1, <1>4 DEF RecBucket, RecAbort, RecReturn
  <2>2. /\ rcvr' \in Counters /\ rcvr'.failed_keys = rcvr.failed_keys
        /\ rcvr'.failed_buckets = rcvr.failed_buckets
    BY <1>r, <2>1 DEF Counters
  <2>3. Types'
    BY <1>1, <2>1, <2>2 DEF Types
  <2>4. \A j \in 1 .. at : BucketTaken(Dir[j])'
    BY <1>1, <1>3, <2>1, TakenStays
  <2>5. Walk'
    BY <1>1, <1>4, <2>1, <2>4, SameView DEF Walk, Copying, Running, Taken
  <2>6. Source'
    BY <1>1, <2>1, SameView DEF Source, Running
  <2>7. Limits'
    BY <1>1, <2>2 DEF Limits, Running
  <2>8. Names' /\ Written'
    BY <1>1, <2>1 DEF Names, Written, Running
  <2>9. QED
    BY <2>3, <2>5, <2>6, <2>7, <2>8 DEF IInv
<1>5. CASE pc' # "elem"
  <2>1. /\ rcvr' = [rcvr EXCEPT !.failed_buckets = @ + 1]
        /\ missed' = missed \cup (IF Readable(Dir[at + 1])
                                  THEN {e.key : e \in View(Dir[at + 1])} ELSE {})
        /\ \/ UNCHANGED at /\ \E flag : RecAbort(flag)
           \/ /\ ~TooMany(rcvr', "bucket")
              /\ at' = NextDir(at)
              /\ UNCHANGED <<pc, new>>
    BY <1>5 DEF RecBucket
  <2>2. /\ rcvr' \in Counters /\ rcvr'.failed_keys = rcvr.failed_keys
        /\ rcvr'.failed_buckets = rcvr.failed_buckets + 1
    BY <1>r, <2>1 DEF Counters
  <2>3. CASE UNCHANGED at /\ \E flag : RecAbort(flag)
    BY <1>1, <2>2, <2>3, AbortInv
  <2>4. CASE ~TooMany(rcvr', "bucket") /\ at' = NextDir(at) /\ UNCHANGED <<pc, new>>
    <3>1. \A j \in 1 .. at : BucketTaken(Dir[j])'
      BY <1>1, <1>3, <2>1, <2>4, TakenStays
    <3>2. PICK i \in Nat : i = at
      BY <1>2
    <3>x. BucketTaken(Dir[i + 1])'
      <4>1. View(Dir[i + 1])' = View(Dir[i + 1]) /\ (Readable(Dir[i + 1])' <=> Readable(Dir[i + 1]))
        BY <1>1, SameView
      <4>2. CASE Readable(Dir[i + 1])
        BY <2>1, <3>2, <4>1, <4>2 DEF BucketTaken, Taken
      <4>3. CASE ~Readable(Dir[i + 1])
        BY <4>1, <4>3 DEF BucketTaken
      <4>4. QED
        BY <4>2, <4>3
    <3>3. at' \in 0 .. Len(Dir) /\ \A j \in 1 .. at' : BucketTaken(Dir[j])'
      BY <1>1, <2>4, <3>1, <3>2, <3>x, WalkOn
    <3>4. Types'
      BY <1>1, <2>2, <2>4, <3>3 DEF Types
    <3>5. Walk'
      BY <1>1, <2>4, <3>3 DEF Walk, Copying, Running
    <3>6. Source'
      BY <1>1, <2>4, SameView DEF Source, Running
    <3>7. Limits'
      <4>1. /\ rcvr.failed_buckets + 1 # req.max_buckets
            /\ rcvr.failed_keys + rcvr.failed_buckets + 1 # req.max_failures
        BY <1>r, <2>2, <2>4 DEF TooMany
      <4>2. /\ Below(rcvr.failed_keys, req.max_keys)
            /\ Below(rcvr.failed_buckets, req.max_buckets)
            /\ Below(rcvr.failed_keys + rcvr.failed_buckets, req.max_failures)
        BY <1>1 DEF Limits, Running
      <4>x. rcvr.failed_keys + rcvr.failed_buckets \in Nat
        BY <1>r
      <4>3. /\ Below(rcvr.failed_buckets + 1, req.max_buckets)
            /\ Below(rcvr.failed_keys + rcvr.failed_buckets + 1, req.max_failures)
        BY <1>r, <4>1, <4>2, <4>x, OneMore
      <4>4. rcvr'.failed_keys + rcvr'.failed_buckets = rcvr.failed_keys + rcvr.failed_buckets + 1
        BY <1>r, <2>2
      <4>5. QED
        BY <1>1, <2>2, <4>2, <4>3, <4>4 DEF Limits
    <3>8. Names' /\ Written'
      BY <1>1, <2>4 DEF Names, Written, Running
    <3>9. QED
      BY <3>4, <3>5, <3>6, <3>7, <3>8 DEF IInv
  <2>5. QED
    BY <2>1, <2>3, <2>4
<1>6. QED
  BY <1>4, <1>5

\* An element is stored in the new file or was there, or is missed, or cannot be read.
LEMMA ElemStep == ASSUME IInv, RecElem PROVE IInv'
<1>1. /\ pc = "elem" /\ Types /\ Walk /\ Source /\ Limits /\ Names /\ Written
      /\ UNCHANGED <<disk, cache, changed, req, at, names, was>>
  BY DEF RecElem, IInv
<1>2. /\ at \in Nat /\ Len(Dir) \in Nat /\ at < Len(Dir) /\ Dir[at + 1] \in Bucket
      /\ Readable(Dir[at + 1]) /\ todo \subseteq View(Dir[at + 1])
      /\ Taken(View(Dir[at + 1]) \ todo)
  <2>1. at \in Nat /\ Len(Dir) \in Nat /\ at < Len(Dir)
    BY <1>1, ConstAssumption DEF Types, Walk
  <2>2. at + 1 \in 1 .. Len(Dir)
    BY <2>1
  <2>3. QED
    BY <1>1, <2>1, <2>2, ConstAssumption DEF Walk
<1>3. \A j \in 1 .. at : BucketTaken(Dir[j])
  BY <1>1 DEF Walk, Copying
<1>r. /\ rcvr \in Counters /\ rcvr.failed_keys \in Nat /\ rcvr.failed_buckets \in Nat
      /\ req.max_keys \in Nat \cup {None} /\ req.max_buckets \in Nat \cup {None}
      /\ req.max_failures \in Nat \cup {None}
  BY <1>1 DEF Types, Counters, Request
<1>4. PICK e \in todo :
          /\ todo' = todo \ {e}
          /\ \/ e.st # "unreadable" /\ RecStore(e.key) /\ UNCHANGED missed
             \/ \E nomem \in BOOLEAN :
                   /\ nomem \/ e.st = "unreadable"
                   /\ rcvr' = [rcvr EXCEPT !.failed_keys = @ + 1]
                   /\ missed' = IF e.st = "unreadable" THEN missed ELSE missed \cup {e.key}
                   /\ \/ TooMany(rcvr', "key") /\ RecAbort(~nomem)
                      \/ /\ ~TooMany(rcvr', "key")
                         /\ need' = ~nomem
                         /\ UNCHANGED <<pc, rc, new, new_need>>
  BY DEF RecElem
<1>5. e.key \in Key /\ e \in View(Dir[at + 1])
  BY <1>1, <1>2, ViewType, ElemFacts
<1>6. e.st # "unreadable" => e.key \in was
  BY <1>1, <1>2, <1>5, RecoverableMeans DEF Source, Running
<1>7. CASE \E flag : RecAbort(flag) /\ rcvr' \in Counters
  BY <1>1, <1>7, AbortInv
<1>8. ASSUME ~\E flag : RecAbort(flag) /\ rcvr' \in Counters PROVE IInv'
  <2>1. /\ rcvr' \in Counters
        /\ pc' = pc
        /\ rcvr'.failed_buckets = rcvr.failed_buckets
        /\ \/ rcvr'.failed_keys = rcvr.failed_keys
           \/ rcvr'.failed_keys = rcvr.failed_keys + 1 /\ ~TooMany(rcvr', "key")
    <3>1. CASE RecStore(e.key)
      <4>1. CASE RecAbort(need) /\ UNCHANGED rcvr
        BY <1>r, <1>8, <4>1
      <4>2. CASE \/ rcvr' = [rcvr EXCEPT !.recovered_keys = @ + 1, !.duplicate_keys = @ + 1]
                 \/ rcvr' = [rcvr EXCEPT !.recovered_keys = @ + 1]
        <5>1. /\ rcvr' \in Counters /\ rcvr'.failed_keys = rcvr.failed_keys
              /\ rcvr'.failed_buckets = rcvr.failed_buckets
          <6>1. rcvr.recovered_keys + 1 \in Nat /\ rcvr.duplicate_keys + 1 \in Nat
            BY <1>r DEF Counters
          <6>2. CASE rcvr' = [rcvr EXCEPT !.recovered_keys = @ + 1]
            BY <1>r, <6>1, <6>2 DEF Counters
          <6>3. CASE rcvr' = [rcvr EXCEPT !.recovered_keys = @ + 1, !.duplicate_keys = @ + 1]
            BY <1>r, <6>1, <6>3 DEF Counters
          <6>4. QED
            BY <4>2, <6>2, <6>3
        <5>2. pc' = pc
          BY <1>r, <1>8, <3>1, <5>1 DEF RecStore
        <5>3. QED
          BY <5>1, <5>2
      <4>3. QED
        BY <3>1, <4>1, <4>2 DEF RecStore
    <3>2. CASE rcvr' = [rcvr EXCEPT !.failed_keys = @ + 1] /\ ~TooMany(rcvr', "key") /\ pc' = pc
      BY <1>r, <3>2 DEF Counters
    <3>3. CASE rcvr' = [rcvr EXCEPT !.failed_keys = @ + 1] /\ \E flag : RecAbort(flag)
      BY <1>r, <1>8, <3>3 DEF Counters
    <3>4. QED
      BY <1>4, <3>1, <3>2, <3>3
  <2>2. /\ new' \in [mem : SUBSET Key, disk : SUBSET Key, failed : BOOLEAN]
        /\ new.mem \subseteq new'.mem
        /\ new'.mem \subseteq new.mem \cup (IF e.st # "unreadable" THEN {e.key} ELSE {})
        /\ missed \subseteq missed'
        /\ e.st # "unreadable" => e.key \in new'.mem \cup missed'
        /\ new'.failed \/ new'.disk = new'.mem
    <3>0. new \in [mem : SUBSET Key, disk : SUBSET Key, failed : BOOLEAN]
      BY <1>1 DEF Types
    <3>w. new.failed \/ new.disk = new.mem
      BY <1>1 DEF Written, Running
    <3>1. CASE e.st # "unreadable" /\ RecStore(e.key) /\ UNCHANGED missed
      <4>1. CASE new' = new /\ e.key \in new.mem
        BY <3>0, <3>w, <3>1, <4>1
      <4>2. CASE /\ rcvr' = [rcvr EXCEPT !.recovered_keys = @ + 1]
                 /\ \E w \in NewWrites(new.mem \cup {e.key}) :
                        new' = [mem |-> new.mem \cup {e.key}, disk |-> w.disk,
                                failed |-> new.failed \/ w.failed]
        <5>1. \A w \in NewWrites(new.mem \cup {e.key}) :
                  /\ w.disk \in SUBSET Key /\ w.failed \in BOOLEAN
                  /\ w.failed \/ w.disk = new.mem \cup {e.key}
          BY <1>5, <3>0, WritesMeans
        <5>2. QED
          BY <1>5, <3>0, <3>1, <4>2, <5>1
      <4>3. CASE RecAbort(need) /\ UNCHANGED rcvr
        BY <1>r, <1>8, <4>3
      <4>4. QED
        BY <3>1, <4>1, <4>2, <4>3 DEF RecStore
    <3>2. CASE missed' = (IF e.st = "unreadable" THEN missed ELSE missed \cup {e.key}) /\ new' = new
      BY <3>0, <3>w, <3>2
    <3>3. CASE rcvr' = [rcvr EXCEPT !.failed_keys = @ + 1] /\ \E flag : RecAbort(flag)
      BY <1>r, <1>8, <3>3 DEF Counters
    <3>4. QED
      BY <1>4, <3>1, <3>2, <3>3
  <2>3. Types'
    BY <1>1, <2>1, <2>2 DEF Types
  <2>4. Walk'
    <3>1. \A j \in 1 .. at : BucketTaken(Dir[j])'
      BY <1>1, <1>3, <2>2, TakenStays
    <3>2. /\ Readable(Dir[at + 1])' /\ View(Dir[at + 1])' = View(Dir[at + 1])
          /\ at' < Len(Dir)
      BY <1>1, <1>2, SameView DEF Readable, View
    <3>3. todo' \subseteq View(Dir[at + 1])'
      BY <1>2, <1>4, <3>2
    <3>4. Taken(View(Dir[at + 1]) \ todo)'
      <4>1. \A x \in View(Dir[at + 1]) \ todo :
                x.st # "unreadable" => x.key \in new'.mem \cup missed'
        BY <1>2, <2>2 DEF Taken
      <4>2. QED
        BY <1>4, <2>2, <3>2, <4>1 DEF Taken
    <3>5. QED
      BY <1>1, <2>1, <3>1, <3>2, <3>3, <3>4 DEF Walk, Copying, Running
  <2>5. Source'
    <3>1. was = Recoverable /\ new.mem \subseteq was
      BY <1>1 DEF Source, Running
    <3>2. Recoverable' = Recoverable
      BY <1>1, SameView
    <3>3. QED
      BY <1>1, <1>6, <2>2, <3>1, <3>2 DEF Source
  <2>6. Limits'
    <3>1. /\ Below(rcvr.failed_keys, req.max_keys)
          /\ Below(rcvr.failed_buckets, req.max_buckets)
          /\ Below(rcvr.failed_keys + rcvr.failed_buckets, req.max_failures)
      BY <1>1 DEF Limits, Running
    <3>2. CASE rcvr'.failed_keys = rcvr.failed_keys
      BY <1>1, <2>1, <3>1, <3>2 DEF Limits
    <3>3. CASE rcvr'.failed_keys = rcvr.failed_keys + 1 /\ ~TooMany(rcvr', "key")
      <4>1. /\ rcvr.failed_keys + 1 # req.max_keys
            /\ rcvr.failed_keys + rcvr.failed_buckets + 1 # req.max_failures
        BY <1>r, <2>1, <3>3 DEF TooMany
      <4>2. rcvr.failed_keys + rcvr.failed_buckets \in Nat
        BY <1>r
      <4>3. /\ Below(rcvr.failed_keys + 1, req.max_keys)
            /\ Below(rcvr.failed_keys + rcvr.failed_buckets + 1, req.max_failures)
        BY <1>r, <3>1, <4>1, <4>2, OneMore
      <4>4. rcvr'.failed_keys + rcvr'.failed_buckets = rcvr.failed_keys + rcvr.failed_buckets + 1
        BY <1>r, <2>1, <3>3
      <4>5. QED
        BY <1>1, <2>1, <3>1, <3>3, <4>3, <4>4 DEF Limits
    <3>4. QED
      BY <2>1, <3>2, <3>3
  <2>7. Names' /\ Written'
    BY <1>1, <2>1, <2>2 DEF Names, Written
  <2>8. QED
    BY <2>3, <2>4, <2>5, <2>6, <2>7 DEF IInv
<1>9. QED
  BY <1>7, <1>8

\* The loops go on: to the next entry, or out of the walk when all entries are done.
LEMMA LoopStep == ASSUME IInv, RecNext PROVE IInv'
<1>1. /\ Types /\ Walk /\ Source /\ Limits /\ Names /\ Written
      /\ UNCHANGED <<disk, cache, changed, req, todo, rcvr, new, names, was, missed>>
      /\ pc \in {"bucket", "elem"} /\ pc' \in {"bucket", "finish"}
  BY DEF RecNext, IInv
<1>2. at \in Nat /\ Len(Dir) \in Nat /\ \A j \in 1 .. at : BucketTaken(Dir[j])
  BY <1>1, ConstAssumption DEF Types, Walk, Copying
<1>3. at' \in 0 .. Len(Dir) /\ Walk'
  <2>1. CASE pc = "elem" /\ todo = {} /\ at' = NextDir(at) /\ pc' = "bucket"
    <3>1. PICK i \in Nat : i = at
      BY <1>2
    <3>2. i < Len(Dir) /\ Taken(View(Dir[i + 1]))
      <4>1. View(Dir[i + 1]) \ todo = View(Dir[i + 1]) \ {}
        BY <2>1
      <4>2. Taken(View(Dir[i + 1]) \ todo) /\ i < Len(Dir)
        BY <1>1, <2>1, <3>1 DEF Walk
      <4>3. QED
        BY <2>1, <4>2 DEF Taken
    <3>3. BucketTaken(Dir[i + 1])'
      BY <1>1, <3>2, TakenStays DEF BucketTaken
    <3>4. \A j \in 1 .. i : BucketTaken(Dir[j])'
      BY <1>1, <1>2, <3>1, TakenStays
    <3>5. at' \in 0 .. Len(Dir) /\ \A j \in 1 .. at' : BucketTaken(Dir[j])'
      BY <2>1, <3>1, <3>2, <3>3, <3>4, WalkOn
    <3>6. QED
      BY <2>1, <3>5 DEF Walk, Copying, Running
  <2>2. CASE pc = "bucket" /\ at = Len(Dir) /\ pc' = "finish" /\ UNCHANGED at
    <3>1. was \ missed \subseteq new.mem
      BY <1>1, <1>2, <2>2, AllTaken DEF Source, Running
    <3>2. QED
      BY <1>1, <1>2, <2>2, <3>1 DEF Walk, Copying, Running
  <2>3. QED
    BY <2>1, <2>2 DEF RecNext
<1>4. Types'
  BY <1>1, <1>3 DEF Types
<1>5. Source'
  BY <1>1, SameView DEF Source, Running
<1>6. Limits'
  BY <1>1 DEF Limits, Running
<1>7. Names' /\ Written'
  BY <1>1 DEF Names, Written, Running
<1>8. QED
  BY <1>3, <1>4, <1>5, <1>6, <1>7 DEF IInv

\* _gdbm_finish_transfer: the copy is complete, what changes is the names and what
\* of it is in the new file.
LEMMA TransferStep == ASSUME IInv, RecFinish \/ RecBackup \/ RecRename PROVE IInv'
<1>1. /\ Types /\ Walk /\ Source /\ Limits /\ Names /\ Written
      /\ UNCHANGED <<disk, cache, changed, req, at, todo, rcvr, was, missed>>
      /\ pc \in {"finish", "backup", "rename"}
  BY DEF RecFinish, RecBackup, RecRename, IInv
<1>2. was \ missed \subseteq new.mem
  BY <1>1 DEF Walk, Running, Copying
<1>3. CASE (\E flag : RecAbort(flag)) /\ UNCHANGED names
  <2>1. rcvr' \in Counters
    BY <1>1 DEF Types
  <2>2. QED
    BY <1>1, <1>3, <2>1, AbortInv
<1>4. ASSUME ~((\E flag : RecAbort(flag)) /\ UNCHANGED names) PROVE IInv'
  <2>1. pc' \in {"backup", "rename", "swap"}
    BY <1>1, <1>4 DEF RecFinish, RecBackup, RecRename
  <2>2. /\ new' \in [mem : SUBSET Key, disk : SUBSET Key, failed : BOOLEAN]
        /\ new'.mem = new.mem
        /\ new'.failed \/ new'.disk = new'.mem
    <3>0. new \in [mem : SUBSET Key, disk : SUBSET Key, failed : BOOLEAN]
      BY <1>1 DEF Types
    <3>1. CASE RecFinish
      <4>1. PICK w \in NewWrites(new.mem) :
                new' = [new EXCEPT !.disk = w.disk, !.failed = @ \/ w.failed]
        BY <1>4, <3>1 DEF RecFinish
      <4>2. /\ w.disk \in SUBSET Key /\ w.failed \in BOOLEAN
            /\ w.failed \/ w.disk = new.mem
        BY <3>0, WritesMeans
      <4>3. QED
        BY <3>0, <4>1, <4>2
    <3>2. CASE RecBackup \/ RecRename
      BY <1>1, <1>4, <3>0, <3>2 DEF RecBackup, RecRename, Written, Running
    <3>3. QED
      BY <3>1, <3>2
  <2>3. Types'
    BY <1>1, <2>2 DEF Types
  <2>4. Walk'
    BY <1>1, <1>2, <2>1, <2>2 DEF Walk, Running, Copying
  <2>5. Source'
    BY <1>1, <2>2, SameView DEF Source, Running
  <2>6. Limits'
    BY <1>1 DEF Limits, Running
  <2>7. Names'
    <3>1. names.db \in {"old", "none"}
      BY <1>1 DEF Names
    <3>2. CASE UNCHANGED names
      BY <1>1, <3>1, <3>2 DEF Names
    <3>3. CASE names' = [names EXCEPT !.db = "none", !.kept = TRUE, !.backups = @ \cup {bkname}]
      BY <1>1, <3>3 DEF Names
    <3>4. CASE names' = [names EXCEPT !.db = "new"] /\ pc' = "swap"
      BY <1>1, <3>4 DEF Names
    <3>5. QED
      BY <1>4, <3>2, <3>3, <3>4 DEF RecFinish, RecBackup, RecRename
  <2>8. Written'
    BY <2>2 DEF Written
  <2>9. QED
    BY <2>3, <2>4, <2>5, <2>6, <2>7, <2>8 DEF IInv
<1>5. QED
  BY <1>3, <1>4

\* The buckets made from a set of keys.
LEMMA BucketsType ==
    ASSUME NEW keys \in SUBSET Key
    PROVE  Buckets(keys) \in [Bucket -> Content]
BY ElemFacts DEF Buckets, Content

\* dbf takes over the new file.
LEMMA SwapStep == ASSUME IInv, RecSwap PROVE IInv'
<1>1. /\ disk' = Buckets(new.disk)
      /\ cache' = [b \in Bucket |-> IF Buckets(new.mem)[b] # Buckets(new.disk)[b]
                                      THEN Buckets(new.mem)[b] ELSE None]
      /\ changed' = {b \in Bucket : cache'[b] # None}
      /\ names' = [names EXCEPT !.db = "old", !.kept = FALSE]
      /\ new' = NoNew /\ pc' = "idle"
      /\ UNCHANGED <<req, at, rcvr>>
  BY DEF RecSwap, RecReturn
<1>2. Types /\ Names /\ new.mem \in SUBSET Key /\ new.disk \in SUBSET Key
  BY DEF IInv, Types
<1>3. Types'
  BY <1>1, <1>2, BucketsType DEF Types, NoNew
<1>4. Names'
  BY <1>1, <1>2 DEF Names
<1>5. QED
  BY <1>1, <1>3, <1>4 DEF IInv, Walk, Source, Limits, Written, Running, Copying

LEMMA StepInv == IInv /\ [Next]_vars => IInv'
<1> SUFFICES ASSUME IInv, [Next]_vars PROVE IInv'
  OBVIOUS
<1>1. CASE UNCHANGED vars
  BY <1>1 DEF vars, IInv, Types, Walk, Source, Limits, Names, Written, Running, Copying, Taken, BucketTaken,
              Readable, View, Recoverable
<1>2. CASE Step
  BY <1>2, BucketStep, ElemStep, LoopStep, TransferStep, SwapStep DEF Step
<1>3. QED
  BY <1>1, <1>2, CallStep, BeginStep DEF Next

LEMMA Invariant == Spec => []IInv
<1>1. IInv /\ [Next]_vars => IInv'
  BY StepInv
<1>2. QED
  BY InitInv, <1>1, PTL DEF Spec

-----------------------------------------------------------------------------
(* The theorems. *)

\* A recovery that goes on to replace the file has stayed below every limit it was
\* given, although run_recovery (recover.c:274-279 and 305-310) compares for equality.
THEOREM LimitsAreKept == Spec => []LimitsHold
<1>1. IInv => LimitsHold
  BY DEF IInv, Limits, LimitsHold, Running
<1>2. QED
  BY Invariant, <1>1, PTL

\* Whatever fails in _gdbm_finish_transfer (recover.c:112-141), and wherever it is
\* killed, the old file is to be found under some name, or a new one that is complete
\* on disk unless a bucket could not be written to it.
THEOREM ACopyIsThere == Spec => []OneCopy
<1>1. IInv => OneCopy
  BY DEF IInv, Walk, Names, Written, OneCopy, Running, Copying
<1>2. QED
  BY Invariant, <1>1, PTL

\* What the handle sees after it took over the new file.
LEMMA SwapView ==
    ASSUME IInv, RecSwap, NEW b \in Bucket
    PROVE  View(b)' = Buckets(new.mem)[b] /\ View(b)' \in Content
<1>1. /\ disk' = Buckets(new.disk)
      /\ cache' = [c \in Bucket |-> IF Buckets(new.mem)[c] # Buckets(new.disk)[c]
                                      THEN Buckets(new.mem)[c] ELSE None]
  BY DEF RecSwap
<1>2. new.mem \in SUBSET Key
  BY DEF IInv, Types
<1>3. Buckets(new.mem)[b] \in Content /\ Buckets(new.mem)[b] # None
  BY <1>2, BucketsType, ConstAssumption
<1>4. QED
  BY <1>1, <1>3 DEF View

\* gdbm_recover (recover.c:258-352) brings over every key that could be read when
\* it began and that it did not fail to read for want of memory, brings over nothing
\* else, and leaves a database in which check_db finds nothing wrong.
THEOREM RecoveryIsComplete == Spec => RecoverKeeps
<1> DEFINE Kept == pc = "swap" => /\ was \ missed \subseteq Recoverable'
                                  /\ Recoverable' \subseteq was
                                  /\ ~CheckDb'
<1>1. IInv /\ [Next]_vars => [Kept]_vars
  <2> SUFFICES ASSUME IInv, Next, pc = "swap" PROVE Kept
    OBVIOUS
  <2>1. RecSwap
    BY DEF Next, Step, Store, Delete, FetchBad, Sync, Enter, SetSyncMode, Close, RecBegin, Call,
           RecBucket, RecElem, RecNext, RecFinish, RecBackup, RecRename
  <2>2. was \ missed \subseteq new.mem /\ new.mem \subseteq was /\ new.mem \subseteq Key
    BY DEF IInv, Types, Walk, Source, Running, Copying
  <2>3. \A b \in Bucket : View(b)' = {[key |-> k, st |-> "good"] : k \in {x \in new.mem : Home[x] = b}}
    BY <2>1, SwapView DEF Buckets
  <2>4. \A b \in Bucket : Readable(b)'
    BY <2>1, SwapView, ConstAssumption DEF Readable
  <2>5. ASSUME NEW k PROVE k \in Recoverable' <=> k \in new.mem
    <3>1. k \in Recoverable' <=>
              \E b \in Bucket : Readable(b)' /\ \E e \in View(b)' : e.st # "unreadable" /\ e.key = k
      BY DEF Recoverable
    <3>2. ASSUME k \in new.mem PROVE k \in Recoverable'
      <4>1. Home[k] \in Bucket /\ [key |-> k, st |-> "good"] \in View(Home[k])'
        BY <2>2, <2>3, <3>2, ConstAssumption
      <4>2. QED
        BY <2>4, <3>1, <4>1
    <3>3. ASSUME k \in Recoverable' PROVE k \in new.mem
      BY <2>3, <3>1, <3>3
    <3>4. QED
      BY <3>2, <3>3
  <2>6. ~CheckDb'
    <3>1. ASSUME NEW i \in 1 .. Len(Dir)
          PROVE  /\ Readable(Dir[i])'
                 /\ \A e \in View(Dir[i])' : e.st = "good" /\ Home[e.key] = Dir[i]
      <4>1. Dir[i] \in Bucket
        BY ConstAssumption
      <4>2. QED
        BY <2>3, <2>4, <4>1
    <3>2. ~ragged'
      BY <2>1 DEF RecSwap
    <3>3. QED
      BY <3>1, <3>2 DEF CheckDb
  <2>7. QED
    BY <2>2, <2>5, <2>6
<1>2. QED
  BY Invariant, <1>1, PTL DEF Spec, RecoverKeeps

=============================================================================
