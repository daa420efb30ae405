-------------------------------- MODULE Recover --------------------------------
(***************************************************************************)
(* Errors and recovery.  One writer's handle on a database: the updates,   *)
(* with the reads and writes that may fail in them (_gdbm_end_update,      *)
(* gdbm_sync, gdbm_close), the error state they leave (gdbm_set_errno,     *)
(* need_recovery), and gdbm_recover and gdbm_reorganize, which copy what   *)
(* can be read into a new file and put it in the place of the old one.     *)
(*                                                                         *)
(* A bucket is the set of its used elements.  The directory keeps its      *)
(* shape: HashDir has the splits.  The cache is large enough for the whole *)
(* database: BucketCache has the evictions.  The new file of a recovery is *)
(* shaped like the old one.                                                *)
(***************************************************************************)
EXTENDS Integers, FiniteSets, Sequences

CONSTANTS
    Key, Bucket,
    Bad,         \* a bucket that cannot be read
    None,
    Home,        \* Home[k]: the bucket to which the hash value of k leads
    Dir,         \* the directory: a sequence of buckets
    OldFiles,    \* the databases that may be found: what each bucket holds
    Stored,      \* the keys a program stores; others are what damage leaves
    Requests,    \* the flags and limits gdbm_recover is called with
    Backups,     \* the sets of backup names that may exist already
    Nine,        \* the last digit, 9 in the code
    MaxCalls     \* bound on the calls of the library

\* An element, by the key its data area gives: "altered" if that key does not
\* agree with the hash value and the key_start of the element.
Elem == [key : Key, st : {"good", "unreadable", "altered"}]
Content == SUBSET Elem

\* A limit of None: the flag is not set.
Request == [force : BOOLEAN, backup : BOOLEAN, max_keys : Nat \cup {None},
            max_buckets : Nat \cup {None}, max_failures : Nat \cup {None}]

ASSUME ConstAssumption ==
    /\ Home \in [Key -> Bucket]
    /\ Dir \in Seq(Bucket) /\ Dir # <<>>
    /\ \A b \in Bucket : \E i \in 1 .. Len(Dir) : Dir[i] = b
    /\ \A c \in Content : c # Bad /\ c # None
    /\ None # Bad
    /\ OldFiles \subseteq [Bucket -> Content \cup {Bad}]
    /\ Stored \subseteq Key
    /\ Requests \subseteq Request
    /\ Nine \in Nat \ {0}
    /\ MaxCalls \in Nat

VARIABLES
    disk,      \* the file dbf has open
    cache,     \* the buckets in memory, or None
    changed,   \* those with ca_changed
    ragged,    \* the file goes on after header->next_block
    need,      \* dbf->need_recovery
    sync,      \* !dbf->fast_write
    pc,        \* "idle", "closed", or where gdbm_recover is
    rc,        \* what the last call returned
    req,       \* the flags and limits of gdbm_recover
    at,        \* bucket_dir in run_recovery
    todo,      \* the elements of the bucket still to be copied
    rcvr,      \* the counters of gdbm_recovery
    new,       \* new_dbf: what it has in memory, what is in its file, and whether
               \* a bucket could not be written to it
    new_need,  \* new_dbf->need_recovery
    names,     \* the file each name leads to
    bkname,    \* the digits of the backup name that is tried
    was,       \* the keys that could be read when gdbm_recover began
    missed,    \* the keys that could not be read in it for another reason than damage
    calls      \* number of calls so far

vars == <<disk, cache, changed, ragged, need, sync, pc, rc, req, at, todo, rcvr,
          new, new_need, names, bkname, was, missed, calls>>
recovery == <<req, at, todo, rcvr, new, new_need, names, bkname, was, missed>>

Zero == [recovered_keys |-> 0, recovered_buckets |-> 0, failed_keys |-> 0,
         failed_buckets |-> 0, duplicate_keys |-> 0]
NoRequest == [force |-> FALSE, backup |-> FALSE, max_keys |-> None,
              max_buckets |-> None, max_failures |-> None]
NoNew == [mem |-> {}, disk |-> {}, failed |-> FALSE]

Init ==
    /\ disk \in OldFiles
    /\ cache = [b \in Bucket |-> None]
    /\ changed = {}
    /\ ragged \in BOOLEAN
    /\ need = ragged
    /\ sync \in BOOLEAN
    /\ pc = "idle"
    /\ rc = 0
    /\ req = NoRequest
    /\ at = 0
    /\ todo = {}
    /\ rcvr = Zero
    /\ new = NoNew
    /\ new_need = FALSE
    /\ \E n \in Backups : names = [db |-> "old", backups |-> n, kept |-> FALSE]
    /\ bkname = <<1>>
    /\ was = {}
    /\ missed = {}
    /\ calls = 0

-----------------------------------------------------------------------------
(* The database as the handle sees it. *)

View(b) == IF cache[b] # None THEN cache[b] ELSE disk[b]

\* _gdbm_get_bucket: a bucket in memory is not read again.
Readable(b) == View(b) # Bad

Has(b, k) == \E e \in View(b) : e.key = k

\* What gdbm_recover can bring over: the keys of all elements that can be read.
Recoverable == {e.key : e \in {x \in UNION {View(b) : b \in {c \in Bucket : Readable(c)}} :
                                   x.st # "unreadable"}}

-----------------------------------------------------------------------------
(* The error state and the updates. *)

\* gdbm_set_errno for the errors of a call in the order in which they occur:
\* each one overwrites need_recovery, so the last one decides.
After(flag, fatals) == IF fatals = <<>> THEN flag ELSE fatals[Len(fatals)]

\* What a failed _gdbm_full_write leaves: after a failed mmap, whose error is not
\* fatal, it sets none of its own.
WriteErrors == {<<TRUE>>, <<FALSE>>}

\* What gdbm_file_sync may leave: msync or fsync fails, or the snapshot does.
SyncErrors == {<<>>, <<TRUE>>, <<FALSE>>}

\* write_header, which syncs unless fast_write is set, and _gdbm_file_extend, which
\* fails for lack of memory or of space.
HeaderEnds(syncs) ==
    {[rc |-> 0, errs |-> e] : e \in IF syncs THEN SyncErrors ELSE {<<>>}}
    \cup {[rc |-> -1, errs |-> e] : e \in {<<TRUE>>, <<FALSE>>}}

\* _gdbm_cache_flush writes buckets up to the first one that cannot be written,
\* which keeps what it was in the file or is torn.
Flushes(mem, dirty) ==
    {[disk |-> [b \in Bucket |-> CASE b \in x.written -> mem[b] [] b \in x.torn -> Bad
                                 [] OTHER -> disk[b]],
      left |-> dirty \ x.written] :
        x \in {y \in [written : SUBSET dirty, torn : SUBSET dirty] :
                  y.written \cap y.torn = {} /\ Cardinality(y.torn) <= 1}}

\* _gdbm_end_update with the buckets dirty in mem: its result is that of the header
\* alone.  The errors of what the caller does next are in more.
EndUpdate(mem, dirty, more) ==
    \E fl \in Flushes(mem, dirty), f \in WriteErrors, h \in HeaderEnds(sync), m \in more :
        /\ disk' = fl.disk
        /\ cache' = mem
        /\ changed' = fl.left
        /\ need' = After(FALSE, (IF fl.left = {} THEN <<>> ELSE f) \o h.errs \o m.errs)
        /\ rc' = IF m.sets_rc THEN m.rc ELSE h.rc

\* gdbm_store and gdbm_delete end with _gdbm_end_update; gdbm_sync ignores its
\* result and returns that of gdbm_file_sync.
NoMore == {[errs |-> <<>>, sets_rc |-> FALSE, rc |-> 0]}
SyncMore == {[errs |-> e, sets_rc |-> TRUE, rc |-> IF e = <<>> THEN 0 ELSE -1] : e \in SyncErrors}

\* A call fails before it changed anything.
Fails(flag) ==
    /\ need' = flag
    /\ rc' = -1
    /\ UNCHANGED <<disk, cache, changed>>

\* GDBM_ASSERT_CONSISTENCY: the database needs recovery and the call returns.
Call ==
    /\ pc = "idle"
    /\ calls < MaxCalls
    /\ calls' = calls + 1
Refused ==
    /\ need
    /\ Fails(TRUE)
Enter == Call /\ UNCHANGED <<ragged, sync, pc>> /\ UNCHANGED recovery

\* The data area of a new element could not be written: the bucket in memory has
\* the element, with what the area held before, but is not marked changed.
NoData(b, k) ==
    /\ \E e \in {[key |-> k, st |-> "unreadable"]} \cup {[key |-> j, st |-> "altered"] : j \in Key \ Stored},
          f \in WriteErrors :
           /\ cache' = [cache EXCEPT ![b] = View(b) \cup {e}]
           /\ need' = After(FALSE, f)
    /\ rc' = -1
    /\ UNCHANGED <<disk, changed>>

\* gdbm_store of a key that is not there.
Store(k) ==
    /\ Enter
    /\ \/ Refused
       \/ ~need /\ ~Readable(Home[k]) /\ Fails(TRUE)
       \/ /\ ~need /\ Readable(Home[k]) /\ ~Has(Home[k], k)
          /\ \/ NoData(Home[k], k)
             \/ EndUpdate([cache EXCEPT ![Home[k]] = View(Home[k]) \cup {[key |-> k, st |-> "good"]}],
                          changed \cup {Home[k]}, NoMore)

\* gdbm_delete: the element is taken out before its space is freed, and the bucket
\* marked after that.
Delete(k) ==
    /\ Enter
    /\ \/ Refused
       \/ ~need /\ ~Readable(Home[k]) /\ Fails(TRUE)
       \/ /\ ~need /\ Readable(Home[k])
          /\ \E e \in View(Home[k]) :
                 LET mem == [cache EXCEPT ![Home[k]] = View(Home[k]) \ {e}]
                 IN /\ e.key = k /\ e.st = "good"
                    /\ \/ EndUpdate(mem, changed \cup {Home[k]}, NoMore)
                       \/ /\ cache' = mem
                          /\ need' \in BOOLEAN
                          /\ rc' = -1
                          /\ UNCHANGED <<disk, changed>>

\* gdbm_fetch of an element whose data cannot be read, or of a bucket that cannot.
FetchBad(b) ==
    /\ Enter
    /\ ~need
    /\ Readable(b) => \E e \in View(b) : e.st = "unreadable"
    /\ Fails(TRUE)

\* gdbm_sync.
Sync ==
    /\ Enter
    /\ \/ Refused
       \/ ~need /\ EndUpdate(cache, changed, SyncMore)

\* gdbm_setopt: GDBM_SETSYNCMODE, or GDBM_FASTMODE with the opposite value.
SetSyncMode(v) ==
    /\ Call
    /\ ~need
    /\ sync' = v
    /\ rc' = 0
    /\ UNCHANGED <<disk, cache, changed, ragged, need, pc>>
    /\ UNCHANGED recovery

\* gdbm_close: nothing is flushed.
Close ==
    /\ Call
    /\ pc' = "closed"
    /\ need' = FALSE
    /\ cache' = [b \in Bucket |-> None]
    /\ changed' = {}
    /\ rc' \in {0, -1}
    /\ UNCHANGED <<disk, ragged, sync>>
    /\ UNCHANGED recovery

-----------------------------------------------------------------------------
(* gdbm_recover. *)

\* check_db finds something wrong with what dbf has in memory or else in the file.
CheckDb ==
    \/ ragged
    \/ \E i \in 1 .. Len(Dir) :
           Readable(Dir[i]) => \E e \in View(Dir[i]) : e.st # "good" \/ Home[e.key] # Dir[i]

\* Mutant of NextDir: one entry too far.
NextDirSkips(i) ==
    LET later == {j \in i + 1 .. Len(Dir) - 1 : Dir[j + 1] # Dir[i + 1]}
    IN IF later = {} THEN Len(Dir) ELSE (CHOOSE j \in later : \A l \in later : j <= l) + 1

\* _gdbm_next_bucket_dir, with indices from 0.
NextDir(i) ==
    LET later == {j \in i + 1 .. Len(Dir) - 1 : Dir[j + 1] # Dir[i + 1]}
    IN IF later = {} THEN Len(Dir) ELSE CHOOSE j \in later : \A l \in later : j <= l

RecReturn(r, flag) ==
    /\ pc' = "idle"
    /\ rc' = r
    /\ need' = flag

\* new_dbf is closed; its file stays under its temporary name.
RecAbort(flag) ==
    /\ RecReturn(-1, flag)
    /\ new' = NoNew
    /\ new_need' = FALSE

\* gdbm_reorganize calls gdbm_recover so.
Reorganization ==
    [force |-> TRUE, backup |-> FALSE, max_keys |-> None, max_buckets |-> None, max_failures |-> 0]

\* gdbm_recover up to run_recovery; reading may make check_db set the flag, and
\* lack of memory in it clear it.
RecBegin(r) ==
    /\ Call
    /\ r = Reorganization => ~need
    /\ req' = r
    /\ rcvr' = Zero
    /\ at' = 0
    /\ todo' = {}
    /\ was' = Recoverable
    /\ missed' = {}
    /\ bkname' = <<1>>
    /\ new' = NoNew
    /\ new_need' = FALSE
    /\ \E nomem \in BOOLEAN :
          \/ /\ ~r.force /\ ~CheckDb /\ ~nomem
             /\ RecReturn(0, FALSE)
          \/ /\ r.force \/ CheckDb \/ nomem
             /\ need' \in IF r.force THEN {need} ELSE {need, TRUE, ~nomem}
             /\ \/ /\ pc' = "bucket"
                   /\ rc' = 0
                \/ /\ pc' = "idle"
                   /\ rc' = -1
    /\ UNCHANGED <<disk, cache, changed, ragged, sync, names>>

\* Mutant of TooMany: max_failures is only compared after a failed bucket.
TooManyBuckets(c, kind) ==
    \/ kind = "bucket" /\ (c.failed_buckets = req.max_buckets \/ c.failed_buckets + c.failed_keys = req.max_failures)
    \/ kind = "key" /\ c.failed_keys = req.max_keys

\* One of the limits is reached exactly, by a failure of this kind.
TooMany(c, kind) ==
    \/ kind = "bucket" /\ c.failed_buckets = req.max_buckets
    \/ kind = "key" /\ c.failed_keys = req.max_keys
    \/ c.failed_buckets + c.failed_keys = req.max_failures

\* A bucket is read, or cannot be read, or there is no memory for it.
RecBucket ==
    /\ pc = "bucket"
    /\ at < Len(Dir)
    /\ LET b == Dir[at + 1] IN
          \/ /\ Readable(b)
             /\ rcvr' = [rcvr EXCEPT !.recovered_buckets = @ + 1]
             /\ todo' = View(b)
             /\ pc' = "elem"
             /\ UNCHANGED <<need, rc, at, new, new_need, missed>>
          \/ \E nomem \in BOOLEAN :
                /\ nomem \/ ~Readable(b)
                /\ rcvr' = [rcvr EXCEPT !.failed_buckets = @ + 1]
                /\ missed' = missed \cup (IF Readable(b) THEN {e.key : e \in View(b)} ELSE {})
                /\ \/ /\ TooMany(rcvr', "bucket")
                      /\ RecAbort(~nomem)
                      /\ UNCHANGED at
                   \/ /\ ~TooMany(rcvr', "bucket")
                      /\ at' = NextDir(at)
                      /\ need' = ~nomem
                      /\ UNCHANGED <<pc, rc, new, new_need>>
                /\ UNCHANGED todo
    /\ UNCHANGED <<disk, cache, changed, ragged, sync, req, names, bkname, was, calls>>

\* _gdbm_end_update of the new file: all changed buckets are written, or one cannot
\* be, and the call succeeds nevertheless.  After such a failure the next flush may
\* also end before it comes to that bucket, since the cache has another in front.
NewWrites(keys) ==
    {[disk |-> keys, failed |-> FALSE, need |-> FALSE]}
    \cup {[disk |-> new.disk, failed |-> TRUE, need |-> n] : n \in BOOLEAN}

\* Mutant of RecStore: a key that cannot be stored is passed over like a duplicate.
RecStoreIgnores(k) ==
    /\ rcvr' = [rcvr EXCEPT !.recovered_keys = @ + 1, !.duplicate_keys = @ + 1]
    /\ UNCHANGED <<pc, rc, need, new, new_need>>

\* gdbm_store (new_dbf, ...) of a key that was read.
RecStore(k) ==
    \/ /\ new_need \/ k \notin new.mem
       /\ RecAbort(need)
       /\ UNCHANGED rcvr
    \/ /\ ~new_need /\ k \in new.mem
       /\ rcvr' = [rcvr EXCEPT !.recovered_keys = @ + 1, !.duplicate_keys = @ + 1]
       /\ UNCHANGED <<pc, rc, need, new, new_need>>
    \/ /\ ~new_need /\ k \notin new.mem
       /\ rcvr' = [rcvr EXCEPT !.recovered_keys = @ + 1]
       /\ \E w \in NewWrites(new.mem \cup {k}) :
             /\ new' = [mem |-> new.mem \cup {k}, disk |-> w.disk, failed |-> new.failed \/ w.failed]
             /\ new_need' = w.need
       /\ UNCHANGED <<pc, rc, need>>

\* An element is copied, or cannot be read.
RecElem ==
    /\ pc = "elem"
    /\ \E e \in todo :
          /\ todo' = todo \ {e}
          /\ \/ e.st # "unreadable" /\ RecStore(e.key) /\ UNCHANGED missed
             \/ \E nomem \in BOOLEAN :
                   /\ nomem \/ e.st = "unreadable"
                   /\ rcvr' = [rcvr EXCEPT !.failed_keys = @ + 1]
                   /\ missed' = IF e.st = "unreadable" THEN missed ELSE missed \cup {e.key}
                   /\ \/ TooMany(rcvr', "key") /\ RecAbort(~nomem)
                      \/ /\ ~TooMany(rcvr', "key")
                         /\ need' = ~nomem
                         /\ UNCHANGED <<pc, rc, new, new_need>>
    /\ UNCHANGED <<disk, cache, changed, ragged, sync, req, at, names, bkname, was, calls>>

\* The loops of run_recovery go on.
RecNext ==
    /\ \/ pc = "elem" /\ todo = {} /\ at' = NextDir(at) /\ pc' = "bucket"
       \/ pc = "bucket" /\ at = Len(Dir) /\ pc' = "finish" /\ UNCHANGED at
    /\ UNCHANGED <<disk, cache, changed, ragged, need, sync, rc, req, todo, rcvr, new,
                   new_need, names, bkname, was, missed, calls>>

\* _gdbm_finish_transfer: everything is written once more, with the bucket again
\* perhaps not, and the owner and mode are copied.
RecFinish ==
    /\ pc = "finish"
    /\ \/ /\ pc' = IF req.backup THEN "backup" ELSE "rename"
          /\ \E w \in NewWrites(new.mem) :
                new' = [new EXCEPT !.disk = w.disk, !.failed = @ \/ w.failed]
          /\ UNCHANGED <<rc, need, new_need>>
       \/ RecAbort(need)
    /\ UNCHANGED <<disk, cache, changed, ragged, sync, req, at, todo, rcvr, names, bkname,
                   was, missed, calls>>

\* Mutant of NextName: the number has one digit and begins again after nine.
NextNameWraps(d) == [d EXCEPT ![Len(d)] = IF @ = Nine THEN 1 ELSE @ + 1]

\* backup_name counts up: nines at the end become zeros, and a digit is inserted
\* in front when all were nines.
NextName(d) ==
    LET nines == {i \in 1 .. Len(d) : \A j \in i .. Len(d) : d[j] = Nine}
        n == Len(d) - Cardinality(nines)
    IN IF n = 0 THEN <<1>> \o [j \in 1 .. Len(d) |-> 0]
       ELSE [j \in 1 .. Len(d) |-> CASE j < n -> d[j] [] j = n -> d[j] + 1 [] j > n -> 0]

\* The old file is renamed to the first backup name that is not in use.
RecBackup ==
    /\ pc = "backup"
    /\ \/ /\ bkname \in names.backups
          /\ bkname' = NextName(bkname)
          /\ UNCHANGED <<pc, rc, need, names, new, new_need>>
       \/ /\ bkname \notin names.backups
          /\ names.db = "old"
          /\ pc' = "rename"
          /\ names' = [names EXCEPT !.db = "none", !.kept = TRUE, !.backups = @ \cup {bkname}]
          /\ UNCHANGED <<rc, need, bkname, new, new_need>>
       \/ RecAbort(need) /\ UNCHANGED <<names, bkname>>
    /\ UNCHANGED <<disk, cache, changed, ragged, sync, req, at, todo, rcvr, was, missed, calls>>

\* The new file gets the name of the old one.
RecRename ==
    /\ pc = "rename"
    /\ \/ /\ pc' = "swap"
          /\ names' = [names EXCEPT !.db = "new"]
          /\ UNCHANGED <<rc, need, new, new_need>>
       \/ RecAbort(need) /\ UNCHANGED names
    /\ UNCHANGED <<disk, cache, changed, ragged, sync, req, at, todo, rcvr, bkname, was,
                   missed, calls>>

\* The buckets that hold these keys.
Buckets(keys) == [b \in Bucket |-> {[key |-> k, st |-> "good"] : k \in {x \in keys : Home[x] = b}}]

\* dbf takes over the file, the header, the directory and the cache of new_dbf; the
\* first bucket is read last, from the cache if it is there.
RecSwap ==
    /\ pc = "swap"
    /\ disk' = Buckets(new.disk)
    /\ cache' = [b \in Bucket |-> IF Buckets(new.mem)[b] # Buckets(new.disk)[b]
                                    THEN Buckets(new.mem)[b] ELSE None]
    /\ changed' = {b \in Bucket : cache'[b] # None}
    /\ ragged' = FALSE
    /\ names' = [names EXCEPT !.db = "old", !.kept = FALSE]
    /\ \/ RecReturn(0, FALSE)
       \/ cache'[Dir[1]] = None /\ RecReturn(-1, TRUE)
    /\ new' = NoNew
    /\ new_need' = FALSE
    /\ UNCHANGED <<sync, req, at, todo, rcvr, bkname, was, missed, calls>>

Step == RecBucket \/ RecElem \/ RecNext \/ RecFinish \/ RecBackup \/ RecRename \/ RecSwap

Next ==
    \/ \E k \in Stored : Store(k) \/ Delete(k)
    \/ \E b \in Bucket : FetchBad(b)
    \/ Sync
    \/ \E v \in BOOLEAN : SetSyncMode(v)
    \/ Close
    \/ \E r \in Requests : RecBegin(r)
    \/ Step

\* A call that has begun goes on.
Spec == Init /\ [][Next]_vars /\ WF_vars(Step)

-----------------------------------------------------------------------------
(* Properties. *)

\* Every key that could be read when gdbm_recover began, but those it failed to
\* read since for want of memory, is in the database it makes, once, in the right
\* bucket and without damage, and nothing else is: run_recovery visits every bucket
\* once although several directory entries lead to it, stores in the right place
\* what is in a wrong one, and drops duplicates (recover.c:258-352).
RecoverKeeps ==
    [][pc = "swap" =>
          /\ was \ missed \subseteq Recoverable'
          /\ Recoverable' \subseteq was
          /\ ~CheckDb']_vars

\* A recovery that goes on to replace the file has stayed below every limit it was
\* given: the comparisons for equality (recover.c:274-279 and 305-310) never step
\* over one, whatever the order of failing buckets and keys.  A limit of zero, which
\* gdbm_reorganize gives, is never met.
Below(n, limit) == limit = None \/ limit = 0 \/ n < limit
LimitsHold ==
    pc \in {"finish", "backup", "rename", "swap"} =>
        /\ Below(rcvr.failed_keys, req.max_keys)
        /\ Below(rcvr.failed_buckets, req.max_buckets)
        /\ Below(rcvr.failed_keys + rcvr.failed_buckets, req.max_failures)

\* At every moment, also when a step of _gdbm_finish_transfer fails or the process
\* is killed (recover.c:112-141), the old file is to be found under its name or a
\* backup name, or the name leads to a new file that has all on disk that could be
\* copied.  If a bucket could not be written to it, all is only in memory.
OneCopy ==
    \/ names.db = "old"
    \/ names.kept
    \/ names.db = "new" /\ was \ missed \subseteq (IF new.failed THEN new.mem ELSE new.disk)

\* The same without the exception.  It does not hold: update.c:67 ignores that a
\* bucket could not be written, and recover.c:100 that gdbm_sync failed.
OneCopyOnDisk ==
    \/ names.db = "old"
    \/ names.kept
    \/ names.db = "new" /\ was \ missed \subseteq new.disk

\* gdbm_recover returns: the walk over the directory, with entries that share a
\* bucket, and the search for a backup name, with carries, both end.
RecoverReturns == pc # "idle" ~> pc \in {"idle", "closed"}

\* The documentation of the error state (doc/gdbm.texi:1487-1492): while something
\* the calls have changed is not in the file, the database is marked as needing
\* recovery.
DamageKnown == changed # {} => need \/ pc # "idle"

\* The comment of gdbm_reorganize (gdbmreorg.c:27-28): "If an error is detected, the
\* return value is negative."
ReorganizeWhole ==
    [][pc = "swap" /\ req = Reorganization /\ rc' = 0 =>
          rcvr.failed_keys = 0 /\ rcvr.failed_buckets = 0]_vars
=============================================================================
