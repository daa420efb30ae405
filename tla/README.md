# GDBM in TLA+

This directory holds a TLA+ model of the GDBM library (`src/src/` in the
repository, "the library" below), TLC configurations that check it on small
instances, and TLAPS proofs of the properties that matter most.  Line numbers
refer to the files under `src/`.  `PROJECT.json` maps every definition to the
lines it models.

## 1. The system

GDBM is a library that keeps a map from keys to contents in one file.  A
database is a *header* block, a *directory* of 2^dir_bits addresses, *buckets*
(hash tables of `bucket_elems` slots) and *key/data areas*.  The bits of a hash
value that come first select a directory entry, hence a bucket; a slot in the
bucket is found by linear probing.  A process that has the file open keeps the
header, the directory and a cache of buckets in memory.  One process at a time
may write: a file lock, taken when the file is opened, keeps others out.

| Component | State | Operations | Talks to |
|---|---|---|---|
| Buckets, data cache (`findkey.c`, `gdbmfetch.c`, `gdbmstore.c`, `gdbmdelete.c`) | slots, `count`, one cached key/data pair per bucket | find, fetch, store, delete | directory (which bucket), allocator (areas), bucket cache (end of an update) |
| Directory and splitting (`bucket.c:448-669`, `hash.c`) | `dir`, `dir_bits`, `bucket_bits` | split a full bucket, double the directory | allocator, bucket cache |
| Key walk (`gdbmseq.c`) | none between calls: the caller passes the last key | firstkey, nextkey | directory, buckets |
| Bucket cache (`bucket.c:46-446,672-800`) | list in order of use, table of collision chains, capacity, changed flags | look up, add, throw out, grow, flush, resize | file |
| Allocator (`falloc.c`, `avail.c`) | sorted tables of free extents in the header and in every bucket, a stack of avail blocks in the file, `next_block` | alloc, free, push and pop an avail block | current bucket, header |
| Conversion (`gdbmopen.c:820-978`) | format of the header, length of its table | convert to and from the extended format | allocator |
| Update (`update.c`), error state (`gdbmerrno.c`) | changed flags, `need_recovery`, last error | write buckets, directory, header in this order | bucket cache, sync |
| Crash tolerance (`gdbmsync.c`) | two snapshot files and their permission bits, `eo`, `numsync` | failure_atomic, sync, latest_snapshot | file system |
| Open and close (`gdbmopen.c`, `gdbmclose.c`) | everything above, from nothing | open, validate, create, close | lock |
| Locking (`lock.c`) | which of three mechanisms holds the lock | lock with wait, retry or signal; unlock | other processes |
| Mapped input/output (`mmap.c`, `fullio.c`) | a window over the file | read, write, seek, extend, sync | file |
| Recovery (`recover.c`, `gdbmreorg.c`) | counters of failures, a second database | recover, reorganize | all of the above, on two files |
| Options (`gdbmsetopt.c`) | flags of the descriptor | set and get | cache, allocator, mapping |
| Dump and load (`gdbmdump.c`, `gdbmload.c`, `gdbmexp.c`, `gdbmimp.c`) | parser state | dump, load | public calls |
| Compatibility (`compat/`), tools (`tools/`) | wrappers, a shell | | public calls |

What makes each part correct, and what is hard to test about it:

* **Buckets.** A key is found exactly when it is stored.  `gdbm_delete` moves
  elements so that probing never meets a hole too early; it must do so across
  the end of the table too.  The data cache is invalidated in places far from
  those that make it stale.  A full table must not make a loop run for ever.
* **Directory.** The entries of a bucket are one aligned range.  One store may
  split several times, double the directory several times, and run into the
  limit.  The caller must see nothing of it.
* **Walk.** Every key once, while fetches and replacements happen.
* **Bucket cache.** No copy of a bucket is stale, no change is lost, list and
  table agree; the flush relies on an ordering of the list that every other
  operation has to keep, and pointers into the table are held across evictions.
* **Allocator.** No byte has two owners and none is forgotten.  Pushing a block
  allocates and frees in the middle of an allocation or a free.
* **Crash tolerance.** After a crash at any moment there is a complete snapshot,
  and the right one is chosen; system calls fail; a counter overflows.
* **Open and lock.** What is read before the lock is used after it; waiting may
  race with the alarm that should end it.
* **Mapped input/output.** Positions at the edges of the window, and what a sync
  covers.
* **Error state, recovery.** A failed write in the middle of an update, an error
  that hides an earlier one, a rename another process has not seen; damage that
  is met in any order must respect the limits and lose no readable key.
* **Dump and load.** Several formats, some of earlier versions; a file that was
  cut off between lines or inside one must not be taken for a whole one.

`PROJECT.json` lists these as hazards, each with its line and the properties
that would catch it.

## 2. Modules

```
KVStore      abstract: a map and a walk            HashDir implements it
HashDir      directory, splits, walk, counting     HashDirProofs
HashBucket   one bucket, step by step              HashBucketProofs
BucketCache  list and table of cached buckets      BucketCacheProofs
FileAlloc    who owns which bytes; conversion;     FileAllocProofs
             validation of the avail tables
Snapshot     snapshot files, failures, crashes     SnapshotProofs
OpenLock     processes, files, locks, open, close  OpenLockProofs
MappedIO     the window over the file              MappedIOProofs
Recover      failing updates, recovery, exchange   RecoverProofs
DumpLoad     dump files and the loader
MC*          instances for TLC
```

**HashBucket.**  The variables are the slots (`h_table`), `count`, the content
of the areas in the file, the set of areas in use, the data cache and the local
variables of the call in progress.  Each loop iteration of `_gdbm_findkey`, of
the placing loop of `gdbm_store` and of the moving loop of `gdbm_delete` is an
action.  A slot keeps the hash value and a *stub* of its key (`key_size` and
`key_start`), so that two keys may agree in both and only reading tells them
apart.  Areas come from any unused address; the real allocator is FileAlloc's.
`_gdbm_end_update` has one effect here: writing the changed bucket forgets its
cached entry (`bucket.c:700`).  A store into a full bucket leaves the module.

**HashDir.**  The variables are `dir_bits`, `dir`, the buckets by address,
`bucket_dir`, and what the caller knows (last result, walk).  A call is one
step; an iteration of `_gdbm_split_bucket` is one step.  `gdbm_exists`,
`gdbm_count` and `gdbm_bucket_count` are calls too: the last two walk over the
directory and must not count a bucket twice that several entries lead to.
`KVStore` is the abstract specification, `IsKVStore` the statement that HashDir
implements it under the mapping `kv <- Contents`, `usable <- ~need_recovery`.  A
walk is a sequence of calls by the caller, who gives it up when a key comes or
goes: `doc/gdbm.texi` promises nothing about a walk during insertions and
deletions.

**BucketCache.**  `lru` is the list from `cache_mru` to `cache_lru`, `tab` the
collision chains.  An element is marked with whether its content is the newest
(`fresh`) and whether it is in a chain (`intab`).  `mode` selects which
behaviours are admitted, because of the finding in section 5: with `stale_slot`
false the evictions that lose an element from its chain are left out, with
`resize` false the cache keeps its capacity, with `gap` false a failing split does
not separate changed elements.  `avail` counts the freed elements, because memory
is asked for only when there are none.

**FileAlloc.**  `db` is the part of the descriptor the allocator works on: the
header table, the table of the current bucket, the stack of avail blocks, those
blocks that nothing links any more (`orphans`), `next_block` and the options.
`bucket` has the tables of all buckets, `dir` the directory, `area` the key/data
areas, and `olds` and `fresh` are what a split has to free and to use in the end.
Every operator returns the descriptor as the C function of that name leaves it;
`With` passes a descriptor on, and loops are recursive functions.  Sizes are real
numbers of bytes in a small scale, so that rounding, splitting a block, coalescing
and a table that fills up happen as in the code.  `_gdbm_free` and
`push_avail_block` call one another; `FreeWithRoom` is the call from inside a
push, of which `PushNeverNests` proves that it does not push again.  A split
divides the elements in any way.

**Snapshot.**  A step is a system call of `_gdbm_snapshot`, each of which may
fail.  A crash is not a step: `modes[f]` and `datas[f]` are the sets of what a
crash may leave of file `f`, `fsync` reduces them to the current value, and the
properties speak about every combination (`Outcomes`).  `gdbm_sync` without
`GDBM_FAST` makes two snapshots, which are two `Sync` steps.

**OpenLock.**  Processes with one descriptor each, inodes, the name that leads to
one of them, and the locks the kernel keeps.  `gdbm_open_ext` is cut wherever
another process can tell the difference: `Open` (open(2), with truncation and
creation left to later), `Stat`, the lock call in its three ways of waiting
(`TryLock`, `Wake`; `SetAlarm`, `Block`, `GetLock`, `Alarm`), `Truncate`,
`WriteHeader` and `WriteRest` or `ReadHeader`, then `Update` and `Close`.  A file
system supports some of the three mechanisms (`works`); the first that does not
fail with "not supported" is used, and `flock` does not see the locks of the other
two.  A lock is released by `close`, whatever `_gdbm_unlock_file` does.
`gdbm_recover` is here as other processes see it: a second file is made and
locked, the old one may get a backup name, the new one is renamed over it, and
the descriptors are exchanged.  `Crash` kills a process anywhere; the kernel then
drops its locks.

**MappedIO.**  `m` is the window (`mapped_region`, size, position, offset), `size`
the size of the file and `file_size` what the descriptor remembers of it.  An
access is `Begin` (the seek) and one step for each iteration of the loop in
`_gdbm_mapped_read` or `_gdbm_mapped_write`, which may move the window, extend the
file, and fail: `fstat`, the `calloc` and the `write` of `_gdbm_file_extend`, and
`mmap` may fail (`Faults`), the last also after the file has been extended.  A
failure that is not fatal makes the call fall back to `lseek` and plain calls
(`FallBack`), which may fail too (`PlainFails`).  `lseek` and `munmap` do not fail.
After a failed `calloc` (`starved`) only the call under way and a sync are modelled.
`got` is the sequence of offsets reached so far, `pages` the pages the kernel has really mapped, `dirty` what was
written and not synced.  The options that switch the mapping and limit its size
are actions.

**Recover.**  One handle on a database whose buckets are in the file or in the
cache.  An element is good, unreadable or altered; a bucket may be unreadable as a
whole.  The first part has the changing calls with every write of
`_gdbm_end_update` failing, `gdbm_set_errno` with its effect on `need_recovery`,
and `gdbm_sync`.  The second is `gdbm_recover`: `check_db`, `run_recovery` bucket by
bucket and element by element with its counters and limits, the search for a free
backup name, the two renames, and the exchange of the two descriptors, each of
which may fail.  `new` is the new file: the keys its handle sees (`mem`), those that
are on disk (`disk`), and whether a bucket could not be written (`failed`), a
failure the code goes on after.

**DumpLoad.**  A dump is a sequence of lines (or of units, in the binary formats):
comments, parameters, base64 text.  base64 and the wrapping of lines are computed.
`DumpEndsEarly` is a dump that fails, between two records or in the midst of one
(`Halves`: `print_datum` has written a length and not all of the data), and whose
end is written all the same; `DumpCut` is a file that was cut off between two
lines or inside one; a line without newline is then completed by what the buffer
of the reader still holds (`Kept`).  The loader works line by line, the program
`gdbm_load` adds its exit status.

`KVStore`, `HashDir`, `BucketCache` and `HashBucket` look at the same code on
different levels: HashDir takes from HashBucket that a search finds what is there,
and from BucketCache that the bucket it gets is the newest.  `Recover` and
`OpenLock` share the exchange of files.

## 3. Runs

| Run | Instance | Shows |
|---|---|---|
| `hash_bucket` | 3 slots, 4 keys, 2 values of different size, 3 areas | search, data cache, areas and `count` stay right; every call returns |
| `hash_dir` | 5 keys, 4-bit hash values, 2 slots, directory of 2 to 8 entries | regular directory, every key found, implements KVStore |
| `bucket_cache` | 5 addresses, caches of 4 and 8 | changed buckets first and written, copies fresh, list equals table |
| `file_alloc` | blocks of 8 bytes, buckets of 2 elements and 3 avail entries, header tables of 6 and 8, files new and fragmented, 4 calls | exclusive ownership, sorted tables, readable stack, space lost only where a block is popped |
| `snapshot` | 5 snapshots, numsync modulo 4 | readable snapshots are whole, the latest is chosen |
| `open_lock` | 2 processes, 3 inodes, 3 calls, 3 kinds of file system, 5 ways to call, 2 old files | a writer is alone, headers are fresh, no stray lock, opens return |
| `mapped_io` | pages of 4 bytes, a file of 8 to 16, limits of 8 and none, 1 failing call, 3 areas | the right bytes, in mapped memory; the remembered size; what a sync covers; accesses return |
| `recover` | 4 keys, 3 buckets, 4 directory entries, 5 damaged files, 5 requests, 2 calls, backup digits 1 and 2 | readable keys survive once, limits hold, there is always a copy (finding 16 apart), recovery returns |
| `dump_load` | 5 databases, 2 targets, 5 formats, lines of 4 characters | what is reported as loaded is complete, whole dumps are accepted, loads end (finding 17 apart) |
| `cache_stale_slot`, `alloc_convert`, `alloc_reopen` | as above | findings 1, 3 and 4 of section 5 |

Bounds, and why they are enough:

* *Buckets.*  With three slots, two keys that agree in everything a slot keeps, a
  third with the same home slot (the last) and a fourth with the first slot as
  home, chains wrap round the end, the table gets full, and elements move over
  distances one and two.  The proofs cover every other size.
* *Directory.*  Three bits of directory and four of hash value make one store
  split three times, with and without doubling, and make two equal hash values
  run into the limit.  Ten addresses are one more than a full directory needs.
* *Cache.*  Four is the smallest capacity the library admits.  Four of the five
  addresses collide in it; they spread in a table of eight, where the index is not
  a refinement of the one before, as in `adr_hash`.  Splits and stores fail
  half way, except as in finding 2.
* *Allocator.*  `MaxCalls` bounds a behaviour to four calls.  A behaviour starts
  from a new file or from one that a number of stores and deletes of growing
  size have left behind (`Ages`): with a header table empty, almost full or just
  split, and with several blocks on the stack.  Four calls then suffice for a
  push inside an allocation, a pop that pushes, a split that doubles the
  directory, one that runs into the limit, and conversions between all of these.
  `ConvertFromNumsync` is restricted to an empty stack in the passing run
  (`FromWithStack`), see section 5.
* *Snapshots.*  `MaxCopies` is five: enough for both files to be rewritten after
  a failure and for a two-bit `numsync` to overflow.  The proofs cover any number.
* *Open and lock.*  Two processes meet at every pair of steps; three calls let one
  of them come back after a crash, a close or a recovery.  Three inodes are the old
  file, the new one of a recovery, and one more.  The proofs cover any number of
  each.
* *Mapping.*  The areas are inside a page, across the border of two windows, and
  behind the end of the file.  The limit is two pages, so that a window covers
  part of the file; a limit of zero lifts it again.  One failing system call suffices for every way
  into the fall back; the proofs cover any number.
* *Recovery.*  The damaged files have one, two and three places of damage of each
  kind, a key in the wrong bucket, one that is there twice and one that nobody
  stored; two entries of the directory share a bucket.  Backup names are counted
  with two digits, so that the carry happens.  Two calls suffice for an error that
  a later one hides.
* *Dumps.*  Empty keys and contents, base64 with zero, one and two padding
  characters, text of one and of two lines, and cuts at every place.

Fairness.  `WF_vars(Step)` in HashBucket, MappedIO and Recover says that a call in
progress takes its next step: the code is sequential and nothing in these loops
waits, so the thread that runs a call does run on.  In OpenLock every process has
weak fairness of its own steps, sleeping included, and of the expiry of its timer;
the lock call that blocks is enabled only when the kernel grants the lock, so
fairness promises nothing to a process that waits behind another, and nobody has to
close a database.  In DumpLoad a program runs to its end (`WF_vars(Next)`).
Nobody has to make a call anywhere.

Deadlock.  `open_lock`, `mapped_io`, `recover` and `dump_load` do not check for it:
in the first two processes may be dead, stopped by a fault or out of calls, in
`recover` the handle is closed, in `dump_load` the program has exited; their
liveness properties say what must not stop before.  In the other runs a bound that
is reached, and a database that needs recovery, have explicit stuttering actions
(`Enough`, `Refused`), and deadlock is checked.

## 4. Proofs

The theorems of the eight proof modules hold for every value of the constants that
the modules' named assumptions admit.  What these assumptions say about powers of
two (`PowerAssumption` in HashDir and BucketCache) is the law of exponents, which
the prover does not know; TLC evaluates them in the runs.

**HashBucketProofs** proves every invariant of the run `hash_bucket` for every
number of slots, every key set and every hash function.  The assumptions are
those of HashBucket: at least one slot, hash values are natural numbers, the
marker of an empty slot is not an element, there are an address and a datum.
None of the properties is inductive alone.  The inductive invariant `IInv` adds

* `ElemsRight`: a slot keeps the hash value and stub of the key its area holds;
* `ProbeRight`: what a search has passed is occupied and is not the key;
* `GapRight`: while `gdbm_delete` closes a gap, `last_loc` is the only hole in
  any chain, and no element between `last_loc` and `elem_loc` has it on its way.

The argument rests on circular intervals (`InArc`): `ArcStep` says what one more
step of a probe adds, `ArcFull` that a full circle covers the table, and
`MustMoveIsArc` that the four comparisons of `gdbmdelete.c:70-71` say "the empty
slot lies on the way from the home slot of this element to the element".
`CountStep` shows that `count` is the cardinality of the used slots, from which
the unreachability of `GDBM_BAD_HASH_TABLE` follows.  There is one lemma per
conjunct of `IInv` and in it one step per action that can disturb the conjunct.

**SnapshotProofs** proves type correctness, `WholeIfReadable` and `LatestRecovers`
for any number of snapshots and any width of `numsync` its assumption admits.
`SnapRight` says how far the file being written has got at every step; `WholeIfReadable`
follows from it.  For `LatestRecovers` the pair of files is, between two calls, in
one of three states: only the previous snapshot readable (`OnlyOld`), both
readable and known to follow one another (`BothInOrder`), only the newest readable
(`OnlyNew`).  `OldAtStep` says where the previous one stands at each system call.
The lemma `CmpInOrder` is the heart: the comparison of `numsync` in
`gdbm_latest_snapshot` orders a number and its successor rightly even when the
successor is the overflow to zero, if there are at least three numbers.

**OpenLockProofs** proves the three invariants of the run `open_lock` for any
number of processes, inodes and calls, any settings of the waits, any files found
and any set of mechanisms.  The assumption says only that `None` is none of
the others.  `IInv` consists of `TypeOK`, `NoStrayLock` and

* `DescsRight`: descriptors are open exactly while they are needed, and the new
  file of a recovery is known to nobody else before it gets the name;
* `LocksRight`: a lock is of the kind its holder's mode asks for, and two locks of
  different processes on one file are both shared;
* `LocksHeld`: whoever is past the lock call holds the lock, in a recovery both;
* `CreatesAsWriter`: a reader never gets to creating a database;
* `FilesRight`: the header in memory is the one in the file.

Which mechanism a process uses depends on the file system only, so that two
processes that want one file use the same (`SameKind`) and see one another's locks.
Two processes inside one file therefore both hold shared locks, so both are
readers (`AloneFromLocks`), and what is written to a file is written by one who is
alone in it, which keeps the headers of the others.

**HashDirProofs** proves type correctness, `DirRegular`, `EveryKeyFound` and the
refinement of KVStore, for every hash function, every number of slots and of bits.
`IInv` says that the directory is well formed (`GoodDir`: the entries of a bucket
are exactly those that agree in its first bits, every element is in the bucket
its hash value leads to, and every table is good) and that the key a split makes
room for is in no bucket.  A table is good if probing finds every element
(`Closed`), no key is there twice, and there is a slot that no element's chain
passes (`Cut`), without which closing the gap of a deleted element would not be
right.  The steps of the argument:

* `GapInv` is the loop invariant of the moves that follow a deletion, `Moved` that
  of the distribution of a full bucket over the two halves;
* `Halved` and `HalfOf` relate the bit of the hash value that divides the elements
  to the halves of the bucket's range in the directory, and doubling the
  directory keeps both;
* gdbm_count and gdbm_bucket_count step over a bucket's range to the next one:
  `Counts` shows that each bucket is counted once;
* for the refinement, `Walk` says that the keys a walk has seen are those up to the
  place of the last one, in the order of directory and slot, where a bucket
  stands at the first of its entries (`FstOf`).  The next key is the least one
  behind it, so that the walk ends exactly when all have been seen.  What the
  other calls do to `Contents` is one lemma for each.

Loops over slots and directory entries are recursive functions.  What they compute
is proved without an induction theorem: a set of natural numbers has a least
element, so a least counterexample can be named and refuted.

**BucketCacheProofs** proves the six invariants of the run `bucket_cache` for any
number of addresses, any cache sizes, and any sequence of lookups, splits, failures
and resizes.  The hypothesis `SoundModes` excludes the behaviours of findings 1 and 2
of section 5 and nothing else, in which the invariants are false: a failing split
that separates changed elements (`gap`), and a resize in the presence of elements that
an eviction has taken out of their chains (`resize` with `stale_slot`).  The modes
of the run satisfy it.  `IInv` is `GoodCache`:

* the list (`GoodList`): no address twice among the elements in the table, changed
  elements first, a changed element is the newest content of its bucket, what is
  in the table is the newest content, addresses of abandoned buckets apart, and
  without stale slots everything is in the table;
* `Written`: the newest content of every bucket is in the file or in a changed element;
* `Holds`: the chains hold exactly the elements in the table, each once and in its
  chain;

and `Held`: while a call works on it, the current bucket is the first of the list.
In the midst of a split `Ordered` holds from the second position on, which is the
parameter `p` of `GoodList`.  `Sublist` lets evictions, flushes and resizes be
treated alike: each leaves a part of the list in its order.

**FileAllocProofs** proves the four invariants of the run `file_alloc` for every
size of blocks, elements, header and bucket tables, areas and directories, every
number of calls and every history of the file.  The hypothesis `~FromWithStack`
excludes the behaviour of finding 3 and nothing else, in which the invariants are
false: the conversion to the standard format while there are blocks on the stack.
The assumptions are those of FileAlloc: `SizesAssumption` gives the ranges, and
`TableRoomAssumption` says that half of the header table has room for what the
freeing of one extent can bring in, which holds for every block size the library
admits.  `IInv` is

* `World`: the descriptor is well formed (`Shape`: tables sorted, within bounds, of
  disjoint extents; blocks on the stack at least as long as pop_avail_block will
  take them to be), and the bytes of the header table, the current bucket's table,
  the stack, the other buckets' tables and what is in use are disjoint
  (`Exclusive`), all before `next_block`;
* `Separate` and `AreasOK`: so are the claims of what is in use;
* `CallOK`: what a call leaves behind, and what a split under way keeps.

There is one lemma for each function of `falloc.c`.  `Good(d, n, F)` is its
contract: the descriptor `d` is in order and the bytes `F` belong to others;
`Spare(d, n, F, e)` says that `e` belongs to nobody, which is what `_gdbm_free`
requires of an extent and `_gdbm_alloc` promises of one (`FreeGood`, `AllocGood`).
`LookupDivides` is the binary search: an index that divides the table.  Coalescing
keeps the bytes (`Merging` is the invariant of its loop).  `PushGood` rests on
`HalfLeavesRoom`, and so does `PushNeverNests`: the recursion between
`_gdbm_free` and `push_avail_block` is one deep.  While `pop_avail_block` loads a
block, that block and the rest of the stack belong to the others.  A conversion
to the extended format makes blocks shorter and never longer, so that what is on
the stack stays readable.  Loops are handled by `CountUp`: a property that zero
has and that every iteration passes on holds at the end.

**RecoverProofs** proves `LimitsHold`, `OneCopy` and `RecoverKeeps` for any
database, directory, damage, limits and failures.  `IInv` adds `Walk` (what the
walk over the directory has passed is in the new file or was missed), `Source` (the
old file does not change under it), `Limits` (every comparison for equality came
out unequal, so every counter is still below its limit), `Names` (the name leads
to no file only while a backup is there), and `Written` (the new file has on disk
all that its handle sees, unless a bucket could not be written; `WritesMeans` is
the step).  `OneCopy` is about what is on disk, so that it covers a kill right
after the rename; the exception is finding 16.

**MappedIOProofs** proves `RightBytes`, `CachedSizeRight`, `PagesEnough` and
`SyncCovers` for every size of pages and blocks, every limit of the window and any
number of failing calls.

* `RightBytes`: the strengthening `InPlace` says that in the midst of an access the
  place in the file, `mapped_off + mapped_pos` or the offset of the descriptor, is
  the address of the area plus the bytes done, also where the file was extended,
  and the descriptor moved, before `mmap` failed; the lemma `PageAligned` shows that
  aligning the window moves offset and position by the same amount.
* `CachedSizeRight`: `SizeKept` says that while a call writes the size is reset, or
  the file holds the area already and will not grow.  The exception is a `calloc`
  that has failed (`starved`, finding 15), which `SyncCovers` shares.
* `PagesEnough`: `Backed` says that there are pages behind the window and that reads
  stay inside the file.  Aligning may put `mapped_pos` behind `mapped_size`
  (finding 8); the unsigned difference then makes the rest of the call one piece,
  and `RoundUpRest` shows that the pages the kernel maps still hold it when the
  file ends at a page.
* `SyncCovers`: `Unlimited` says that the window begins at the start of the file and
  holds every byte that was written.  There may be none while the mapping is on only
  when nothing was written, or between the seek that gave it up and the first byte of
  the call (`GivenUp`): what was written is then before the new place, and the next
  window reaches from the start of the file to the end of the call.  A call that
  falls back to plain writes has no window, and a sync is then an `fsync`.  The
  largest `size_t` acts as no limit only while files stay below it, which is what
  `SizeMaxAssumption` says; `Bounded` shows that they do.  It has to count failures:
  the size a failed `mmap` leaves behind in `mapped_size` (the second exception of
  `PagesEnough`) is added to what the next call asks for, so that the file can grow
  by that much each time (`Grown`).  `limited` is a history variable; once a limit was
  set the property is false, also after it is lifted (finding 14).

Only model-checked:

* liveness (`CallsReturn`, `OpenReturns`, `AccessReturns`, `RecoverReturns`,
  `LoadReturns`): the prover does not handle fairness;
* `LostOnlyByPop` of FileAlloc: the invariant says that nothing has two owners, not
  that everything has one, which is false where `IGNORE_SIZE` is above zero and
  remainders up to that size are dropped; the run has it at zero;
* `RoundTrip` of DumpLoad: what the recursive conversions compute for every text
  needs induction over data.

## 5. Findings

Findings 1, 3 and 4 have runs of their own.  For the others, adding the property
named to the configuration named shows a behaviour that violates it.

1. *Stale slot in the bucket cache* (`bucket.c:303-335`, run
   `cache_stale_slot`).  The place in a collision chain found before an eviction
   is used after it, even if the eviction freed the element that contains it.
   The new element is then in no chain; later a second one for the same address
   appears, and the places marked "shouldn't happen" are reached.
   `bucket_cache` shows that everything holds without such evictions, and that
   no stale data is found with them while the capacity is fixed.
2. *Failing split* (`bucket.c:519`; invariant `AllWritten` or `ChangedFirst` in
   `MCBucketCache.cfg`, with `Modes <- MCGapModes`).  Without memory for the second
   bucket of a further iteration, the first one stays in the list, unchanged,
   before a changed bucket, which a flush then does not reach.
3. *Conversion to the standard format with a non-empty avail stack*
   (`gdbmopen.c:841`, `falloc.c:190`, run `alloc_convert`).  The size of a
   stacked block is computed from the length of the header table when it is
   popped, not when it was pushed.
4. *A directory at the end of the file* (`gdbmopen.c:102` and 148, run
   `alloc_reopen`) is rejected when the database is opened again.
5. *A snapshot after a failed one* (`gdbmsync.c:96`; invariant `BadOnlyAtStart` in
   `MCSnapshot.cfg`) is written over the last good one, so that a crash may leave
   none.
6. *The size of the file is read before the lock is taken* (`gdbmopen.c:315`;
   invariant `UpdatesKept` in `MCOpenLock.cfg`).  A process that opens with
   `GDBM_WRCREAT` and finds the file empty creates the database again after it
   has waited for the process that was creating it.
7. *The alarm fires before the lock call* (`lock.c:336-337`; property
   `TimedOpenReturns` in `MCOpenLock.cfg`), and the call waits without limit.
8. *The last window of a limited mapping ends too early* (`mmap.c:200-201`;
   property `ReadWhole` in `MCMappedIO.cfg`, with `Areas <- MCLastPage` and
   `Limits = {4}`): the size is computed before the offset is aligned.
9. *`gdbm_reorganize` drops what it cannot read and returns success*
   (`gdbmreorg.c:38`; property `ReorganizeWhole` in `MCRecover.cfg`): a limit of
   zero is never equal to a counter that was just incremented.
10. *`need_recovery` is cleared by a later error that is not fatal*
   (`gdbmerrno.c:49`, `update.c:67`; invariant `DamageKnown` in `MCRecover.cfg`).
11. *A dump cut off inside a parameter line may be taken for a whole one*
    (`gdbmload.c:104-113`; invariant `TornNoticed` in `MCDumpLoad.cfg`).
12. *Dumps of version 1.18 are refused* (`gdbmload.c:551`; invariant `OldDumpsLoad` in
    `MCDumpLoad.cfg`), although the code means to accept them.
13. *`gdbm_load` may report a mild error after a failed load*
    (`tools/gdbm_load.c:317`; invariant `MildIsWhole` in `MCDumpLoad.cfg`).
14. *A limited mapping is synced in part* (`mmap.c:399`; invariant `SyncWhole` in
    `MCMappedIO.cfg`).
    `gdbm_sync` promises that the database is all on disk, but `_gdbm_mapped_sync`
    calls `msync` for the window of the moment only.  What was written through an
    earlier window is left out, and so is what was written by plain calls before
    `GDBM_SETMAXMAPSIZE`, which maps a window even while the mapping is switched off.
    Without a limit there is no such gap (`SyncCovers`), finding 15 apart.
15. *The cached size after a failed `calloc`* (`fullio.c:102-110`, `mmap.c:311`;
    invariant `SizeAlwaysRight` in `MCMappedIO.cfg`).  The size is fetched again by
    the remap inside the write that has reset it.  If `_gdbm_file_extend` then has no
    memory for its buffer, it fails before it resets the size; the error is not
    fatal, and the plain write that takes over extends the file.  The window stays
    mapped, too, so that a sync calls `msync` for it and not `fsync`.
16. *The new file of a recovery may be incomplete on disk* (`recover.c:100`,
    `update.c:67`; invariant `OneCopyOnDisk` in `MCRecover.cfg`).  That a bucket could
    not be written, or the sync failed, does not stop the rename over the old file.
17. *The loader does not end when data are missing after a length*
    (`gdbmload.c:130-132`; property `EveryLoadReturns` in `MCDumpLoad.cfg`).  A dump
    that fails in `print_datum` leaves such a file, finished by the number of records
    (`gdbmdump.c:101-120`).

Not findings, but the exceptions of `LostOnlyByPop`, both reached in the run
`file_alloc`: `pop_avail_block` may lose the block it pushes itself
(`falloc.c:248` overwrites the link to it), and it loses the end of a block that
was pushed before a conversion to the extended format (`falloc.c:190-194`).  In the
same way `PagesEnough` names the two cases in which `memcpy` may leave the mapped
pages.

## 6. Not modelled

* A failing write during an eviction (`bucket.c:329`): the error is fatal, and
  later calls are refused.  Failing reads and writes elsewhere are in Recover, on
  whole buckets.
* The hash function (a parameter), the computation of block sizes, the options
  that only read a setting, `GDBM_CLOEXEC`, messages.
* The compatibility layer: wrappers round the library calls.
* The tools except the main program of `gdbm_load`: a shell with its lexer, parser,
  variables and pager, text processing without database state of its own.
* Debugging, version, access to the descriptor.

## 7. What is left

1. **BucketCache** with buckets that cannot be read or written.
2. **HashDir** on top of HashBucket and BucketCache, so that the results they
   promise to it are shown and not assumed.
