------------------------------- MODULE MappedIO -------------------------------
(***************************************************************************)
(* Input and output through a window mapped into memory: mmap.c, fullio.c, *)
(* _gdbm_file_size, and the options that switch the mapping and limit it.  *)
(*                                                                         *)
(* A call seeks to an area and reads or writes all of it; one step is one  *)
(* iteration of the loop of _gdbm_mapped_read or _gdbm_mapped_write.  The  *)
(* bytes of the file have no value here: what matters is which of them a   *)
(* call reaches, at which addresses of the mapping, and which of them are  *)
(* not yet on disk.                                                        *)
(*                                                                         *)
(* Of the calls made for an access these may fail: fstat, calloc, the      *)
(* write that extends the file, mmap, and the plain read or write.         *)
(* lseek and munmap do not fail on the open file, and an extending write   *)
(* that fails is as if nothing had been written.                           *)
(***************************************************************************)
EXTENDS Integers, Sequences, FiniteSetsExt

CONSTANTS
    PageSize,    \* sysconf (_SC_PAGESIZE)
    Block,       \* the file grows by multiples of this size
    InitSize,    \* size of the database when it is opened
    MaxSize,     \* bound on next_block
    Areas,       \* areas read and written: address and length
    Limits,      \* values given to GDBM_SETMAXMAPSIZE
    SizeMax,     \* SIZE_T_MAX
    MaxFails     \* bound on the system calls that fail

ASSUME ConstAssumption ==
    /\ PageSize \in Nat \ {0} /\ Block \in Nat \ {0}
    /\ InitSize \in Nat \ {0} /\ MaxSize \in Nat /\ SizeMax \in Nat
    /\ MaxSize < SizeMax /\ PageSize <= SizeMax
    /\ Areas \subseteq Nat \X (Nat \ {0}) /\ Limits \subseteq Nat
    /\ MaxFails \in Nat

\* Files are far smaller than SIZE_T_MAX.
ASSUME SizeMaxAssumption == InitSize + (MaxFails + 1) * MaxSize <= SizeMax

VARIABLES
    reader,           \* dbf->read_write is GDBM_READER
    size,             \* the size of the file
    file_size,        \* dbf->file_size: that size, or -1 if it has to be asked for
    next_block,       \* dbf->header->next_block
    m,                \* mapped_region (whether there is one), mapped_size,
                      \* mapped_pos, mapped_off
    pages,            \* bytes of memory behind mapped_region
    memory_mapping,
    mapped_size_max,
    limited,          \* history: GDBM_SETMAXMAPSIZE has been called
    fd_pos,           \* the offset of the descriptor
    op,               \* the call being served: kind, adr, len
    got,              \* the offsets in the file it has reached, in order
    dirty,            \* bytes of the file that are not on disk
    fault,            \* memory outside the mapping was touched
    starved,          \* history: calloc has failed in _gdbm_file_extend
    need_recovery,
    fails

vars == <<reader, size, file_size, next_block, m, pages, memory_mapping, mapped_size_max, limited,
          fd_pos, op, got, dirty, fault, starved, need_recovery, fails>>

Idle == [kind |-> "idle", adr |-> 0, len |-> 0]
NoMap == [region |-> FALSE, size |-> 0, pos |-> 0, off |-> 0]

\* What may fail while the window is moved, or nothing.
Faults == {"none", "fstat", "calloc", "write", "mmap"}

\* No call is under way, and the database may be used.  What a caller meets who
\* goes on after calloc failed is left out, like what follows after memory outside
\* the mapping was touched.
Usable == op = Idle /\ ~need_recovery /\ ~fault /\ ~starved

\* _GDBM_MMAPPED_POS
Pos(w) == w.off + w.pos
Left == op.len - Len(got)
RoundUp(n, unit) == ((n + unit - 1) \div unit) * unit
Bytes(from, to) == from .. to - 1

\* Mutant of Invalid: the size is kept.
InvalidNot(n) == n

\* dbf->file_size = -1, when the size of the file may change from n.
Invalid(n) == -1

\* _gdbm_file_extend: zeros up to n.
Extended(n) == IF size < n THEN n ELSE size

-----------------------------------------------------------------------------
(* _gdbm_mapped_remap. *)

\* _gdbm_internal_remap: the window begins at a page; its size stays n.
Window(w, n) ==
    IF n = 0 THEN [w EXCEPT !.region = FALSE, !.size = 0]
    ELSE [region |-> TRUE, size |-> n,
          pos |-> w.pos + (w.off % PageSize), off |-> (w.off \div PageSize) * PageSize]

\* Mutant of Placed: the window begins at the current position in any case.
PlacedAtPos(n, fs, max) ==
    [w |-> [m EXCEPT !.off = Pos(m), !.pos = 0],
     n |-> IF Pos(m) + max > fs THEN fs - Pos(m) ELSE max]

\* The window asked of _gdbm_internal_remap, in a file of fs bytes: all of the
\* file up to n, or as much as the limit allows from the current position on.
Placed(n, fs, max) ==
    IF n > max
    THEN [w |-> [m EXCEPT !.off = Pos(m), !.pos = 0],
          n |-> IF Pos(m) + max > fs THEN fs - Pos(m) ELSE max]
    ELSE [w |-> [m EXCEPT !.pos = Pos(m), !.off = 0], n |-> n]

\* fstat is called for the size of the file, and fails.
Unknown(fail) == file_size = -1 /\ fail = "fstat"

\* What _gdbm_mapped_remap (dbf, want, flag) does if this call fails: the result and
\* the new window, size of the file, memory behind the window and recovery flag.
\* The mmap may fail when the file has been extended.
Remap(want, flag, max, fail) ==
    LET n0 == IF flag = "end" /\ want < size THEN size ELSE want
        grows == ~reader /\ n0 > size /\ flag # "default"
        n == IF reader /\ n0 > size THEN size
             ELSE IF grows /\ n0 < next_block THEN next_block ELSE n0
        fs == IF grows THEN Extended(n) ELSE size
        place == Placed(n, fs, max)
        same == [rc |-> 0, m |-> m, pages |-> pages, size |-> size, fatal |-> FALSE]
        moved == Window(place.w, place.n)
        asked == want >= m.size /\ ~Unknown(fail)
    IN CASE want < m.size -> same
         [] want >= m.size /\ Unknown(fail) ->
              [same EXCEPT !.rc = -1, !.m = IF m.region THEN NoMap ELSE m, !.pages = 0]
         [] asked /\ ~reader /\ n0 > size /\ flag = "default" -> same
         [] asked /\ reader /\ n = m.off + m.size -> same
         [] asked /\ grows /\ fail = "calloc" -> [same EXCEPT !.rc = -1]
         [] asked /\ grows /\ fail = "write" -> [same EXCEPT !.rc = -1, !.fatal = TRUE]
         [] OTHER ->
              IF Pos(m) > fs
              THEN [same EXCEPT !.rc = -1, !.m = place.w, !.size = fs, !.fatal = TRUE]
              ELSE IF fail = "mmap" /\ place.n # 0
              THEN [same EXCEPT !.rc = -1, !.m = [moved EXCEPT !.region = FALSE],
                                !.pages = 0, !.size = fs]
              ELSE [same EXCEPT !.m = moved, !.pages = RoundUp(moved.size, PageSize), !.size = fs]

Init ==
    /\ reader \in BOOLEAN
    /\ size = InitSize /\ next_block = InitSize
    /\ file_size = InitSize
    /\ memory_mapping = TRUE
    /\ mapped_size_max = SizeMax /\ limited = FALSE
    /\ m = [region |-> TRUE, size |-> InitSize, pos |-> 0, off |-> 0]
    /\ pages = RoundUp(InitSize, PageSize)
    /\ fd_pos = 0
    /\ op = Idle
    /\ got = <<>>
    /\ dirty = {}
    /\ fault = FALSE
    /\ starved = FALSE
    /\ need_recovery = FALSE
    /\ fails = 0

-----------------------------------------------------------------------------
(* One access: a seek, then _gdbm_full_read or _gdbm_full_write. *)

\* _gdbm_mapped_lseek: the window is given up if the offset is outside of it.
\* _gdbm_mapped_unmap resets nothing when there is no region.
Sought(a) ==
    IF m.off <= a /\ a - m.off < m.size
    THEN [m EXCEPT !.pos = a - m.off]
    ELSE [region |-> FALSE, size |-> IF m.region THEN 0 ELSE m.size, pos |-> 0, off |-> a]

\* The areas are those _gdbm_alloc gives: inside the file, or at its end.
Begin(kind, a, len) ==
    /\ Usable
    /\ IF kind = "read" THEN a + len <= size ELSE ~reader /\ a <= next_block
    /\ op' = [kind |-> kind, adr |-> a, len |-> len]
    /\ next_block' = IF a + len <= next_block THEN next_block ELSE RoundUp(a + len, Block)
    /\ next_block' <= MaxSize
    /\ file_size' = IF kind = "write" THEN Invalid(file_size) ELSE file_size
    /\ IF memory_mapping
       THEN m' = Sought(a) /\ pages' = (IF m'.region THEN pages ELSE 0) /\ UNCHANGED fd_pos
       ELSE fd_pos' = a /\ UNCHANGED <<m, pages>>
    /\ UNCHANGED <<reader, size, memory_mapping, mapped_size_max, limited, got, dirty, fault,
                   starved, need_recovery, fails>>

\* _GDBM_NEED_REMAP
NeedRemap == ~m.region \/ m.pos = m.size

Flag == IF op.kind = "write" THEN "extend" ELSE "default"

\* The call returns; every call seeks first, so the offset of the descriptor is
\* of no more use.
Finish ==
    /\ op' = Idle
    /\ got' = <<>>
    /\ fd_pos' = 0

\* cnt bytes at offset from have been reached.
Reach(from, cnt) ==
    /\ got' = got \o [i \in 1 .. cnt |-> from + i - 1]
    /\ dirty' = IF op.kind = "write" THEN dirty \cup Bytes(from, from + cnt) ELSE dirty

\* Mutant of Piece: the rest of the window is not looked at.
PieceLeft(w) == Left

\* nbytes, an unsigned difference.
Piece(w) == IF w.pos > w.size THEN Left ELSE Min({Left, w.size - w.pos})

\* Mutant of Exhausted: the loop goes on.
ExhaustedNot(w) == FALSE

\* Nothing is left of the window: the loop is left and the call ends with
\* GDBM_FILE_EOF or ENOSPC.
Exhausted(w) == Piece(w) = 0

\* memcpy at mapped_pos.
Copy(w, behind) ==
    /\ Reach(Pos(w), Piece(w))
    /\ m' = [w EXCEPT !.pos = @ + Piece(w)]
    /\ fault' = (fault \/ ~w.region \/ w.pos + Piece(w) > behind)

\* The offset of the descriptor: _gdbm_file_extend leaves it at the end.
Descriptor(r) == IF r.size # size THEN r.size ELSE fd_pos

\* Mutant of FallBack: no lseek.
FallBackNot(r) == Descriptor(r)

\* lseek, before the plain calls take over.
FallBack(r) == Pos(m)

\* An iteration with the memory mapping on.
MappedStep ==
    /\ op # Idle /\ memory_mapping /\ Left > 0
    /\ \E fail \in Faults :
         LET want == m.off + m.size + Left
             r == IF NeedRemap THEN Remap(want, Flag, mapped_size_max, fail)
                  ELSE [rc |-> 0, m |-> m, pages |-> pages, size |-> size, fatal |-> FALSE]
         IN /\ \/ fail = "none"
               \/ NeedRemap /\ fails < MaxFails
                  /\ r # Remap(want, Flag, mapped_size_max, "none")
            /\ fails' = IF fail = "none" THEN fails ELSE fails + 1
            /\ size' = r.size
            /\ pages' = r.pages
            /\ file_size' = IF ~NeedRemap \/ Unknown(fail) THEN file_size
                           ELSE IF r.size # size \/ fail = "write" THEN Invalid(size) ELSE size
            /\ starved' = (starved \/ fail = "calloc")
            /\ need_recovery' = (need_recovery \/ r.fatal)
            /\ CASE r.rc = 0 /\ ~Exhausted(r.m) ->
                      /\ Copy(r.m, r.pages)
                      /\ fd_pos' = Descriptor(r)
                      /\ UNCHANGED <<op, memory_mapping>>
                 [] r.rc = 0 /\ Exhausted(r.m) ->
                      /\ m' = r.m
                      /\ Finish
                      /\ UNCHANGED <<memory_mapping, dirty, fault>>
                 [] r.rc # 0 /\ r.fatal ->
                      /\ m' = r.m
                      /\ Finish
                      /\ UNCHANGED <<memory_mapping, dirty, fault>>
                 [] OTHER ->     \* the plain call from now on
                      /\ m' = r.m
                      /\ memory_mapping' = FALSE
                      /\ fd_pos' = FallBack(r)
                      /\ UNCHANGED <<op, got, dirty, fault>>
            /\ UNCHANGED <<reader, next_block, mapped_size_max, limited>>

\* read and write on the descriptor; they may do less than they are asked for.
PlainStep ==
    /\ op # Idle /\ ~memory_mapping /\ Left > 0
    /\ \E cnt \in {1, Left} :
         /\ op.kind = "read" => fd_pos + cnt <= size
         /\ Reach(fd_pos, cnt)
         /\ fd_pos' = fd_pos + cnt
         /\ size' = Extended(fd_pos + cnt)
    /\ UNCHANGED <<reader, file_size, next_block, m, pages, memory_mapping, mapped_size_max, limited,
                   op, fault, starved, need_recovery, fails>>

\* read or write fails.  A failing write is a fatal error unless an earlier error is
\* still recorded, such as that of the mmap before it.
PlainFails ==
    /\ op # Idle /\ ~memory_mapping /\ Left > 0
    /\ fails < MaxFails /\ fails' = fails + 1
    /\ Finish
    /\ need_recovery' \in {need_recovery, need_recovery \/ op.kind = "write"}
    /\ UNCHANGED <<reader, size, file_size, next_block, m, pages, memory_mapping, mapped_size_max,
                   limited, dirty, fault, starved>>

Done ==
    /\ op # Idle /\ Left = 0
    /\ Finish
    /\ UNCHANGED <<reader, size, file_size, next_block, m, pages, memory_mapping, mapped_size_max,
                   limited, dirty, fault, starved, need_recovery, fails>>

-----------------------------------------------------------------------------
(* Syncing and options. *)

\* _gdbm_mapped_sync: msync of the window, or fsync.
Unsynced == IF m.region THEN dirty \ Bytes(m.off, m.off + m.size) ELSE {}

Sync ==
    /\ op = Idle /\ ~reader
    /\ dirty' = Unsynced
    /\ UNCHANGED <<reader, size, file_size, next_block, m, pages, memory_mapping, mapped_size_max,
                   limited, fd_pos, op, got, fault, starved, need_recovery, fails>>

\* mapped_size_max as _gdbm_mapped_init leaves it: zero lifts the limit.
Limit(n) == IF RoundUp(n, PageSize) = 0 THEN SizeMax ELSE RoundUp(n, PageSize)

\* _gdbm_mapped_init with this limit; rc is its result.  The file does not grow.
MappedInit(max, rc) ==
    \E fail \in {"none", "fstat", "mmap"} :
        LET r == Remap(0, "end", max, fail)
        IN /\ fail = "none" \/ (fails < MaxFails /\ r # Remap(0, "end", max, "none"))
           /\ fails' = IF fail = "none" THEN fails ELSE fails + 1
           /\ m' = r.m
           /\ pages' = r.pages
           /\ file_size' = IF m.size # 0 \/ Unknown(fail) THEN file_size ELSE size
           /\ need_recovery' = (need_recovery \/ r.fatal)
           /\ rc = r.rc

\* GDBM_SETMMAP, which syncs first.
SetMmap(on) ==
    /\ Usable
    /\ dirty' = Unsynced
    /\ CASE on = memory_mapping -> UNCHANGED <<m, pages, file_size, memory_mapping, need_recovery, fails>>
         [] on /\ ~memory_mapping ->
              \E rc \in {0, -1} : MappedInit(mapped_size_max, rc) /\ memory_mapping' = (rc = 0)
         [] ~on /\ memory_mapping ->
              /\ m' = IF m.region THEN NoMap ELSE m
              /\ pages' = 0
              /\ memory_mapping' = FALSE
              /\ UNCHANGED <<file_size, need_recovery, fails>>
    /\ UNCHANGED <<reader, size, next_block, mapped_size_max, limited, fd_pos, op, got, fault, starved>>

\* GDBM_SETMAXMAPSIZE: takes effect when the window is moved next, or at once if
\* nothing is mapped; the result of _gdbm_mapped_init is ignored.
SetMaxMapSize(n) ==
    /\ Usable
    /\ mapped_size_max' = Limit(n) /\ limited' = TRUE
    /\ \E rc \in {0, -1} : MappedInit(Limit(n), rc)
    /\ UNCHANGED <<reader, size, next_block, memory_mapping, fd_pos, op, got, dirty, fault, starved>>

Step == MappedStep \/ PlainStep \/ PlainFails \/ Done

Next ==
    \/ \E kind \in {"read", "write"}, area \in Areas : Begin(kind, area[1], area[2])
    \/ Step
    \/ Sync
    \/ \E on \in BOOLEAN : SetMmap(on)
    \/ \E n \in Limits : SetMaxMapSize(n)

\* A call that has begun goes on.
Spec == Init /\ [][Next]_vars /\ WF_vars(Step)

-----------------------------------------------------------------------------
(* Properties. *)

\* Through every move of the window, its alignment to a page, a change of the
\* limit, a switch of the mapping and the fall back to plain calls, also when the
\* file has been extended before mmap fails, a call reaches exactly the bytes of its
\* area, in order (mmap.c:99-100, 239-276, 300-314).
RightBytes ==
    op # Idle => /\ Len(got) <= op.len
                 /\ \A i \in 1 .. Len(got) : got[i] = op.adr + i - 1

\* memcpy stays inside the pages that are mapped (mmap.c:271, 324), as long as
\* the file, extended for this access or not, ends at a page and mapped_size is
\* not left over from an mmap that failed before GDBM_SETMMAP switched the mapping
\* on again.
PagesEnough ==
    [][fault' /\ ~fault => size' % PageSize # 0 \/ (~m.region /\ m.size > 0)]_vars

\* The size kept in dbf->file_size is the size of the file: everything that
\* changes the latter resets the former (fullio.c:58, 110), unless calloc has failed
\* and a plain write has extended the file in place of _gdbm_file_extend.
CachedSizeRight == op = Idle /\ ~starved => file_size \in {-1, size}

\* "Cached value of the current disk file size" (gdbmdefs.h:311), whatever fails.
SizeAlwaysRight == op = Idle => file_size \in {-1, size}

\* As long as no limit was set to the size of the mapping, msync of the window
\* reaches all that was written: _gdbm_mapped_sync (mmap.c:394) leaves nothing behind,
\* whichever mmap, fstat or write has failed; only a failed calloc leaves the window
\* mapped while plain calls take over.
SyncCovers == op = Idle /\ ~limited /\ ~starved => Unsynced = {}

\* gdbm_sync: "Make sure the database is all on disk" (gdbmsync.c:456), whatever the
\* size of the mapping.
SyncWhole == op = Idle => Unsynced = {}

\* Every access returns; none waits in the loops of fullio.c for bytes that a
\* window of no bytes cannot give.
AccessReturns == op # Idle ~> op = Idle

\* _gdbm_full_read "reads exactly SIZE bytes" (fullio.c:20): an area inside the
\* file is read to its end, if no call fails.
ReadWhole == [][op.kind = "read" /\ op' = Idle /\ fails' = fails => Left = 0]_vars

=============================================================================
