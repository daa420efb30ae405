------------------------------ MODULE Snapshot ------------------------------
(***************************************************************************)
(* Crash tolerance (gdbmsync.c): every gdbm_sync copies the database into  *)
(* one of two snapshot files, even and odd in turn, whose permission bits  *)
(* say which one is complete; after a crash gdbm_latest_snapshot chooses.  *)
(*                                                                         *)
(* A system call is a step and may fail.  A crash is not a step: a file    *)
(* keeps what fsync has committed, and of what was done since anything or  *)
(* nothing, so the variables hold the sets of what a crash may leave, and  *)
(* the properties speak about each of the outcomes.                        *)
(***************************************************************************)
EXTENDS Integers

CONSTANTS
    MaxCopies,   \* bound on the number of snapshots made
    UintMod      \* UINT_MAX + 1, for numsync

ASSUME BoundAssumption == MaxCopies \in Nat /\ UintMod \in Nat \ {0, 1, 2}

File == {0, 1}   \* even, odd
Mode == {"read", "write"}   \* S_IRUSR, S_IWUSR

VARIABLES
    mode,     \* mode[f]: permission bits of file f
    modes,    \* modes[f]: those a crash may leave
    data,     \* data[f]: its content
    datas,    \* datas[f]: those a crash may leave
    eo,       \* dbf->eo
    extended, \* the database has the extended header, with numsync
    numsync,  \* xheader->numsync
    clock,    \* the time a file modified now gets
    ver,      \* number of the latest snapshot begun
    done,     \* number of the latest snapshot whose call returned success
    start,    \* the call in progress is gdbm_failure_atomic
    failed,   \* the latest snapshot failed
    spoilt,   \* a snapshot was begun after one that failed
    pc        \* "off", "idle", or the next step of _gdbm_snapshot

files == <<mode, modes, data, datas>>
vars == <<mode, modes, data, datas, eo, extended, numsync, clock, ver, done, start,
          failed, spoilt, pc>>

\* What is in a snapshot file: a complete copy, numbered, with the numsync and
\* the mtime it got; or nothing, or a part of a copy.
Copy == [ver : 0 .. MaxCopies, numsync : 0 .. UintMod - 1, mtime : Nat]
Torn == [ver |-> -1, numsync |-> 0, mtime |-> 0]

Init ==
    /\ mode = [f \in File |-> "write"]
    /\ modes = [f \in File |-> {"write"}]
    /\ data = [f \in File |-> Torn]
    /\ datas = [f \in File |-> {Torn}]
    /\ eo = 0
    /\ extended \in BOOLEAN
    /\ numsync \in 0 .. UintMod - 1
    /\ clock = 0
    /\ ver = 0
    /\ done = 0
    /\ start = FALSE
    /\ failed = FALSE
    /\ spoilt = FALSE
    /\ pc = "off"

(* The system calls. *)

Toggle(e) == 1 - e

\* Mutant of Fsync: does nothing.
FsyncNot(f) == UNCHANGED files

Fchmod(f, m) ==
    /\ mode' = [mode EXCEPT ![f] = m]
    /\ modes' = [modes EXCEPT ![f] = @ \cup {m}]
    /\ UNCHANGED <<data, datas>>

Fsync(f) ==
    /\ modes' = [modes EXCEPT ![f] = {mode[f]}]
    /\ datas' = [datas EXCEPT ![f] = {data[f]}]
    /\ UNCHANGED <<mode, data>>

Write(f, c) ==
    /\ data' = [data EXCEPT ![f] = c]
    /\ datas' = [datas EXCEPT ![f] = @ \cup {Torn, c}]
    /\ UNCHANGED <<mode, modes>>

-----------------------------------------------------------------------------
(* The file that is written, and the previous snapshot, once eo is toggled. *)
Snap == Toggle(eo)
OldSnap == eo

\* Mutant of IncNumsync: the counter is not an unsigned int.
IncNumsyncWide(n) == n + 1

\* xheader->numsync++
IncNumsync(n) == (n + 1) % UintMod

\* _gdbm_snapshot begins.
Begin ==
    /\ ver < MaxCopies
    /\ ver' = ver + 1
    /\ pc' = "mark"

\* gdbm_failure_atomic: two new files, committed with fsync_to_root.
FailureAtomic ==
    /\ pc \in {"off", "idle"}
    /\ Begin
    /\ mode' = [f \in File |-> "write"]
    /\ modes' = [f \in File |-> {"write"}]
    /\ data' = [f \in File |-> Torn]
    /\ datas' = [f \in File |-> {Torn}]
    /\ eo' = Toggle(0)
    /\ start' = TRUE
    /\ failed' = FALSE
    /\ spoilt' = FALSE
    /\ UNCHANGED <<extended, numsync, clock, done>>

\* gdbm_sync, which counts itself in the extended header, or the implicit
\* gdbm_file_sync of _gdbm_end_update and gdbm_close, which does not.
Sync(counted) ==
    /\ pc = "idle"
    /\ Begin
    /\ numsync' = IF counted /\ extended THEN IncNumsync(numsync) ELSE numsync
    /\ eo' = Toggle(eo)
    /\ spoilt' = (spoilt \/ failed)
    /\ UNCHANGED <<files, extended, clock, done, start, failed>>

Step(from, to) ==
    /\ pc = from
    /\ pc' = to
    /\ UNCHANGED <<eo, extended, numsync, ver, done, start, failed, spoilt>>

\* "DON'T recover from this snapshot"
Mark == Step("mark", "commit mark") /\ Fchmod(Snap, "write") /\ UNCHANGED clock

CommitMark == Step("commit mark", "clone") /\ Fsync(Snap) /\ UNCHANGED clock

\* FICLONE.  The clock need not have advanced since the last time.
Clone ==
    /\ Step("clone", "commit data")
    /\ clock' \in {clock, clock + 1}
    /\ Write(Snap, [ver |-> ver, numsync |-> numsync, mtime |-> clock'])

CommitData == Step("commit data", "unmark") /\ Fsync(Snap) /\ UNCHANGED clock

\* "DO recover from this snapshot"
Unmark == Step("unmark", "commit unmark") /\ Fchmod(Snap, "read") /\ UNCHANGED clock

CommitUnmark == Step("commit unmark", "retire") /\ Fsync(Snap) /\ UNCHANGED clock

\* The previous snapshot is obsolete.
Retire == Step("retire", "commit retire") /\ Fchmod(OldSnap, "write") /\ UNCHANGED clock

CommitRetire ==
    /\ pc = "commit retire"
    /\ Fsync(OldSnap)
    /\ pc' = "idle"
    /\ done' = ver
    /\ start' = FALSE
    /\ failed' = FALSE
    /\ UNCHANGED <<eo, extended, numsync, clock, ver, spoilt>>

\* The system call fails and the call returns; gdbm_failure_atomic gives up.
\* A copy that fails may have overwritten a part of the file.
Fail ==
    /\ pc \notin {"off", "idle"}
    /\ \/ UNCHANGED files
       \/ pc = "clone" /\ Write(Snap, Torn)
    /\ pc' = IF start THEN "off" ELSE "idle"
    /\ failed' = TRUE
    /\ UNCHANGED <<eo, extended, numsync, clock, ver, done, start, spoilt>>

\* The file system has no FICLONE (EINVAL, ENOSYS): no more snapshots.
CloneUnsupported ==
    /\ pc = "clone"
    /\ pc' = "off"
    /\ failed' = TRUE
    /\ eo' = 0
    /\ UNCHANGED <<files, extended, numsync, clock, ver, done, start, spoilt>>

\* The bound is reached.
Enough ==
    /\ pc \in {"off", "idle"}
    /\ ver = MaxCopies
    /\ UNCHANGED vars

Next ==
    \/ FailureAtomic
    \/ \E counted \in BOOLEAN : Sync(counted)
    \/ Mark \/ CommitMark \/ Clone \/ CommitData \/ Unmark \/ CommitUnmark
    \/ Retire \/ CommitRetire
    \/ Fail \/ CloneUnsupported
    \/ Enough

Spec == Init /\ [][Next]_vars

-----------------------------------------------------------------------------
(* gdbm_latest_snapshot *)

\* What a crash may leave of the two files.
Outcomes ==
    {[mode |-> m, data |-> d] : m \in {x \in [File -> Mode] : \A f \in File : x[f] \in modes[f]},
                                d \in {<<x, y>> : x \in datas[0], y \in datas[1]}}

Readable(o, f) == o.mode[f] = "read"
DataOf(o, f) == o.data[f + 1]

\* Mutant of NumsyncCmp: forgets the overflow.
NumsyncCmpPlain(a, b) ==
    IF a < b THEN (IF a + 1 = b THEN -1 ELSE -2)
    ELSE IF a > b THEN (IF a = b + 1 THEN 1 ELSE 2)
    ELSE 0

\* gdbm_numsync_cmp of two extended headers.
NumsyncCmp(a, b) ==
    IF a = UintMod - 1 /\ b = 0 THEN -1
    ELSE IF a = 0 /\ b = UintMod - 1 THEN 1
    ELSE IF a < b THEN (IF a + 1 = b THEN -1 ELSE -2)
    ELSE IF a > b THEN (IF a = b + 1 THEN 1 ELSE 2)
    ELSE 0

\* The results that are not GDBM_SNAPSHOT_OK; with it goes a file, 0 or 1.
Suspicious == 2
Same == 3
Bad == 4

\* The choice between two readable snapshots.
Compared(even, odd) ==
    LET cmp == IF extended THEN NumsyncCmp(even.numsync, odd.numsync) ELSE 0
    IN CASE cmp = -1 -> 1
         [] cmp = 1 -> 0
         [] cmp \in {-2, 2} -> Suspicious
         [] cmp = 0 /\ even.mtime < odd.mtime -> 1
         [] cmp = 0 /\ even.mtime > odd.mtime -> 0
         [] cmp = 0 /\ even.mtime = odd.mtime -> Same

Latest(o) ==
    CASE Readable(o, 0) /\ Readable(o, 1) -> Compared(DataOf(o, 0), DataOf(o, 1))
      [] Readable(o, 0) /\ ~Readable(o, 1) -> 0
      [] ~Readable(o, 0) /\ Readable(o, 1) -> 1
      [] ~Readable(o, 0) /\ ~Readable(o, 1) -> Bad

-----------------------------------------------------------------------------
(* Properties. *)

TypeOK ==
    /\ mode \in [File -> Mode]
    /\ modes \in [File -> SUBSET Mode]
    /\ data \in [File -> Copy \cup {Torn}]
    /\ datas \in [File -> SUBSET (Copy \cup {Torn})]
    /\ eo \in File
    /\ extended \in BOOLEAN
    /\ numsync \in 0 .. UintMod - 1
    /\ clock \in Nat
    /\ ver \in 0 .. MaxCopies
    /\ done \in 0 .. ver
    /\ start \in BOOLEAN /\ failed \in BOOLEAN /\ spoilt \in BOOLEAN
    /\ pc \in {"off", "idle", "mark", "commit mark", "clone", "commit data", "unmark",
               "commit unmark", "retire", "commit retire"}

\* A file that can be readable after a crash holds a whole copy, whatever step
\* failed before: its bits say "read" only after the data is on disk, and the
\* data is touched only after "write" is on disk.
WholeIfReadable ==
    \A f \in File : "read" \in modes[f] => Torn \notin datas[f]

\* What makes it inductive: how far the file being written has got at each step
\* of _gdbm_snapshot.
SnapRight ==
    /\ \A f \in File : mode[f] \in modes[f] /\ data[f] \in datas[f]
    /\ pc = "commit mark" => mode[Snap] = "write"
    /\ pc \in {"clone", "commit data", "unmark"} => modes[Snap] = {"write"}
    /\ pc = "commit data" => data[Snap] # Torn
    /\ pc \in {"unmark", "commit unmark"} => Torn \notin datas[Snap]

\* Crash tolerance is on: gdbm_failure_atomic has returned success.
Armed == pc # "off" /\ ~start

\* After a crash at any moment gdbm_latest_snapshot finds a snapshot not older
\* than the last gdbm_sync that returned success, as long as no snapshot was
\* begun after one that failed.  (Two copies with one mtime and no numsync to
\* tell them apart, it reports as such.)
LatestRecovers ==
    Armed /\ ~spoilt =>
        \A o \in Outcomes :
            \/ Latest(o) \in File /\ DataOf(o, Latest(o)).ver >= done
            \/ Latest(o) = Same /\ \A f \in File : DataOf(o, f).ver >= done - 1

\* What makes it inductive.  The copy that is being made, whatever happened before:
Copied ==
    /\ pc \in {"commit data", "unmark", "commit unmark", "retire", "commit retire"} =>
          data[Snap].ver = ver /\ data[Snap].numsync = numsync /\ data[Snap].mtime <= clock
    /\ pc \in {"unmark", "commit unmark", "retire", "commit retire"} => datas[Snap] = {data[Snap]}
    /\ pc = "commit unmark" => mode[Snap] = "read"
    /\ pc \in {"retire", "commit retire"} => modes[Snap] = {"read"}

\* The previous snapshot is on disk, and is the one of the last success.
OldWhole == datas[OldSnap] = {data[OldSnap]} /\ data[OldSnap].ver = done

\* Copy c may have been made right before copy n.
Precedes(c, n) == n.numsync \in {c.numsync, IncNumsync(c.numsync)} /\ c.mtime <= n.mtime

\* The three states of the pair of files after which a crash can be recovered from:
\* only the previous snapshot is readable; both may be, and are known to follow one
\* another; only the newest is.
OnlyOld == OldWhole /\ modes[OldSnap] = {"read"} /\ modes[Snap] = {"write"}
BothInOrder ==
    /\ OldWhole /\ datas[Snap] = {data[Snap]} /\ data[Snap].ver >= done
    /\ Precedes(data[OldSnap], data[Snap])
    /\ modes[OldSnap] = {"read"} \/ modes[Snap] = {"read"}
OnlyNew ==
    /\ datas[Snap] = {data[Snap]} /\ data[Snap].ver = done
    /\ modes[Snap] = {"read"} /\ modes[OldSnap] = {"write"}

\* gdbm_failure_atomic never returns with the first snapshot half made, and has no
\* previous snapshot to fall back on.
StartRight ==
    /\ pc = "idle" => ~start
    /\ start /\ pc # "off" => modes[OldSnap] = {"write"} /\ mode[OldSnap] = "write" /\ ~failed

\* Where the previous snapshot stands at each step of _gdbm_snapshot.
OldAtStep ==
    /\ OldWhole /\ ver >= done /\ ~failed
    /\ Precedes(data[OldSnap], [numsync |-> numsync, mtime |-> clock])
    /\ pc \notin {"mark", "commit mark", "clone"} => data[OldSnap].mtime <= data[Snap].mtime
    /\ pc \in {"mark", "commit mark"} => modes[Snap] = {"write"}
    /\ IF pc = "commit retire" THEN mode[OldSnap] = "write" ELSE modes[OldSnap] = {"read"}

\* The two files, as long as no snapshot was begun after one that failed.
OldRight ==
    Armed /\ ~spoilt =>
        /\ pc # "idle" => OldAtStep
        /\ pc = "idle" /\ failed => OnlyOld \/ BothInOrder
        /\ pc = "idle" /\ ~failed =>
              OnlyNew /\ data[Snap].numsync = numsync /\ data[Snap].mtime <= clock

\* "neither readable: this means the crash occurred during
\* gdbm_failure_atomic()" (gdbmsync.c:408)
BadOnlyAtStart == Armed => \A o \in Outcomes : Latest(o) # Bad
=============================================================================
