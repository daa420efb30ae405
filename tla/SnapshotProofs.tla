--------------------------- MODULE SnapshotProofs ---------------------------
(***************************************************************************)
(* Proofs about module Snapshot, for every number of snapshots and every   *)
(* width of numsync: the types, that a snapshot file that is readable      *)
(* after a crash is complete, whatever system calls failed before, and     *)
(* that gdbm_latest_snapshot finds one that is recent enough.              *)
(***************************************************************************)
EXTENDS Snapshot, TLAPS

\* The files keep their types through fchmod.
LEMMA FchmodType ==
    ASSUME TypeOK, NEW f \in File, NEW m \in Mode, Fchmod(f, m)
    PROVE  /\ mode' \in [File -> Mode]
           /\ modes' \in [File -> SUBSET Mode]
           /\ data' \in [File -> Copy \cup {Torn}]
           /\ datas' \in [File -> SUBSET (Copy \cup {Torn})]
BY DEF TypeOK, Fchmod

\* The files keep their types through fsync.
LEMMA FsyncType ==
    ASSUME TypeOK, NEW f \in File, Fsync(f)
    PROVE  /\ mode' \in [File -> Mode]
           /\ modes' \in [File -> SUBSET Mode]
           /\ data' \in [File -> Copy \cup {Torn}]
           /\ datas' \in [File -> SUBSET (Copy \cup {Torn})]
BY DEF TypeOK, Fsync

\* The files keep their types when one is overwritten.
LEMMA WriteType ==
    ASSUME TypeOK, NEW f \in File, NEW c \in Copy \cup {Torn}, Write(f, c)
    PROVE  /\ mode' \in [File -> Mode]
           /\ modes' \in [File -> SUBSET Mode]
           /\ data' \in [File -> Copy \cup {Torn}]
           /\ datas' \in [File -> SUBSET (Copy \cup {Torn})]
BY DEF TypeOK, Write

\* Toggling leads from a file to the other one.
LEMMA ToggleFile ==
    ASSUME NEW e \in File
    PROVE  Toggle(e) \in File /\ Toggle(e) # e /\ Toggle(Toggle(e)) = e
BY DEF File, Toggle

\* A database that has just been opened has the types of TypeOK.
LEMMA TypeInit == Init => TypeOK
<1> SUFFICES ASSUME Init PROVE TypeOK
  OBVIOUS
<1>1. start \in BOOLEAN /\ failed \in BOOLEAN /\ spoilt \in BOOLEAN
  BY Zenon DEF Init
<1>2. /\ mode \in [File -> Mode]
      /\ modes \in [File -> SUBSET Mode]
      /\ data \in [File -> Copy \cup {Torn}]
      /\ datas \in [File -> SUBSET (Copy \cup {Torn})]
  BY Zenon DEF Init, Mode
<1>3. eo \in File /\ clock \in Nat /\ ver \in 0 .. MaxCopies /\ done \in 0 .. ver
  BY BoundAssumption DEF Init, File
<1> QED
  BY <1>1, <1>2, <1>3, Zenon DEF Init, TypeOK

\* Every step of the specification keeps the types.
LEMMA TypeStep == TypeOK /\ [Next]_vars => TypeOK'
<1> SUFFICES ASSUME TypeOK, [Next]_vars PROVE TypeOK'
  OBVIOUS
<1> USE BoundAssumption
<1>s. Snap \in File /\ OldSnap \in File /\ Toggle(0) \in File
  BY ToggleFile DEF Snap, OldSnap, TypeOK, File, Toggle
<1>n. /\ ver \in 0 .. MaxCopies /\ done \in 0 .. ver /\ clock \in Nat
      /\ numsync \in 0 .. UintMod - 1
  BY Zenon DEF TypeOK
<1>m. "write" \in Mode /\ "read" \in Mode
  BY DEF Mode
<1>1. CASE FailureAtomic
  <2>1. start' \in BOOLEAN /\ failed' \in BOOLEAN /\ spoilt' \in BOOLEAN
    BY <1>1, Zenon DEF FailureAtomic
  <2>2. /\ mode' \in [File -> Mode]
        /\ modes' \in [File -> SUBSET Mode]
        /\ data' \in [File -> Copy \cup {Torn}]
        /\ datas' \in [File -> SUBSET (Copy \cup {Torn})]
    BY <1>1, <1>m, Zenon DEF FailureAtomic
  <2>3. ver' \in 0 .. MaxCopies /\ done' \in 0 .. ver'
    BY <1>1, <1>n DEF FailureAtomic, Begin
  <2> QED
    BY <1>1, <1>s, <2>1, <2>2, <2>3, Zenon DEF FailureAtomic, Begin, TypeOK
<1>2. ASSUME NEW counted \in BOOLEAN, Sync(counted) PROVE TypeOK'
  <2>1. numsync' \in 0 .. UintMod - 1
    BY <1>2, <1>n DEF Sync, IncNumsync
  <2>2. eo' \in File /\ ver' \in 0 .. MaxCopies /\ done' \in 0 .. ver'
    BY <1>2, <1>n, ToggleFile DEF Sync, Begin, TypeOK
  <2>3. spoilt' \in BOOLEAN
    BY <1>2 DEF Sync, TypeOK
  <2> QED
    BY <1>2, <2>1, <2>2, <2>3 DEF Sync, Begin, TypeOK, files
<1>3. CASE Mark
  BY <1>3, <1>s, <1>m, FchmodType DEF Mark, Step, TypeOK
<1>4. CASE CommitMark
  BY <1>4, <1>s, FsyncType DEF CommitMark, Step, TypeOK
<1>5. CASE Clone
  <2>0. clock' = clock \/ clock' = clock + 1
    BY <1>5, Zenon DEF Clone
  <2>1. clock' \in Nat
    BY <1>n, <2>0
  <2>2. [ver |-> ver, numsync |-> numsync, mtime |-> clock'] \in Copy
    BY <2>1 DEF Copy, TypeOK
  <2> QED
    BY <1>5, <1>s, <2>1, <2>2, WriteType DEF Clone, Step, TypeOK
<1>6. CASE CommitData
  BY <1>6, <1>s, FsyncType DEF CommitData, Step, TypeOK
<1>7. CASE Unmark
  BY <1>7, <1>s, <1>m, FchmodType DEF Unmark, Step, TypeOK
<1>8. CASE CommitUnmark
  BY <1>8, <1>s, FsyncType DEF CommitUnmark, Step, TypeOK
<1>9. CASE Retire
  BY <1>9, <1>s, <1>m, FchmodType DEF Retire, Step, TypeOK
<1>10. CASE CommitRetire
  <2>1. start' \in BOOLEAN /\ failed' \in BOOLEAN
    BY <1>10, Zenon DEF CommitRetire
  <2>2. done' = ver /\ ver' = ver
    BY <1>10, Zenon DEF CommitRetire
  <2>3. done' \in 0 .. ver'
    BY <1>n, <2>2
  <2> QED
    BY <1>10, <1>s, <2>1, <2>3, FsyncType, Zenon DEF CommitRetire, TypeOK
<1>11. CASE Fail
  <2>1. CASE UNCHANGED files
    BY <1>11, <2>1 DEF Fail, TypeOK, files
  <2>2. CASE Write(Snap, Torn)
    BY <1>11, <2>2, <1>s, WriteType DEF Fail, TypeOK
  <2> QED
    BY <1>11, <2>1, <2>2 DEF Fail
<1>12. CASE CloneUnsupported
  BY <1>12 DEF CloneUnsupported, TypeOK, files, File
<1>13. CASE UNCHANGED vars
  BY <1>13 DEF vars, TypeOK
<1> QED
  BY <1>1, <1>2, <1>3, <1>4, <1>5, <1>6, <1>7, <1>8, <1>9, <1>10, <1>11, <1>12, <1>13
     DEF Next, Enough

\* The variables of module Snapshot keep their types; numsync stays an unsigned
\* int through its overflow (gdbm_sync, gdbmsync.c:468).
THEOREM TypeCorrect == Spec => []TypeOK
BY TypeInit, TypeStep, PTL DEF Spec

-----------------------------------------------------------------------------
\* At first both files are empty and writable.
LEMMA WholeInit == Init => SnapRight /\ WholeIfReadable
BY DEF Init, SnapRight, WholeIfReadable, File

\* Overwriting a file whose bits say "write", on disk too, makes no readable file
\* incomplete.
LEMMA WriteWhole ==
    ASSUME mode \in [File -> Mode], modes \in [File -> SUBSET Mode],
           data \in [File -> Copy \cup {Torn}],
           datas \in [File -> SUBSET (Copy \cup {Torn})],
           WholeIfReadable,
           \A g \in File : mode[g] \in modes[g] /\ data[g] \in datas[g],
           NEW f \in File, modes[f] = {"write"}, NEW c, Write(f, c)
    PROVE  /\ WholeIfReadable'
           /\ \A g \in File : mode'[g] \in modes'[g] /\ data'[g] \in datas'[g]
           /\ modes'[f] = {"write"} /\ data'[f] = c
<1>1. mode' = mode /\ modes' = modes
  BY DEF Write
<1>2. data'[f] = c /\ c \in datas'[f]
  BY DEF Write
<1>3. \A g \in File : g # f => data'[g] = data[g] /\ datas'[g] = datas[g]
  BY DEF Write
<1>4. "read" \notin modes[f]
  OBVIOUS
<1> QED
  BY <1>1, <1>2, <1>3, <1>4 DEF WholeIfReadable

\* Every step keeps the files whole.  The data of a file changes only while
\* "write" is on disk, and "read" is set only when the data is.
LEMMA WholeStep ==
    TypeOK /\ SnapRight /\ WholeIfReadable /\ [Next]_vars => (SnapRight /\ WholeIfReadable)'
<1> SUFFICES ASSUME TypeOK, SnapRight, WholeIfReadable, [Next]_vars
             PROVE  SnapRight' /\ WholeIfReadable'
  OBVIOUS
<1>s. Snap \in File /\ OldSnap \in File /\ OldSnap # Snap /\ (eo' = eo => Snap' = Snap)
  BY ToggleFile DEF Snap, OldSnap, TypeOK
<1>t. /\ mode \in [File -> Mode]
      /\ modes \in [File -> SUBSET Mode]
      /\ data \in [File -> Copy \cup {Torn}]
      /\ datas \in [File -> SUBSET (Copy \cup {Torn})]
  BY Zenon DEF TypeOK
<1>1. CASE FailureAtomic
  BY <1>1 DEF FailureAtomic, Begin, SnapRight, WholeIfReadable
<1>2. ASSUME NEW counted \in BOOLEAN, Sync(counted) PROVE SnapRight' /\ WholeIfReadable'
  BY <1>2 DEF Sync, Begin, files, SnapRight, WholeIfReadable
<1>3. CASE Mark
  BY <1>3, <1>s, <1>t DEF Mark, Step, Fchmod, SnapRight, WholeIfReadable
<1>4. CASE CommitMark
  BY <1>4, <1>s, <1>t DEF CommitMark, Step, Fsync, SnapRight, WholeIfReadable
<1>5. CASE Clone
  <2> DEFINE c == [ver |-> ver, numsync |-> numsync, mtime |-> clock']
  <2>0. ver \in 0 .. MaxCopies
    BY Zenon DEF TypeOK
  <2>1. ver # -1
    BY <2>0, BoundAssumption
  <2>2. c # Torn
    <3>1. c.ver = ver /\ Torn.ver = -1
      BY DEF Torn
    <3> QED
      BY <2>1, <3>1
  <2>3. Write(Snap, c) /\ Step("clone", "commit data")
    BY <1>5 DEF Clone
  <2> HIDE DEF c
  <2> QED
    BY <1>s, <1>t, <2>2, <2>3, WriteWhole DEF Step, SnapRight
<1>6. CASE CommitData
  BY <1>6, <1>s, <1>t DEF CommitData, Step, Fsync, SnapRight, WholeIfReadable
<1>7. CASE Unmark
  BY <1>7, <1>s, <1>t DEF Unmark, Step, Fchmod, SnapRight, WholeIfReadable
<1>8. CASE CommitUnmark
  BY <1>8, <1>s, <1>t DEF CommitUnmark, Step, Fsync, SnapRight, WholeIfReadable
<1>9. CASE Retire
  BY <1>9, <1>s, <1>t DEF Retire, Step, Fchmod, SnapRight, WholeIfReadable
<1>10. CASE CommitRetire
  BY <1>10, <1>s, <1>t DEF CommitRetire, Fsync, SnapRight, WholeIfReadable
<1>11. CASE Fail
  <2>0. pc' \in {"off", "idle"}
    BY <1>11 DEF Fail
  <2>1. CASE UNCHANGED files
    BY <1>11, <2>0, <2>1 DEF files, SnapRight, WholeIfReadable
  <2>2. CASE pc = "clone" /\ Write(Snap, Torn)
    <3>1. pc = "clone" => modes[Snap] = {"write"}
      BY DEF SnapRight
    <3> QED
      BY <2>0, <2>2, <3>1, <1>s, <1>t, WriteWhole DEF SnapRight
  <2> QED
    BY <1>11, <2>1, <2>2 DEF Fail
<1>12. CASE CloneUnsupported
  BY <1>12 DEF CloneUnsupported, files, SnapRight, WholeIfReadable
<1>13. CASE UNCHANGED vars
  BY <1>13 DEF vars, SnapRight, WholeIfReadable, Snap, Toggle
<1> QED
  BY <1>1, <1>2, <1>3, <1>4, <1>5, <1>6, <1>7, <1>8, <1>9, <1>10, <1>11, <1>12, <1>13
     DEF Next, Enough

\* A snapshot file that may be readable after a crash is a complete copy of the
\* database, whatever system calls of _gdbm_snapshot failed before and however
\* often it was called after a failure.
THEOREM ReadableIsWhole == Spec => []WholeIfReadable
<1>1. Init => TypeOK /\ SnapRight /\ WholeIfReadable
  BY TypeInit, WholeInit
<1>2. TypeOK /\ SnapRight /\ WholeIfReadable /\ [Next]_vars
        => (TypeOK /\ SnapRight /\ WholeIfReadable)'
  BY TypeStep, WholeStep
<1> QED
  BY <1>1, <1>2, PTL DEF Spec

-----------------------------------------------------------------------------
(* Recovery after a crash. *)

\* What a file holds is a number, a counter and a time, or Torn, whose are numbers too.
LEMMA DataFacts ==
    ASSUME TypeOK, NEW f \in File
    PROVE  /\ data[f].ver \in Int /\ data[f].mtime \in Int
           /\ data[f].numsync \in 0 .. UintMod - 1
<1>1. data[f] \in Copy \cup {Torn}
  BY Zenon DEF TypeOK
<1>2. CASE data[f] \in Copy
  BY <1>2, BoundAssumption DEF Copy
<1>3. CASE data[f] = Torn
  BY <1>3, BoundAssumption DEF Torn
<1>4. QED
  BY <1>1, <1>2, <1>3

\* After a crash every file has bits and content that it could have.
LEMMA OutcomeFacts ==
    ASSUME NEW o \in Outcomes, NEW f \in File
    PROVE  o.mode[f] \in modes[f] /\ DataOf(o, f) \in datas[f]
<1>1. PICK m \in {x \in [File -> Mode] : \A g \in File : x[g] \in modes[g]},
           d \in {<<x, y>> : x \in datas[0], y \in datas[1]} : o = [mode |-> m, data |-> d]
  BY DEF Outcomes
<1>2. PICK x \in datas[0], y \in datas[1] : d = <<x, y>>
  BY <1>1
<1>3. o.mode[f] \in modes[f]
  BY <1>1
<1>4. DataOf(o, f) = IF f = 0 THEN x ELSE y
  BY <1>1, <1>2 DEF DataOf, File
<1>5. QED
  BY <1>2, <1>3, <1>4 DEF File

\* gdbm_numsync_cmp of a snapshot and of one that follows it, through the overflow of
\* the counter.
LEMMA CmpInOrder ==
    ASSUME NEW c \in 0 .. UintMod - 1, NEW n \in {c, IncNumsync(c)}
    PROVE  /\ n \in 0 .. UintMod - 1
           /\ n = c => NumsyncCmp(c, n) = 0 /\ NumsyncCmp(n, c) = 0
           /\ n # c => NumsyncCmp(c, n) = -1 /\ NumsyncCmp(n, c) = 1
<1>1. UintMod \in Nat /\ UintMod > 2 /\ c \in Nat /\ c < UintMod
  BY BoundAssumption
<1>2. IncNumsync(c) = IF c = UintMod - 1 THEN 0 ELSE c + 1
  <2>1. CASE c = UintMod - 1
    BY <1>1, <2>1 DEF IncNumsync
  <2>2. CASE c # UintMod - 1
    BY <1>1, <2>2 DEF IncNumsync
  <2>3. QED
    BY <2>1, <2>2
<1>3. QED
  BY <1>1, <1>2 DEF NumsyncCmp

\* The choice between the previous snapshot and the newest one, when both are readable:
\* the newest, or the report that nothing tells them apart.
LEMMA ComparedInOrder ==
    ASSUME NEW c, NEW n, Precedes(c, n), c.numsync \in 0 .. UintMod - 1,
           c.mtime \in Int, n.mtime \in Int
    PROVE  Compared(c, n) \in {1, Same} /\ Compared(n, c) \in {0, Same}
<1>1. /\ n.numsync = c.numsync =>
           NumsyncCmp(c.numsync, n.numsync) = 0 /\ NumsyncCmp(n.numsync, c.numsync) = 0
      /\ n.numsync # c.numsync =>
           NumsyncCmp(c.numsync, n.numsync) = -1 /\ NumsyncCmp(n.numsync, c.numsync) = 1
  BY CmpInOrder DEF Precedes
<1>2. c.mtime <= n.mtime
  BY DEF Precedes
<1>3. QED
  BY <1>1, <1>2 DEF Compared, Same

\* Any of the three states of the files is enough.
LEMMA RecoverFromFiles ==
    ASSUME TypeOK, OnlyOld \/ BothInOrder \/ OnlyNew, NEW o \in Outcomes
    PROVE  \/ Latest(o) \in File /\ DataOf(o, Latest(o)).ver >= done
           \/ Latest(o) = Same /\ \A f \in File : DataOf(o, f).ver >= done - 1
<1>1. /\ Snap \in File /\ OldSnap \in File /\ OldSnap # Snap
      /\ File = {Snap, OldSnap} /\ File = {0, 1}
  BY ToggleFile DEF Snap, OldSnap, TypeOK, File, Toggle
<1>2. done \in Int
  <2>1. done \in 0 .. ver
    BY Zenon DEF TypeOK
  <2>2. QED
    BY <2>1
<1>3. CASE OnlyOld
  <2>1. Readable(o, OldSnap) /\ ~Readable(o, Snap) /\ DataOf(o, OldSnap) = data[OldSnap]
    BY <1>1, <1>3, OutcomeFacts DEF OnlyOld, OldWhole, Readable
  <2>2. Latest(o) = OldSnap
    BY <1>1, <2>1 DEF Latest
  <2>3. QED
    BY <1>1, <1>2, <1>3, <2>1, <2>2 DEF OnlyOld, OldWhole
<1>4. CASE OnlyNew
  <2>1. Readable(o, Snap) /\ ~Readable(o, OldSnap) /\ DataOf(o, Snap) = data[Snap]
    BY <1>1, <1>4, OutcomeFacts DEF OnlyNew, Readable
  <2>2. Latest(o) = Snap
    BY <1>1, <2>1 DEF Latest
  <2>3. QED
    BY <1>1, <1>2, <1>4, <2>1, <2>2 DEF OnlyNew
<1>5. CASE BothInOrder
  <2>1. /\ DataOf(o, Snap) = data[Snap] /\ DataOf(o, OldSnap) = data[OldSnap]
        /\ Readable(o, Snap) \/ Readable(o, OldSnap)
    BY <1>1, <1>5, OutcomeFacts DEF BothInOrder, OldWhole, Readable
  <2>2. data[Snap].ver >= done /\ data[OldSnap].ver = done
    BY <1>5 DEF BothInOrder, OldWhole
  <2>3. data[Snap].ver \in Int /\ data[OldSnap].ver \in Int
    BY <1>1, DataFacts
  <2>4. CASE ~(Readable(o, Snap) /\ Readable(o, OldSnap))
    <3>1. Latest(o) \in File
      BY <1>1, <2>1, <2>4 DEF Latest
    <3>2. QED
      BY <1>1, <1>2, <2>1, <2>2, <2>3, <3>1
  <2>5. CASE Readable(o, Snap) /\ Readable(o, OldSnap)
    <3>1. /\ Compared(data[OldSnap], data[Snap]) \in {1, Same}
          /\ Compared(data[Snap], data[OldSnap]) \in {0, Same}
      BY <1>1, <1>5, DataFacts, ComparedInOrder DEF BothInOrder
    <3>2. Latest(o) = Compared(DataOf(o, 0), DataOf(o, 1))
      BY <1>1, <2>5 DEF Latest
    <3>3. Latest(o) \in {Snap, Same}
      BY <1>1, <2>1, <3>1, <3>2
    <3>4. QED
      BY <1>1, <1>2, <2>1, <2>2, <2>3, <3>3
  <2>6. QED
    BY <2>4, <2>5
<1>6. QED
  BY <1>3, <1>4, <1>5

RInv == TypeOK /\ SnapRight /\ Copied /\ StartRight /\ OldRight

\* The three states are all there is, from the return of gdbm_failure_atomic to the
\* first snapshot that follows a failure.
LEMMA RecoverFromInv == RInv => LatestRecovers
<1> SUFFICES ASSUME RInv, Armed, ~spoilt PROVE OnlyOld \/ BothInOrder \/ OnlyNew
  BY RecoverFromFiles DEF RInv, LatestRecovers
<1>1. CASE pc = "idle"
  BY <1>1 DEF RInv, OldRight
<1>2. CASE pc \in {"mark", "commit mark", "clone", "commit data", "unmark"}
  BY <1>2 DEF RInv, OldRight, OldAtStep, SnapRight, OnlyOld
<1>3. CASE pc \in {"commit unmark", "retire", "commit retire"}
  <2>1. /\ ver >= done /\ OldWhole /\ Precedes(data[OldSnap], [numsync |-> numsync, mtime |-> clock])
        /\ data[OldSnap].mtime <= data[Snap].mtime
        /\ pc # "commit retire" => modes[OldSnap] = {"read"}
    BY <1>3 DEF RInv, OldRight, OldAtStep
  <2>2. /\ data[Snap].ver = ver /\ data[Snap].numsync = numsync /\ datas[Snap] = {data[Snap]}
        /\ pc = "commit retire" => modes[Snap] = {"read"}
    BY <1>3 DEF RInv, Copied
  <2>3. QED
    BY <1>3, <2>1, <2>2 DEF BothInOrder, Precedes
<1>4. QED
  BY <1>1, <1>2, <1>3 DEF Armed, RInv, TypeOK

\* Before crash tolerance is switched on there is nothing to show.
LEMMA RecoverInit == Init => Copied /\ StartRight /\ OldRight
BY DEF Init, Copied, StartRight, OldRight, Armed

\* Every step of _gdbm_snapshot, failing ones included, keeps one of the two files
\* fit to recover from.
LEMMA RecoverStep == RInv /\ [Next]_vars => (Copied /\ StartRight /\ OldRight)'
<1> DEFINE s == Snap
           o == OldSnap
<1> SUFFICES ASSUME RInv, [Next]_vars PROVE Copied' /\ StartRight' /\ OldRight'
  OBVIOUS
<1>s. /\ s \in File /\ o \in File /\ s # o
      /\ eo' = eo => Snap' = s /\ OldSnap' = o
      /\ eo' = Toggle(eo) => Snap' = o /\ OldSnap' = s
  BY ToggleFile DEF Snap, OldSnap, RInv, TypeOK
<1>t. /\ mode \in [File -> Mode] /\ modes \in [File -> SUBSET Mode]
      /\ data \in [File -> Copy \cup {Torn}] /\ datas \in [File -> SUBSET (Copy \cup {Torn})]
  BY Zenon DEF RInv, TypeOK
<1>n. /\ ver \in Int /\ done \in Int /\ done <= ver /\ clock \in Int
      /\ \A f \in File : data[f].mtime \in Int /\ data[f].ver \in Int
  <2>1. ver \in 0 .. MaxCopies /\ done \in 0 .. ver /\ clock \in Nat
    BY Zenon DEF RInv, TypeOK
  <2>2. QED
    BY <2>1, BoundAssumption, DataFacts DEF RInv
<1>a. /\ SnapRight /\ Copied /\ StartRight /\ OldRight
  BY DEF RInv
<1> HIDE DEF s, o
<1>d. s = Snap /\ o = OldSnap
  BY DEF s, o
<1>1. CASE FailureAtomic
  BY <1>1, <1>s, <1>d, ToggleFile
     DEF FailureAtomic, Begin, Copied, StartRight, OldRight, Armed, Snap, OldSnap, File, Toggle
<1>2. ASSUME NEW counted \in BOOLEAN, Sync(counted) PROVE Copied' /\ StartRight' /\ OldRight'
  <2>1. /\ pc = "idle" /\ pc' = "mark" /\ Snap' = o /\ OldSnap' = s /\ start' = start /\ failed' = failed
        /\ mode' = mode /\ modes' = modes /\ data' = data /\ datas' = datas
        /\ ver' = ver + 1 /\ done' = done /\ clock' = clock /\ spoilt' = (spoilt \/ failed)
        /\ numsync' \in {numsync, IncNumsync(numsync)}
    BY <1>2, <1>s DEF Sync, Begin, files
  <2>2. Copied' /\ StartRight'
    BY <1>a, <2>1 DEF Copied, StartRight
  <2>3. ASSUME ~spoilt' PROVE OldRight'
    <3>1. ~spoilt /\ ~failed /\ Armed
      BY <1>a, <2>1, <2>3 DEF StartRight, Armed
    <3>2. OnlyNew /\ data[s].numsync = numsync /\ data[s].mtime <= clock
      BY <1>a, <1>d, <2>1, <3>1 DEF OldRight
    <3>3. OldWhole'
      BY <1>d, <2>1, <3>2 DEF OnlyNew, OldWhole
    <3>4. Precedes(data[OldSnap], [numsync |-> numsync, mtime |-> clock])'
      BY <2>1, <3>2 DEF Precedes, IncNumsync
    <3>5. modes'[OldSnap'] = {"read"} /\ modes'[Snap'] = {"write"}
      BY <1>d, <2>1, <3>2 DEF OnlyNew
    <3>6. QED
      BY <1>n, <2>1, <3>1, <3>3, <3>4, <3>5 DEF OldRight, OldAtStep
  <2>4. QED
    BY <2>2, <2>3 DEF OldRight
<1>3. CASE Mark
  <2>1. /\ pc = "mark" /\ pc' = "commit mark" /\ Snap' = s /\ OldSnap' = o /\ start' = start
        /\ failed' = failed /\ spoilt' = spoilt /\ ver' = ver /\ done' = done /\ numsync' = numsync
        /\ clock' = clock /\ Fchmod(s, "write")
    BY <1>3, <1>s, <1>d DEF Mark, Step
  <2>2. /\ mode'[s] = "write" /\ modes'[s] = modes[s] \cup {"write"}
        /\ mode'[o] = mode[o] /\ modes'[o] = modes[o] /\ data' = data /\ datas' = datas
    BY <1>s, <1>t, <2>1 DEF Fchmod
  <2>3. Copied'
    BY <1>a, <1>d, <2>1, <2>2 DEF Copied, SnapRight
  <2>4. StartRight'
    BY <1>a, <1>d, <2>1, <2>2 DEF StartRight
  <2>5. ASSUME Armed', ~spoilt' PROVE OldAtStep'
    <3>1. OldAtStep
      BY <1>a, <2>1, <2>5 DEF OldRight, Armed
    <3>2. OldWhole' /\ Precedes(data[OldSnap], [numsync |-> numsync, mtime |-> clock])'
      BY <1>d, <1>s, <2>1, <2>2, <3>1 DEF OldAtStep, OldWhole, Precedes, IncNumsync
    <3>3. QED
      BY <1>a, <1>d, <1>n, <1>s, <2>1, <2>2, <3>1, <3>2 DEF OldAtStep, Copied, Precedes
  <2>6. QED
    BY <2>1, <2>3, <2>4, <2>5 DEF OldRight
<1>4. CASE CommitMark
  <2>1. /\ pc = "commit mark" /\ pc' = "clone" /\ Snap' = s /\ OldSnap' = o /\ start' = start
        /\ failed' = failed /\ spoilt' = spoilt /\ ver' = ver /\ done' = done /\ numsync' = numsync
        /\ clock' = clock /\ Fsync(s)
    BY <1>4, <1>s, <1>d DEF CommitMark, Step
  <2>2. /\ modes'[s] = {mode[s]} /\ datas'[s] = {data[s]}
        /\ modes'[o] = modes[o] /\ datas'[o] = datas[o] /\ mode' = mode /\ data' = data
    BY <1>s, <1>t, <2>1 DEF Fsync
  <2>3. Copied'
    BY <1>a, <1>d, <2>1, <2>2 DEF Copied, SnapRight
  <2>4. StartRight'
    BY <1>a, <1>d, <2>1, <2>2 DEF StartRight
  <2>5. ASSUME Armed', ~spoilt' PROVE OldAtStep'
    <3>1. OldAtStep
      BY <1>a, <2>1, <2>5 DEF OldRight, Armed
    <3>2. OldWhole' /\ Precedes(data[OldSnap], [numsync |-> numsync, mtime |-> clock])'
      BY <1>d, <1>s, <2>1, <2>2, <3>1 DEF OldAtStep, OldWhole, Precedes, IncNumsync
    <3>3. QED
      BY <1>a, <1>d, <1>n, <1>s, <2>1, <2>2, <3>1, <3>2 DEF OldAtStep, Copied, Precedes
  <2>6. QED
    BY <2>1, <2>3, <2>4, <2>5 DEF OldRight
<1>5. CASE Clone
  <2>1. /\ pc = "clone" /\ pc' = "commit data" /\ Snap' = s /\ OldSnap' = o /\ start' = start
        /\ failed' = failed /\ spoilt' = spoilt /\ ver' = ver /\ done' = done /\ numsync' = numsync
        /\ clock' \in {clock, clock + 1} /\ Write(s, [ver |-> ver, numsync |-> numsync, mtime |-> clock'])
    BY <1>5, <1>s, <1>d DEF Clone, Step
  <2>2. /\ data'[s] = [ver |-> ver, numsync |-> numsync, mtime |-> clock']
        /\ data'[o] = data[o] /\ datas'[o] = datas[o] /\ mode' = mode /\ modes' = modes
    BY <1>s, <1>t, <2>1 DEF Write
  <2>c. /\ data'[s].ver = ver /\ data'[s].numsync = numsync /\ data'[s].mtime = clock'
        /\ clock <= clock' /\ clock' \in Int
    <3>1. clock' \in {clock, clock + 1} /\ clock \in Int
      BY <1>n, <2>1
    <3>2. data'[s] = [ver |-> ver, numsync |-> numsync, mtime |-> clock']
      BY <2>2
    <3>3. data'[s].ver = ver /\ data'[s].numsync = numsync /\ data'[s].mtime = clock'
      BY <3>2
    <3>4. QED
      BY <3>1, <3>3
  <2>3. Copied'
    <3>1. data'[Snap'].ver = ver' /\ data'[Snap'].numsync = numsync' /\ data'[Snap'].mtime <= clock'
      <4>1. Snap' = s /\ ver' = ver /\ numsync' = numsync
        BY <2>1
      <4>2. clock' <= clock'
        BY <2>c
      <4>3. QED
        BY <2>c, <4>1, <4>2
    <3>2. QED
      BY <2>1, <3>1 DEF Copied
  <2>4. StartRight'
    BY <1>a, <1>d, <2>1, <2>2 DEF StartRight
  <2>5. ASSUME Armed', ~spoilt' PROVE OldAtStep'
    <3>1. OldAtStep
      BY <1>a, <2>1, <2>5 DEF OldRight, Armed
    <3>2. /\ datas[o] = {data[o]} /\ data[o].ver = done /\ ver >= done /\ ~failed
          /\ numsync \in {data[o].numsync, IncNumsync(data[o].numsync)}
          /\ data[o].mtime <= clock /\ modes[o] = {"read"}
      BY <1>d, <2>1, <3>1 DEF OldAtStep, OldWhole, Precedes
    <3>3. data[o].mtime <= clock'
      BY <1>n, <1>s, <2>c, <3>2
    <3>4. OldWhole' /\ Precedes(data[OldSnap], [numsync |-> numsync, mtime |-> clock])'
      BY <2>1, <2>2, <3>2, <3>3 DEF OldWhole, Precedes, IncNumsync
    <3>5. QED
      BY <2>1, <2>2, <2>c, <3>2, <3>3, <3>4 DEF OldAtStep
  <2>6. QED
    BY <2>1, <2>3, <2>4, <2>5 DEF OldRight
<1>6. CASE CommitData
  <2>1. /\ pc = "commit data" /\ pc' = "unmark" /\ Snap' = s /\ OldSnap' = o /\ start' = start
        /\ failed' = failed /\ spoilt' = spoilt /\ ver' = ver /\ done' = done /\ numsync' = numsync
        /\ clock' = clock /\ Fsync(s)
    BY <1>6, <1>s, <1>d DEF CommitData, Step
  <2>2. /\ modes'[s] = {mode[s]} /\ datas'[s] = {data[s]}
        /\ modes'[o] = modes[o] /\ datas'[o] = datas[o] /\ mode' = mode /\ data' = data
    BY <1>s, <1>t, <2>1 DEF Fsync
  <2>3. Copied'
    BY <1>a, <1>d, <2>1, <2>2 DEF Copied, SnapRight
  <2>4. StartRight'
    BY <1>a, <1>d, <2>1, <2>2 DEF StartRight
  <2>5. ASSUME Armed', ~spoilt' PROVE OldAtStep'
    <3>1. OldAtStep
      BY <1>a, <2>1, <2>5 DEF OldRight, Armed
    <3>2. OldWhole' /\ Precedes(data[OldSnap], [numsync |-> numsync, mtime |-> clock])'
      BY <1>d, <1>s, <2>1, <2>2, <3>1 DEF OldAtStep, OldWhole, Precedes, IncNumsync
    <3>3. QED
      BY <1>a, <1>d, <1>n, <1>s, <2>1, <2>2, <3>1, <3>2 DEF OldAtStep, Copied, Precedes
  <2>6. QED
    BY <2>1, <2>3, <2>4, <2>5 DEF OldRight
<1>7. CASE Unmark
  <2>1. /\ pc = "unmark" /\ pc' = "commit unmark" /\ Snap' = s /\ OldSnap' = o /\ start' = start
        /\ failed' = failed /\ spoilt' = spoilt /\ ver' = ver /\ done' = done /\ numsync' = numsync
        /\ clock' = clock /\ Fchmod(s, "read")
    BY <1>7, <1>s, <1>d DEF Unmark, Step
  <2>2. /\ mode'[s] = "read" /\ modes'[s] = modes[s] \cup {"read"}
        /\ mode'[o] = mode[o] /\ modes'[o] = modes[o] /\ data' = data /\ datas' = datas
    BY <1>s, <1>t, <2>1 DEF Fchmod
  <2>3. Copied'
    BY <1>a, <1>d, <2>1, <2>2 DEF Copied, SnapRight
  <2>4. StartRight'
    BY <1>a, <1>d, <2>1, <2>2 DEF StartRight
  <2>5. ASSUME Armed', ~spoilt' PROVE OldAtStep'
    <3>1. OldAtStep
      BY <1>a, <2>1, <2>5 DEF OldRight, Armed
    <3>2. OldWhole' /\ Precedes(data[OldSnap], [numsync |-> numsync, mtime |-> clock])'
      BY <1>d, <1>s, <2>1, <2>2, <3>1 DEF OldAtStep, OldWhole, Precedes, IncNumsync
    <3>3. QED
      BY <1>a, <1>d, <1>n, <1>s, <2>1, <2>2, <3>1, <3>2 DEF OldAtStep, Copied, Precedes
  <2>6. QED
    BY <2>1, <2>3, <2>4, <2>5 DEF OldRight
<1>8. CASE CommitUnmark
  <2>1. /\ pc = "commit unmark" /\ pc' = "retire" /\ Snap' = s /\ OldSnap' = o /\ start' = start
        /\ failed' = failed /\ spoilt' = spoilt /\ ver' = ver /\ done' = done /\ numsync' = numsync
        /\ clock' = clock /\ Fsync(s)
    BY <1>8, <1>s, <1>d DEF CommitUnmark, Step
  <2>2. /\ modes'[s] = {mode[s]} /\ datas'[s] = {data[s]}
        /\ modes'[o] = modes[o] /\ datas'[o] = datas[o] /\ mode' = mode /\ data' = data
    BY <1>s, <1>t, <2>1 DEF Fsync
  <2>3. Copied'
    BY <1>a, <1>d, <2>1, <2>2 DEF Copied, SnapRight
  <2>4. StartRight'
    BY <1>a, <1>d, <2>1, <2>2 DEF StartRight
  <2>5. ASSUME Armed', ~spoilt' PROVE OldAtStep'
    <3>1. OldAtStep
      BY <1>a, <2>1, <2>5 DEF OldRight, Armed
    <3>2. OldWhole' /\ Precedes(data[OldSnap], [numsync |-> numsync, mtime |-> clock])'
      BY <1>d, <1>s, <2>1, <2>2, <3>1 DEF OldAtStep, OldWhole, Precedes, IncNumsync
    <3>3. QED
      BY <1>a, <1>d, <1>n, <1>s, <2>1, <2>2, <3>1, <3>2 DEF OldAtStep, Copied, Precedes
  <2>6. QED
    BY <2>1, <2>3, <2>4, <2>5 DEF OldRight
<1>9. CASE Retire
  <2>1. /\ pc = "retire" /\ pc' = "commit retire" /\ Snap' = s /\ OldSnap' = o /\ start' = start
        /\ failed' = failed /\ spoilt' = spoilt /\ ver' = ver /\ done' = done /\ numsync' = numsync
        /\ clock' = clock /\ Fchmod(o, "write")
    BY <1>9, <1>s, <1>d DEF Retire, Step
  <2>2. /\ mode'[o] = "write" /\ modes'[o] = modes[o] \cup {"write"}
        /\ mode'[s] = mode[s] /\ modes'[s] = modes[s] /\ data' = data /\ datas' = datas
    BY <1>s, <1>t, <2>1 DEF Fchmod
  <2>3. Copied'
    BY <1>a, <1>d, <2>1, <2>2 DEF Copied, SnapRight
  <2>4. StartRight'
    BY <1>a, <1>d, <2>1, <2>2 DEF StartRight
  <2>5. ASSUME Armed', ~spoilt' PROVE OldAtStep'
    <3>1. OldAtStep
      BY <1>a, <2>1, <2>5 DEF OldRight, Armed
    <3>2. OldWhole' /\ Precedes(data[OldSnap], [numsync |-> numsync, mtime |-> clock])'
      BY <1>d, <1>s, <2>1, <2>2, <3>1 DEF OldAtStep, OldWhole, Precedes, IncNumsync
    <3>3. QED
      BY <1>a, <1>d, <1>n, <1>s, <2>1, <2>2, <3>1, <3>2 DEF OldAtStep, Copied, Precedes
  <2>6. QED
    BY <2>1, <2>3, <2>4, <2>5 DEF OldRight
<1>10. CASE CommitRetire
  <2>1. /\ pc = "commit retire" /\ pc' = "idle" /\ Snap' = s /\ OldSnap' = o /\ ~start' /\ ~failed'
        /\ ver' = ver /\ done' = ver /\ numsync' = numsync /\ spoilt' = spoilt /\ clock' = clock
        /\ Fsync(o)
    BY <1>10, <1>s, <1>d DEF CommitRetire
  <2>2. /\ modes'[o] = {mode[o]} /\ modes'[s] = modes[s] /\ datas'[s] = datas[s] /\ data' = data
    BY <1>s, <1>t, <2>1 DEF Fsync
  <2>3. Copied' /\ StartRight'
    BY <2>1 DEF Copied, StartRight
  <2>4. ASSUME ~spoilt' PROVE OldRight'
    <3>1. mode[o] = "write"
      BY <1>a, <1>d, <2>1, <2>4 DEF StartRight, OldRight, OldAtStep, Armed
    <3>2. /\ data[s].ver = ver /\ data[s].numsync = numsync /\ data[s].mtime <= clock
          /\ datas[s] = {data[s]} /\ modes[s] = {"read"}
      BY <1>a, <1>d, <2>1 DEF Copied
    <3>3. QED
      BY <2>1, <2>2, <3>1, <3>2 DEF OldRight, OnlyNew
  <2>5. QED
    BY <2>3, <2>4 DEF OldRight
<1>11. CASE Fail
  <2>1. /\ pc \notin {"off", "idle"} /\ pc' = (IF start THEN "off" ELSE "idle") /\ failed'
        /\ Snap' = s /\ OldSnap' = o /\ start' = start /\ spoilt' = spoilt /\ done' = done
        /\ UNCHANGED files \/ (pc = "clone" /\ Write(Snap, Torn))
    BY <1>11, <1>s DEF Fail
  <2>2. Copied' /\ StartRight'
    BY <2>1 DEF Copied, StartRight
  <2>3. ASSUME ~start, ~spoilt PROVE (OnlyOld \/ BothInOrder)'
    <3>1. OldAtStep
      BY <1>a, <2>1, <2>3 DEF OldRight, Armed
    <3>2. CASE pc \in {"mark", "commit mark", "clone", "commit data", "unmark"}
      <4>1. modes[s] = {"write"} /\ modes[o] = {"read"} /\ OldWhole
        BY <1>a, <1>d, <3>1, <3>2 DEF OldAtStep, SnapRight
      <4>2. modes' = modes /\ data'[o] = data[o] /\ datas'[o] = datas[o]
        BY <1>d, <1>s, <1>t, <2>1 DEF files, Write
      <4>3. QED
        BY <1>d, <2>1, <4>1, <4>2 DEF OnlyOld, OldWhole
    <3>3. CASE pc \in {"commit unmark", "retire", "commit retire"}
      <4>1. BothInOrder
        <5>1. /\ ver >= done /\ OldWhole
              /\ Precedes(data[o], [numsync |-> numsync, mtime |-> clock])
              /\ data[o].mtime <= data[s].mtime
              /\ pc # "commit retire" => modes[o] = {"read"}
          BY <1>d, <3>1, <3>3 DEF OldAtStep
        <5>2. /\ data[s].ver = ver /\ data[s].numsync = numsync /\ datas[s] = {data[s]}
              /\ pc = "commit retire" => modes[s] = {"read"}
          BY <1>a, <1>d, <3>3 DEF Copied
        <5>3. QED
          BY <1>d, <3>3, <5>1, <5>2 DEF BothInOrder, Precedes
      <4>2. UNCHANGED files
        BY <2>1, <3>3
      <4>3. QED
        BY <1>d, <2>1, <4>1, <4>2 DEF files, BothInOrder, OldWhole, Precedes, IncNumsync
    <3>4. QED
      BY <2>1, <3>2, <3>3 DEF RInv, TypeOK
  <2>4. QED
    BY <2>1, <2>2, <2>3 DEF OldRight, Armed
<1>12. CASE CloneUnsupported
  BY <1>12 DEF CloneUnsupported, Copied, StartRight, OldRight, Armed
<1>13. CASE UNCHANGED vars
  BY <1>13, <1>a DEF vars, Copied, StartRight, OldRight, OldAtStep, OldWhole, OnlyOld,
     BothInOrder, OnlyNew, Armed, Precedes, Snap, OldSnap, Toggle, IncNumsync
<1> QED
  BY <1>1, <1>2, <1>3, <1>4, <1>5, <1>6, <1>7, <1>8, <1>9, <1>10, <1>11, <1>12, <1>13
     DEF Next, Enough

\* A crash at any moment, between any two system calls of any number of snapshots,
\* leaves gdbm_latest_snapshot a snapshot that is not older than the last gdbm_sync that
\* returned success, as long as no snapshot was begun after one that failed
\* (_gdbm_snapshot, gdbmsync.c:77, and gdbm_latest_snapshot, gdbmsync.c:332).
THEOREM CrashIsRecovered == Spec => []LatestRecovers
<1>1. Init => RInv
  BY TypeInit, WholeInit, RecoverInit DEF RInv
<1>2. RInv /\ WholeIfReadable /\ [Next]_vars => RInv' /\ WholeIfReadable'
  BY TypeStep, WholeStep, RecoverStep DEF RInv
<1>3. Init => WholeIfReadable
  BY WholeInit
<1> QED
  BY <1>1, <1>2, <1>3, RecoverFromInv, PTL DEF Spec
=============================================================================
