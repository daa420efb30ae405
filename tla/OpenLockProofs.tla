---------------------------- MODULE OpenLockProofs ----------------------------
(***************************************************************************)
(* The safety properties of OpenLock for any number of processes and       *)
(* calls, on every file system: a writer is alone, the header in memory is *)
(* the one in the file, and no lock outlives its use.                      *)
(***************************************************************************)
EXTENDS OpenLock, TLAPS

-----------------------------------------------------------------------------
(* Types. *)

\* What ConstAssumption says of the constants and of the fixed records.
LEMMA Constants ==
    /\ None \notin Proc /\ None \notin Inode /\ None # "flock" /\ None # "posix"
    /\ NoWaiting \in Wait
    /\ EmptyFile \in File
    /\ NewHeader \in Header /\ DirGrown \in Header
BY ConstAssumption DEF NoWaiting, Wait, EmptyFile, File, NewHeader, DirGrown, Header, Magic

\* The file open(2) or mkstemp makes is nobody's, as long as there is one.
LEMMA NewInodeIsFree == FreeInodes # {} => NewInode \in FreeInodes
BY DEF NewInode

\* Before the first call everything has its type.
LEMMA InitType == Init => TypeOK
<1> SUFFICES ASSUME Init PROVE TypeOK
  OBVIOUS
<1> USE Constants, ConstAssumption
<1>1. /\ name \in Inode \cup {None}
      /\ file \in [Inode -> File]
      /\ kept \subseteq Proc
  BY DEF Init, File
<1>2. QED
  BY <1>1 DEF Init, TypeOK, Mode

\* A process that leaves: gdbm_close, or an error return of gdbm_open_ext.
LEMMA LeaveType ==
    ASSUME TypeOK, NEW p \in Proc, NEW e, Leave(p, e), kept' \subseteq Proc
    PROVE  TypeOK'
<1> USE Constants
<1>1. locks' \subseteq Lock
  BY DEF Leave, Released, TypeOK
<1>2. QED
  BY <1>1 DEF Leave, Forget, Goto, TypeOK, Mode

\* A process that gets its lock: the kernel knows the kind of lock it asks for.
LEMMA HaveLockType ==
    ASSUME TypeOK, NEW p \in Proc, HaveLock(p), desc[p] \in Inode
    PROVE  TypeOK'
<1>1. NewLock(p, desc[p]) \in Lock
  BY DEF HaveLock, Grants, NewLock, Lock, LockHow, Via
<1>2. QED
  BY <1>1 DEF HaveLock, Goto, TypeOK

\* Every step keeps the types, given that a descriptor is open outside "closed".
LEMMA TypeStep == IInv /\ [Next]_vars => TypeOK'
<1> SUFFICES ASSUME IInv, [Next]_vars PROVE TypeOK'
  OBVIOUS
<1> USE Constants
<1>1. TypeOK /\ kept \subseteq Proc
  BY DEF IInv, TypeOK
<1>2. \A p \in Proc : pc[p] # "closed" => desc[p] \in Inode
  BY <1>1 DEF IInv, DescsRight, TypeOK
<1>3. \A p \in Proc : Recovering(p) => new_desc[p] \in Inode
  BY <1>1 DEF IInv, DescsRight, TypeOK
<1>n. /\ calls \in 0 .. MaxCalls /\ calls \in Int /\ MaxCalls \in Int
      /\ \A p \in Proc : ttw[p] \in Nat /\ wait[p].interval \in Nat
  <2>1. calls \in 0 .. MaxCalls /\ MaxCalls \in Nat
    BY <1>1, ConstAssumption DEF TypeOK
  <2>2. \A p \in Proc : ttw[p] \in Nat /\ wait[p].interval \in Nat
    BY <1>1 DEF TypeOK, Wait
  <2>3. QED
    BY <2>1, <2>2
<1>4. CASE UNCHANGED vars
  BY <1>1, <1>4 DEF vars, TypeOK
<1>5. ASSUME NEW p \in Proc, NEW c \in Calls, Open(p, c[1], c[2]) PROVE TypeOK'
  <2>1. c[1] \in Mode /\ c[2] \in Wait /\ c[2].timeout \in Nat
    BY ConstAssumption DEF Wait
  <2>2. name = None /\ c[1] \in {"wrcreat", "newdb"} => NewInode \in Inode
    BY <1>5, NewInodeIsFree DEF Open, FreeInodes
  <2>3. calls' \in 0 .. MaxCalls
    <3>1. calls' = calls + 1 /\ calls < MaxCalls
      BY <1>5 DEF Open
    <3>2. QED
      BY <1>n, <3>1
  <2>4. CASE name = None /\ c[1] \notin {"wrcreat", "newdb"}
    BY <1>1, <1>5, <2>3, <2>4 DEF Open, TypeOK
  <2>5. CASE ~(name = None /\ c[1] \notin {"wrcreat", "newdb"})
    <3> DEFINE i == IF name = None THEN NewInode ELSE name
    <3>1. i \in Inode
      BY <1>1, <2>2, <2>5 DEF TypeOK
    <3>2. /\ name' = i
          /\ file' = IF name = None THEN [file EXCEPT ![i] = EmptyFile] ELSE file
          /\ desc' = [desc EXCEPT ![p] = i]
      BY <1>5, <2>5 DEF Open
    <3>3. name' \in Inode \cup {None} /\ file' \in [Inode -> File]
      BY <1>1, <3>1, <3>2 DEF TypeOK
    <3>4. desc' \in [Proc -> Inode \cup {None}]
      BY <1>1, <3>1, <3>2 DEF TypeOK
    <3> HIDE DEF i
    <3>5. QED
      BY <1>1, <1>5, <2>1, <2>3, <2>5, <3>3, <3>4 DEF Open, Goto, TypeOK
  <2>6. QED
    BY <2>4, <2>5
<1>6. ASSUME NEW p \in Proc, Stat(p) PROVE TypeOK'
  <2>1. file[desc[p]].size \in Nat
    BY <1>1, <1>2, <1>6 DEF Stat, TypeOK, File
  <2>2. CASE mode[p] = "reader" /\ file[desc[p]].size = 0
    BY <1>1, <1>6, <2>2, LeaveType DEF Stat
  <2>3. CASE ~(mode[p] = "reader" /\ file[desc[p]].size = 0)
    BY <1>1, <1>6, <2>1, <2>3 DEF Stat, Goto, TypeOK
  <2>4. QED
    BY <2>2, <2>3
<1>7. ASSUME NEW p \in Proc, TryLock(p) PROVE TypeOK'
  <2>1. CASE HaveLock(p)
    BY <1>1, <1>2, <1>7, <2>1, HaveLockType DEF TryLock
  <2>2. CASE CantLock(p) /\ UNCHANGED kept
    BY <1>1, <2>2, LeaveType DEF CantLock
  <2>3. CASE ~HaveLock(p) /\ ~(CantLock(p) /\ UNCHANGED kept)
    <3>1. /\ ttw[p] >= wait[p].interval
          /\ ttw' = [ttw EXCEPT ![p] = Slept(p)]
          /\ Goto(p, "asleep")
          /\ UNCHANGED <<works, name, file, locks, desc, mode, wait, st_size,
                         alarm, header, new_desc, err, calls, kept>>
      BY <1>7, <2>3, Zenon DEF TryLock
    <3>2. Slept(p) \in Nat
      BY <1>n, <3>1 DEF Slept
    <3>3. QED
      BY <1>1, <3>1, <3>2 DEF Goto, TypeOK
  <2>4. QED
    BY <2>1, <2>2, <2>3
<1>8. ASSUME NEW p \in Proc, Wake(p) PROVE TypeOK'
  <2>1. PICK r \in 0 .. wait[p].interval : ttw' = [ttw EXCEPT ![p] = @ + r]
    BY <1>8 DEF Wake
  <2>2. ttw[p] + r \in Nat
    BY <1>n
  <2>3. ttw' \in [Proc -> Nat]
    BY <1>1, <2>1, <2>2 DEF TypeOK
  <2>4. QED
    BY <1>1, <1>8, <2>3 DEF Wake, Goto, TypeOK
<1>9. ASSUME NEW p \in Proc, SetAlarm(p) PROVE TypeOK'
  BY <1>1, <1>9 DEF SetAlarm, Goto, TypeOK
<1>10. ASSUME NEW p \in Proc, Block(p) PROVE TypeOK'
  <2>1. CASE HaveLock(p)
    BY <1>1, <1>2, <1>10, <2>1, HaveLockType DEF Block
  <2>2. CASE CantLock(p) /\ UNCHANGED kept
    BY <1>1, <2>2, LeaveType DEF CantLock
  <2>3. CASE ~HaveLock(p) /\ ~(CantLock(p) /\ UNCHANGED kept)
    BY <1>1, <1>10, <2>3 DEF Block, Goto, own, TypeOK
  <2>4. QED
    BY <2>1, <2>2, <2>3
<1>11. ASSUME NEW p \in Proc, GetLock(p) PROVE TypeOK'
  BY <1>1, <1>2, <1>11, HaveLockType DEF GetLock
<1>12. ASSUME NEW p \in Proc, Alarm(p) PROVE TypeOK'
  <2>1. CASE pc[p] = "blocked"
    BY <1>1, <1>12, <2>1, LeaveType DEF Alarm, CantLock
  <2>2. CASE pc[p] # "blocked"
    BY <1>1, <1>12, <2>2 DEF Alarm, TypeOK
  <2>3. QED
    BY <2>1, <2>2
<1>13. ASSUME NEW p \in Proc, OwnFailure(p) PROVE TypeOK'
  BY <1>1, <1>13, LeaveType DEF OwnFailure
<1>14. ASSUME NEW p \in Proc, Truncate(p) PROVE TypeOK'
  BY <1>1, <1>14 DEF Truncate, Goto, TypeOK
<1>15. ASSUME NEW p \in Proc, WriteHeader(p) PROVE TypeOK'
  <2>1. file' \in [Inode -> File]
    BY <1>1, <1>15, ZenonT(40) DEF WriteHeader, AtLeast, TypeOK, File
  <2>2. QED
    BY <1>1, <1>15, <2>1 DEF WriteHeader, Goto, own, TypeOK
<1>16. ASSUME NEW p \in Proc, WriteRest(p) PROVE TypeOK'
  <2>1. file' \in [Inode -> File]
    <3> DEFINE f == file[desc[p]]
    <3>1. desc[p] \in Inode /\ f \in File
      BY <1>1, <1>2, <1>16 DEF WriteRest, TypeOK
    <3>2. [f EXCEPT !.size = AtLeast(f.size, 4), !.recs = {}] \in File
      BY <3>1 DEF AtLeast, File
    <3>3. file' = [file EXCEPT ![desc[p]] = [f EXCEPT !.size = AtLeast(f.size, 4), !.recs = {}]]
      BY <1>1, <1>16, <3>1 DEF WriteRest, TypeOK
    <3>4. QED
      BY <1>1, <3>1, <3>2, <3>3 DEF TypeOK
  <2>2. QED
    BY <1>1, <1>16, <2>1 DEF WriteRest, Goto, TypeOK
<1>17. ASSUME NEW p \in Proc, ReadHeader(p) PROVE TypeOK'
  <2> DEFINE f == file[desc[p]]
  <2>1. f.hdr \in Header /\ f.size \in Nat
    BY <1>1, <1>2, <1>17 DEF ReadHeader, TypeOK, File
  <2>2. CASE \E e : Leave(p, e)
    BY <1>1, <1>17, <2>2, LeaveType DEF ReadHeader
  <2>3. CASE ~ \E e : Leave(p, e)
    BY <1>1, <1>17, <2>1, <2>3 DEF ReadHeader, Goto, TypeOK
  <2>4. QED
    BY <2>2, <2>3
<1>18. ASSUME NEW p \in Proc, Update(p) PROVE TypeOK'
  <2>1. PICK h \in {header[p], DirGrown} :
          /\ header' = [header EXCEPT ![p] = h]
          /\ file' = [file EXCEPT ![desc[p]] =
                         [hdr |-> h, size |-> AtLeast(@.size, h.next_block), recs |-> @.recs \cup {p}]]
    BY <1>18 DEF Update
  <2>2. h \in Header
    <3>1. pc[p] = "db" /\ desc[p] \in Inode
      BY <1>2, <1>18 DEF Update
    <3>2. header[p] = file[desc[p]].hdr
      BY <3>1 DEF IInv, FilesRight
    <3>3. file[desc[p]].hdr \in Header
      BY <1>1, <3>1 DEF TypeOK, File
    <3>4. QED
      BY <3>2, <3>3
  <2>3. desc[p] \in Inode
    BY <1>2, <1>18 DEF Update
  <2>4. [hdr |-> h, size |-> AtLeast(file[desc[p]].size, h.next_block),
         recs |-> file[desc[p]].recs \cup {p}] \in File
    BY <1>1, <2>2, <2>3 DEF TypeOK, File, Header, AtLeast
  <2>5. file' \in [Inode -> File] /\ header' \in [Proc -> Header \cup {None}]
    BY <1>1, <2>1, <2>2, <2>3, <2>4 DEF TypeOK
  <2>6. QED
    BY <1>1, <1>18, <2>5 DEF Update, TypeOK
<1>19. ASSUME NEW p \in Proc, Close(p) PROVE TypeOK'
  BY <1>1, <1>19, LeaveType DEF Close
<1>20. ASSUME NEW p \in Proc, RecCopy(p) PROVE TypeOK'
  <2>1. NewInode \in Inode /\ desc[p] \in Inode
    BY <1>2, <1>20, NewInodeIsFree DEF RecCopy, FreeInodes
  <2>2. Via(p) # None
    <3>1. NewLock(p, desc[p]) \in locks
      BY <1>20 DEF RecCopy, IInv, LocksHeld, Inside
    <3>2. NewLock(p, desc[p]) \in Lock
      BY <1>1, <3>1 DEF TypeOK
    <3>3. Via(p) \in {"flock", "posix"}
      BY <3>2 DEF NewLock, Lock
    <3>4. QED
      BY <3>3 DEF Via
  <2>3. NewLock(p, NewInode) \in Lock
    BY <2>1, <2>2 DEF NewLock, Lock, LockHow, Via
  <2>4. [hdr |-> NewHeader, size |-> 4, recs |-> file[desc[p]].recs] \in File
    BY <1>1, <2>1 DEF TypeOK, File
  <2>5. calls' \in 0 .. MaxCalls
    <3>1. calls' = calls + 1 /\ calls < MaxCalls
      BY <1>20 DEF RecCopy
    <3>2. QED
      BY <1>n, <3>1
  <2>6. QED
    BY <1>1, <1>20, <2>1, <2>3, <2>4, <2>5 DEF RecCopy, Goto, TypeOK
<1>21. ASSUME NEW p \in Proc, RecBackup(p) PROVE TypeOK'
  BY <1>1, <1>21 DEF RecBackup, Goto, own, TypeOK
<1>22. ASSUME NEW p \in Proc, RecRename(p) PROVE TypeOK'
  BY <1>1, <1>22 DEF RecRename, Goto, own, TypeOK
<1>23. ASSUME NEW p \in Proc, RecFail(p) PROVE TypeOK'
  <2>1. locks' \subseteq Lock
    BY <1>1, <1>23 DEF RecFail, Released, TypeOK
  <2>2. QED
    BY <1>1, <1>23, <2>1 DEF RecFail, Goto, own, TypeOK
<1>24. ASSUME NEW p \in Proc, RecSwap(p) PROVE TypeOK'
  <2>1. locks' \subseteq Lock
    BY <1>1, <1>24 DEF RecSwap, Released, TypeOK
  <2>2. file[new_desc[p]].hdr \in Header
    BY <1>1, <1>3, <1>24 DEF RecSwap, Recovering, TypeOK, File
  <2>3. QED
    BY <1>1, <1>24, <2>1, <2>2 DEF RecSwap, Goto, TypeOK
<1>25. ASSUME NEW p \in Proc, Crash(p) PROVE TypeOK'
  BY <1>1, <1>25 DEF Crash, Forget, Goto, TypeOK, Mode
<1>26. QED
  BY <1>4, <1>5, <1>6, <1>7, <1>8, <1>9, <1>10, <1>11, <1>12, <1>13, <1>14, <1>15, <1>16,
     <1>17, <1>18, <1>19, <1>20, <1>21, <1>22, <1>23, <1>24, <1>25 DEF Next, Step

-----------------------------------------------------------------------------
(* Locks and descriptors. *)

LockInv == NoStrayLock /\ DescsRight /\ LocksRight /\ LocksHeld

\* What another process may not do to a process: only p moves in the steps of p.
Others(p) ==
    \A q \in Proc \ {p} : /\ pc'[q] = pc[q] /\ desc'[q] = desc[q] /\ mode'[q] = mode[q]
                           /\ new_desc'[q] = new_desc[q]

\* Every process that takes a lock takes the same kind, on whatever file system
\* (the order of the mechanisms in _gdbm_lock_file).
LEMMA SameKind ==
    ASSUME NEW p \in Proc, NEW q \in Proc, Via(p) # None, Via(q) # None
    PROVE  Via(p) = Via(q)
BY DEF Via

\* A lock has a kind and is on a file, so it is on no descriptor that is not open.
LEMMA LockFacts ==
    ASSUME TypeOK, NEW l \in locks
    PROVE  /\ l.by \in Proc /\ l.on \in Inode /\ l.on # None
           /\ l.via # None
BY Constants DEF TypeOK, Lock

\* A step that moves a process neither in nor out of the lock, and leaves locks and
\* descriptors alone.
LEMMA Quiet ==
    ASSUME IInv, UNCHANGED <<works, name, locks, desc, mode, new_desc>>,
           \A q \in Proc :
               /\ Inside(q)' <=> Inside(q)
               /\ Recovering(q)' <=> Recovering(q)
               /\ (pc[q] = "closed")' <=> pc[q] = "closed"
               /\ (pc[q] \in {"copied", "backed up"})' <=> pc[q] \in {"copied", "backed up"}
    PROVE  LockInv'
<1>1. NoStrayLock'
  <2>1. \A l \in locks : l.by \in Proc
    BY LockFacts DEF IInv
  <2>2. QED
    BY <2>1 DEF IInv, NoStrayLock
<1>2. DescsRight'
  BY DEF IInv, DescsRight
<1>3. LocksRight'
  BY DEF IInv, LocksRight, LockHow, Via
<1>4. LocksHeld'
  BY DEF IInv, LocksHeld, NewLock, LockHow, Via
<1>5. QED
  BY <1>1, <1>2, <1>3, <1>4 DEF LockInv

\* Descriptors stay right when one process moves, if what it does to its own and to
\* the name suits the recoveries of the others.
LEMMA DescsStep ==
    ASSUME IInv, NEW p \in Proc, Others(p),
           (pc[p] = "closed")' <=> (desc[p] = None)',
           Recovering(p)' <=> (new_desc[p] # None)',
           Recovering(p)' => (new_desc[p] # desc[p])',
           \A q \in Proc \ {p} : Recovering(p)' => new_desc[q] # new_desc'[p],
           pc'[p] \in {"copied", "backed up"} =>
               name' # new_desc'[p] /\ \A q \in Proc \ {p} : desc[q] # new_desc'[p],
           \A q \in Proc \ {p} : pc[q] \in {"copied", "backed up"} =>
               name' # new_desc[q] /\ desc'[p] # new_desc[q]
    PROVE  DescsRight'
<1> SUFFICES ASSUME NEW q \in Proc
             PROVE  /\ (pc[q] = "closed")' <=> (desc[q] = None)'
                    /\ Recovering(q)' <=> (new_desc[q] # None)'
                    /\ Recovering(q)' => (new_desc[q] # desc[q])'
                    /\ \A r \in Proc : q # r /\ Recovering(q)' => (new_desc[r] # new_desc[q])'
                    /\ pc'[q] \in {"copied", "backed up"} =>
                          name' # new_desc'[q] /\ \A r \in Proc : desc'[r] # new_desc'[q]
  BY DEF DescsRight
<1>1. CASE q = p
  BY <1>1 DEF Others, Recovering
<1>2. CASE q # p
  <2>1. Recovering(q)' <=> Recovering(q)
    BY <1>2 DEF Others, Recovering
  <2>2. Recovering(q) => new_desc'[p] # new_desc[q]
    BY <1>2 DEF IInv, DescsRight
  <2>3. pc'[q] = pc[q] /\ desc'[q] = desc[q] /\ new_desc'[q] = new_desc[q]
    BY <1>2 DEF Others
  <2>4. \A r \in Proc : q # r /\ Recovering(q)' => (new_desc[r] # new_desc[q])'
    BY <1>2, <2>1, <2>2, <2>3, ZenonT(40) DEF Others, IInv, DescsRight
  <2>5. ASSUME pc'[q] \in {"copied", "backed up"}
        PROVE  name' # new_desc'[q] /\ \A r \in Proc : desc'[r] # new_desc'[q]
    <3>1. \A r \in Proc : desc[r] # new_desc[q]
      BY <2>3, <2>5 DEF IInv, DescsRight
    <3>2. QED
      BY <1>2, <2>3, <2>5, <3>1 DEF Others
  <2>6. QED
    BY <2>1, <2>3, <2>4, <2>5 DEF IInv, DescsRight
<1>3. QED
  BY <1>1, <1>2

\* A process that does not recover has one file at most, and leaves no lock behind.
LEMMA LeaveLocks ==
    ASSUME IInv, NEW p \in Proc, NEW e, Leave(p, e), ~Recovering(p)
    PROVE  LockInv'
<1>1. /\ pc'[p] = "closed" /\ desc'[p] = None /\ new_desc'[p] = None
      /\ Others(p) /\ works' = works /\ name' = name
  BY DEF Leave, Forget, Goto, Others, IInv, TypeOK, DescsRight
<1>2. locks' = {l \in locks : l.by # p}
  <2>1. \A l \in locks : l.by = p => l.on = desc[p]
    BY LockFacts DEF IInv, NoStrayLock, DescsRight
  <2>2. QED
    BY <2>1 DEF Leave, Released
<1>3. \A l \in locks' : l \in locks /\ l.by \in Proc \ {p}
  BY <1>2, LockFacts DEF IInv
<1>4. NoStrayLock'
  BY <1>1, <1>3 DEF Others, IInv, NoStrayLock, Inside
<1>5. DescsRight'
  BY <1>1, DescsStep, Constants DEF IInv, TypeOK, DescsRight, Recovering
<1>6. LocksRight'
  BY <1>1, <1>3 DEF Others, IInv, LocksRight, LockHow, Via
<1>7. LocksHeld'
  <2> SUFFICES ASSUME NEW q \in Proc, q # p
               PROVE  /\ Inside(q)' => NewLock(q, desc[q])' \in locks'
                      /\ Recovering(q)' => NewLock(q, new_desc[q])' \in locks'
    BY <1>1 DEF LocksHeld, Inside, Recovering
  <2>1. NewLock(q, desc[q])' = NewLock(q, desc[q]) /\ NewLock(q, new_desc[q])' = NewLock(q, new_desc[q])
    BY <1>1 DEF Others, NewLock, LockHow, Via
  <2>2. \A i : NewLock(q, i) \in locks => NewLock(q, i) \in locks'
    BY <1>2 DEF NewLock
  <2>3. (Inside(q)' => Inside(q)) /\ (Recovering(q)' => Recovering(q))
    BY <1>1 DEF Others, Inside, Recovering
  <2>4. QED
    BY <2>1, <2>2, <2>3 DEF IInv, LocksHeld
<1>8. QED
  BY <1>4, <1>5, <1>6, <1>7 DEF LockInv

\* A process that gets the lock of the file it has opened had none before.
LEMMA HaveLockLocks ==
    ASSUME IInv, NEW p \in Proc, HaveLock(p), pc[p] \in {"lock", "armed", "blocked"}
    PROVE  LockInv'
<1> DEFINE n == NewLock(p, desc[p])
<1>1. /\ pc'[p] = "truncate" /\ Others(p)
      /\ UNCHANGED <<works, name, desc, mode, new_desc>> /\ locks' = locks \cup {n}
      /\ Grants(p, desc[p])
  BY DEF HaveLock, Goto, Others, IInv, TypeOK
<1>2. n.by = p /\ n.on = desc[p] /\ n.how = LockHow(p) /\ n.via = Via(p)
  BY DEF NewLock
<1>3. \A l \in locks : l.by \in Proc \ {p}
  BY LockFacts DEF IInv, NoStrayLock, Inside
<1>4. NoStrayLock'
  BY <1>1, <1>2, <1>3 DEF Others, IInv, NoStrayLock, Inside
<1>5. DescsRight'
  BY <1>1 DEF Others, IInv, DescsRight, Recovering
<1>6. \A l \in locks : l.on = desc[p] => l.how = "sh" /\ LockHow(p) = "sh"
  <2> SUFFICES ASSUME NEW l \in locks, l.on = desc[p] PROVE l.how = "sh" /\ LockHow(p) = "sh"
    OBVIOUS
  <2>1. l.via = Via(l.by) /\ l.via # None /\ l.by \in Proc /\ l.by # p
    BY <1>3, LockFacts DEF IInv, LocksRight
  <2>2. l.via = Via(p)
    BY <1>1, <2>1, SameKind DEF Grants
  <2>3. QED
    BY <1>1, <2>1, <2>2 DEF Grants
<1>7. LocksRight'
  <2>1. \A l \in locks' : l.how = LockHow(l.by)' /\ l.via = Via(l.by)'
    BY <1>1, <1>2 DEF IInv, LocksRight, LockHow, Via
  <2>2. \A k, l \in locks' : k.on = l.on /\ k.by # l.by => k.how = "sh"
    BY <1>1, <1>2, <1>6 DEF IInv, LocksRight
  <2>3. QED
    BY <2>1, <2>2 DEF LocksRight
<1>8. LocksHeld'
  BY <1>1 DEF Others, IInv, LocksHeld, Inside, Recovering, NewLock, LockHow, Via
<1>9. QED
  BY <1>4, <1>5, <1>7, <1>8 DEF LockInv

\* The name never leads to the new file of a recovery that is still under way, so
\* that open(2) does not either.
LEMMA OpenLocks ==
    ASSUME IInv, NEW p \in Proc, NEW c \in Calls, Open(p, c[1], c[2])
    PROVE  LockInv'
<1>1. CASE name = None /\ c[1] \notin {"wrcreat", "newdb"}
  <2>1. UNCHANGED <<works, name, locks, pc, desc, mode, new_desc>>
    BY <1>1 DEF Open
  <2>2. QED
    BY <2>1, Quiet DEF Inside, Recovering
<1>2. CASE ~(name = None /\ c[1] \notin {"wrcreat", "newdb"})
  <2> DEFINE i == IF name = None THEN NewInode ELSE name
  <2>1. /\ pc[p] = "closed" /\ pc'[p] = "stat" /\ desc'[p] = i /\ name' = i /\ Others(p)
        /\ UNCHANGED <<works, locks, new_desc>>
    BY <1>2, ZenonT(40) DEF Open, Goto, Others, IInv, TypeOK
  <2>2. i # None /\ \A q \in Proc : pc[q] \in {"copied", "backed up"} => i # new_desc[q]
    BY <1>2, NewInodeIsFree, Constants DEF Open, FreeInodes, IInv, DescsRight
  <2> HIDE DEF i
  <2>3. \A l \in locks : l.by \in Proc \ {p}
    BY <2>1, LockFacts DEF IInv, NoStrayLock, Inside
  <2>4. NoStrayLock'
    BY <2>1, <2>3 DEF Others, IInv, NoStrayLock, Inside
  <2>5. DescsRight'
    <3>1. ~Recovering(p) /\ ~Recovering(p)' /\ new_desc'[p] = None
      BY <2>1 DEF IInv, DescsRight, Recovering
    <3>2. QED
      BY <2>1, <2>2, <3>1, DescsStep
  <2>6. LocksRight'
    BY <2>1, <2>3 DEF Others, IInv, LocksRight, LockHow, Via
  <2>7. LocksHeld'
    BY <2>1 DEF Others, IInv, LocksHeld, Inside, Recovering, NewLock, LockHow, Via
  <2>8. QED
    BY <2>4, <2>5, <2>6, <2>7 DEF LockInv
<1>3. QED
  BY <1>1, <1>2

\* gdbm_recover: nobody can hold a lock of the file mkstemp has just made.
LEMMA RecCopyLocks ==
    ASSUME IInv, NEW p \in Proc, RecCopy(p)
    PROVE  LockInv'
<1> DEFINE n == NewLock(p, NewInode)
<1>1. /\ pc[p] = "db" /\ pc'[p] = "copied" /\ Others(p)
      /\ new_desc'[p] = NewInode /\ UNCHANGED <<works, name, desc, mode>>
      /\ locks' = locks \cup {n}
  BY DEF RecCopy, Goto, Others, IInv, TypeOK
<1>2. /\ NewInode # None /\ NewInode # name
      /\ \A q \in Proc : desc[q] # NewInode /\ new_desc[q] # NewInode
  BY NewInodeIsFree, Constants DEF RecCopy, FreeInodes
<1>3. n.by = p /\ n.on = NewInode /\ n.how = LockHow(p) /\ n.via = Via(p)
  BY DEF NewLock
<1>4. \A l \in locks : l.by \in Proc /\ l.on # NewInode
  BY <1>2, LockFacts DEF IInv, NoStrayLock
<1>5. NoStrayLock'
  <2>1. \A l \in locks : l.by = p => l.on = desc[p]
    BY <1>1, LockFacts DEF IInv, NoStrayLock, DescsRight, Recovering
  <2> SUFFICES ASSUME NEW l \in locks'
               PROVE  Inside(l.by)' /\ l.on \in {desc'[l.by], new_desc'[l.by]}
    BY DEF NoStrayLock
  <2>2. CASE l = n
    BY <1>1, <1>3, <2>2 DEF Inside
  <2>3. CASE l \in locks /\ l.by = p
    BY <1>1, <2>1, <2>3 DEF Inside
  <2>4. CASE l \in locks /\ l.by # p
    BY <1>1, <1>4, <2>4 DEF Others, IInv, NoStrayLock, Inside
  <2>5. QED
    BY <1>1, <2>2, <2>3, <2>4
<1>6. DescsRight'
  BY <1>1, <1>2, DescsStep DEF IInv, DescsRight, Recovering
<1>7. LocksRight'
  <2>1. \A l \in locks' : l.how = LockHow(l.by)' /\ l.via = Via(l.by)'
    BY <1>1, <1>3 DEF IInv, LocksRight, LockHow, Via
  <2>2. \A k, l \in locks' : k.on = l.on /\ k.by # l.by => k.how = "sh"
    BY <1>1, <1>3, <1>4 DEF IInv, LocksRight
  <2>3. QED
    BY <2>1, <2>2 DEF LocksRight
<1>8. LocksHeld'
  <2> SUFFICES ASSUME NEW q \in Proc
               PROVE  /\ Inside(q)' => NewLock(q, desc[q])' \in locks'
                      /\ Recovering(q)' => NewLock(q, new_desc[q])' \in locks'
    BY DEF LocksHeld
  <2>1. NewLock(q, desc[q])' = NewLock(q, desc[q])
    BY <1>1 DEF NewLock, LockHow, Via
  <2>2. CASE q = p
    BY <1>1, <2>1, <2>2 DEF IInv, LocksHeld, Inside, NewLock, LockHow, Via
  <2>3. CASE q # p
    <3>1. NewLock(q, new_desc[q])' = NewLock(q, new_desc[q])
      BY <1>1, <2>3 DEF Others, NewLock, LockHow, Via
    <3>2. (Inside(q)' => Inside(q)) /\ (Recovering(q)' => Recovering(q))
      BY <1>1, <2>3 DEF Others, Inside, Recovering
    <3>3. QED
      BY <1>1, <2>1, <3>1, <3>2 DEF IInv, LocksHeld
  <2>4. QED
    BY <2>2, <2>3
<1>9. QED
  BY <1>5, <1>6, <1>7, <1>8 DEF LockInv

\* _gdbm_finish_transfer: the name is given up or leads to the new file.
LEMMA RenameLocks ==
    ASSUME IInv, NEW p \in Proc, RecBackup(p) \/ RecRename(p)
    PROVE  LockInv'
<1>1. /\ pc[p] \in {"copied", "backed up"} /\ pc'[p] \in {"backed up", "renamed"} /\ Others(p)
      /\ UNCHANGED <<works, desc, mode, new_desc, locks>>
      /\ name' = None \/ (name' = new_desc[p] /\ pc'[p] = "renamed")
  BY DEF RecBackup, RecRename, own, Goto, Others, IInv, TypeOK
<1>2. \A q \in Proc : (Inside(q)' <=> Inside(q)) /\ (Recovering(q)' <=> Recovering(q))
  BY <1>1 DEF Others, Inside, Recovering
<1>3. NoStrayLock'
  <2>1. \A l \in locks : l.by \in Proc
    BY LockFacts DEF IInv
  <2>2. QED
    BY <1>1, <1>2, <2>1 DEF IInv, NoStrayLock
<1>4. DescsRight'
  <2>1. Recovering(p) /\ new_desc[p] # None
    BY <1>1 DEF Recovering, IInv, DescsRight
  <2>2. \A q \in Proc : pc[q] \in {"copied", "backed up"} => new_desc[q] # None
    BY DEF Recovering, IInv, DescsRight
  <2>3. \A q \in Proc \ {p} : new_desc[q] # new_desc[p]
    BY <2>1 DEF IInv, DescsRight
  <2>4. (pc[p] = "closed" <=> desc[p] = None) /\ new_desc[p] # desc[p]
    BY <2>1 DEF IInv, DescsRight
  <2>5. \A q, r \in Proc : pc[q] \in {"copied", "backed up"} => desc[r] # new_desc[q]
    BY DEF IInv, DescsRight
  <2>6. QED
    BY <1>1, <1>2, <2>1, <2>2, <2>3, <2>4, <2>5, DescsStep
<1>5. LocksRight'
  BY <1>1 DEF IInv, LocksRight, LockHow, Via
<1>6. LocksHeld'
  BY <1>1, <1>2 DEF IInv, LocksHeld, NewLock, LockHow, Via
<1>7. QED
  BY <1>3, <1>4, <1>5, <1>6 DEF LockInv

\* One of the two files of a recovery is unlocked and closed, and the process keeps
\* the other one with its lock.
LEMMA RecEndLocks ==
    ASSUME IInv, NEW p \in Proc, RecFail(p) \/ RecSwap(p)
    PROVE  LockInv'
<1> DEFINE keep == desc'[p]
           drop == IF keep = desc[p] THEN new_desc[p] ELSE desc[p]
<1>1. /\ Recovering(p) /\ pc'[p] = "db" /\ Others(p) /\ new_desc'[p] = None
      /\ UNCHANGED <<works, name, mode>>
      /\ \/ desc'[p] = desc[p] /\ locks' = Released(p, new_desc[p])
         \/ desc'[p] = new_desc[p] /\ pc[p] = "renamed" /\ locks' = Released(p, desc[p])
  BY DEF RecFail, RecSwap, own, Goto, Others, Recovering, IInv, TypeOK
<1>2. desc[p] # new_desc[p] /\ desc[p] # None /\ new_desc[p] # None
  BY <1>1 DEF IInv, DescsRight, Recovering
<1>3. /\ keep \in {desc[p], new_desc[p]} /\ keep # drop /\ {keep, drop} = {desc[p], new_desc[p]}
      /\ keep # None
      /\ locks' = {l \in locks : ~(l.by = p /\ l.on = drop)}
  BY <1>1, <1>2 DEF Released
<1> HIDE DEF keep, drop
<1>4. \A l \in locks' : l \in locks /\ l.by \in Proc /\ (l.by = p => l.on = keep)
  BY <1>3, LockFacts DEF IInv, NoStrayLock
<1>5. keep = desc'[p]
  BY DEF keep
<1>6. NoStrayLock'
  BY <1>1, <1>4, <1>5 DEF Others, IInv, NoStrayLock, Inside
<1>7. DescsRight'
  <2>1. \A q, r \in Proc : pc[q] \in {"copied", "backed up"} => desc[r] # new_desc[q] /\ name # new_desc[q]
    BY DEF IInv, DescsRight
  <2>2. \A q \in Proc \ {p} : new_desc[q] # new_desc[p]
    BY <1>1 DEF IInv, DescsRight
  <2>3. ~Recovering(p)' /\ pc'[p] # "closed" /\ pc'[p] \notin {"copied", "backed up"}
    BY <1>1 DEF Recovering
  <2>4. QED
    BY <1>1, <1>2, <2>1, <2>2, <2>3, DescsStep
<1>8. LocksRight'
  BY <1>1, <1>4 DEF IInv, LocksRight, LockHow, Via
<1>9. LocksHeld'
  <2> SUFFICES ASSUME NEW q \in Proc
               PROVE  /\ Inside(q)' => NewLock(q, desc[q])' \in locks'
                      /\ Recovering(q)' => NewLock(q, new_desc[q])' \in locks'
    BY DEF LocksHeld
  <2>1. CASE q = p
    <3>1. NewLock(p, keep) \in locks
      BY <1>1, <1>3 DEF IInv, LocksHeld, Inside, Recovering
    <3>2. NewLock(p, keep) \in locks'
      BY <1>3, <3>1 DEF NewLock
    <3>3. NewLock(p, desc[p])' = NewLock(p, keep)
      BY <1>1, <1>5 DEF NewLock, LockHow, Via
    <3>4. QED
      BY <1>1, <2>1, <3>2, <3>3 DEF Recovering
  <2>2. CASE q # p
    <3>1. /\ NewLock(q, new_desc[q])' = NewLock(q, new_desc[q])
          /\ NewLock(q, desc[q])' = NewLock(q, desc[q])
      BY <1>1, <2>2 DEF Others, NewLock, LockHow, Via
    <3>2. (Inside(q)' => Inside(q)) /\ (Recovering(q)' => Recovering(q))
      BY <1>1, <2>2 DEF Others, Inside, Recovering
    <3>3. \A i : NewLock(q, i) \in locks => NewLock(q, i) \in locks'
      BY <1>3, <2>2 DEF NewLock
    <3>4. QED
      BY <3>1, <3>2, <3>3 DEF IInv, LocksHeld
  <2>3. QED
    BY <2>1, <2>2
<1>10. QED
  BY <1>6, <1>7, <1>8, <1>9 DEF LockInv

\* The kernel closes all the descriptors of a process that dies.
LEMMA CrashLocks ==
    ASSUME IInv, NEW p \in Proc, Crash(p)
    PROVE  LockInv'
<1>1. /\ pc'[p] = "closed" /\ desc'[p] = None /\ new_desc'[p] = None
      /\ Others(p) /\ works' = works /\ name' = name
      /\ locks' = {l \in locks : l.by # p}
  BY DEF Crash, Forget, Goto, Others, IInv, TypeOK
<1>2. \A l \in locks' : l \in locks /\ l.by \in Proc \ {p}
  BY <1>1, LockFacts DEF IInv
<1>3. NoStrayLock'
  BY <1>1, <1>2 DEF Others, IInv, NoStrayLock, Inside
<1>4. DescsRight'
  <2>1. \A q \in Proc : pc[q] \in {"copied", "backed up"} => new_desc[q] # None /\ name # new_desc[q]
    BY DEF IInv, DescsRight, Recovering
  <2>2. ~Recovering(p)' /\ pc'[p] \notin {"copied", "backed up"}
    BY <1>1 DEF Recovering
  <2>3. QED
    BY <1>1, <2>1, <2>2, DescsStep
<1>5. LocksRight'
  BY <1>1, <1>2 DEF Others, IInv, LocksRight, LockHow, Via
<1>6. LocksHeld'
  <2> SUFFICES ASSUME NEW q \in Proc, q # p
               PROVE  /\ Inside(q)' => NewLock(q, desc[q])' \in locks'
                      /\ Recovering(q)' => NewLock(q, new_desc[q])' \in locks'
    BY <1>1 DEF LocksHeld, Inside, Recovering
  <2>1. NewLock(q, desc[q])' = NewLock(q, desc[q]) /\ NewLock(q, new_desc[q])' = NewLock(q, new_desc[q])
    BY <1>1 DEF Others, NewLock, LockHow, Via
  <2>2. \A i : NewLock(q, i) \in locks => NewLock(q, i) \in locks'
    BY <1>1 DEF NewLock
  <2>3. (Inside(q)' => Inside(q)) /\ (Recovering(q)' => Recovering(q))
    BY <1>1 DEF Others, Inside, Recovering
  <2>4. QED
    BY <2>1, <2>2, <2>3 DEF IInv, LocksHeld
<1>7. QED
  BY <1>3, <1>4, <1>5, <1>6 DEF LockInv

\* Every step of every process keeps locks and descriptors right.
LEMMA LockStep == IInv /\ [Next]_vars => LockInv'
<1> SUFFICES ASSUME IInv, [Next]_vars PROVE LockInv'
  OBVIOUS
<1>1. CASE UNCHANGED vars
  BY <1>1, Quiet DEF vars, Inside, Recovering
<1>2. ASSUME NEW p \in Proc, NEW c \in Calls, Open(p, c[1], c[2]) PROVE LockInv'
  BY <1>2, OpenLocks
<1>3. ASSUME NEW p \in Proc, Stat(p) PROVE LockInv'
  <2>1. CASE \E e : Leave(p, e)
    BY <1>3, <2>1, LeaveLocks DEF Stat, Recovering
  <2>2. CASE ~ \E e : Leave(p, e)
    <3>1. pc[p] = "stat" /\ Goto(p, "lock") /\ UNCHANGED <<works, name, locks, desc, mode, new_desc>>
      BY <1>3, <2>2 DEF Stat
    <3>2. QED
      BY <3>1, Quiet DEF Goto, Inside, Recovering, IInv, TypeOK
  <2>3. QED
    BY <2>1, <2>2
<1>4. ASSUME NEW p \in Proc, TryLock(p) PROVE LockInv'
  <2>1. CASE HaveLock(p)
    BY <1>4, <2>1, HaveLockLocks DEF TryLock
  <2>2. CASE CantLock(p)
    BY <1>4, <2>2, LeaveLocks DEF TryLock, CantLock, Recovering
  <2>3. CASE ~HaveLock(p) /\ ~CantLock(p)
    <3>1. pc[p] = "lock" /\ Goto(p, "asleep") /\ UNCHANGED <<works, name, locks, desc, mode, new_desc>>
      BY <1>4, <2>3, Zenon DEF TryLock
    <3>2. QED
      BY <3>1, Quiet DEF Goto, Inside, Recovering, IInv, TypeOK
  <2>4. QED
    BY <2>1, <2>2, <2>3
<1>5. ASSUME NEW p \in Proc, Wake(p) PROVE LockInv'
  BY <1>5, Quiet DEF Wake, Goto, Inside, Recovering, IInv, TypeOK
<1>6. ASSUME NEW p \in Proc, SetAlarm(p) PROVE LockInv'
  BY <1>6, Quiet DEF SetAlarm, Goto, Inside, Recovering, IInv, TypeOK
<1>7. ASSUME NEW p \in Proc, Block(p) PROVE LockInv'
  <2>1. CASE HaveLock(p)
    BY <1>7, <2>1, HaveLockLocks DEF Block
  <2>2. CASE CantLock(p)
    BY <1>7, <2>2, LeaveLocks DEF Block, CantLock, Recovering
  <2>3. CASE ~HaveLock(p) /\ ~CantLock(p)
    BY <1>7, <2>3, Quiet DEF Block, own, Goto, Inside, Recovering, IInv, TypeOK
  <2>4. QED
    BY <2>1, <2>2, <2>3
<1>8. ASSUME NEW p \in Proc, GetLock(p) PROVE LockInv'
  BY <1>8, HaveLockLocks DEF GetLock
<1>9. ASSUME NEW p \in Proc, Alarm(p) PROVE LockInv'
  <2>1. CASE pc[p] = "blocked"
    BY <1>9, <2>1, LeaveLocks DEF Alarm, CantLock, Recovering
  <2>2. CASE pc[p] # "blocked"
    BY <1>9, <2>2, Quiet DEF Alarm, Inside, Recovering
  <2>3. QED
    BY <2>1, <2>2
<1>10. ASSUME NEW p \in Proc, OwnFailure(p) PROVE LockInv'
  BY <1>10, LeaveLocks DEF OwnFailure, Recovering
<1>11. ASSUME NEW p \in Proc, Truncate(p) PROVE LockInv'
  BY <1>11, Quiet DEF Truncate, Goto, Inside, Recovering, IInv, TypeOK
<1>12. ASSUME NEW p \in Proc, WriteHeader(p) PROVE LockInv'
  BY <1>12, Quiet DEF WriteHeader, own, Goto, Inside, Recovering, IInv, TypeOK
<1>13. ASSUME NEW p \in Proc, WriteRest(p) PROVE LockInv'
  BY <1>13, Quiet DEF WriteRest, Goto, Inside, Recovering, IInv, TypeOK
<1>14. ASSUME NEW p \in Proc, ReadHeader(p) PROVE LockInv'
  <2>1. CASE \E e : Leave(p, e)
    BY <1>14, <2>1, LeaveLocks DEF ReadHeader, Recovering
  <2>2. CASE ~ \E e : Leave(p, e)
    <3>1. pc[p] = "read" /\ Goto(p, "db") /\ UNCHANGED <<works, name, locks, desc, mode, new_desc>>
      BY <1>14, <2>2 DEF ReadHeader
    <3>2. QED
      BY <3>1, Quiet DEF Goto, Inside, Recovering, IInv, TypeOK
  <2>3. QED
    BY <2>1, <2>2
<1>15. ASSUME NEW p \in Proc, Update(p) PROVE LockInv'
  BY <1>15, Quiet DEF Update, Inside, Recovering
<1>16. ASSUME NEW p \in Proc, Close(p) PROVE LockInv'
  BY <1>16, LeaveLocks DEF Close, Recovering
<1>17. QED
  BY <1>1, <1>2, <1>3, <1>4, <1>5, <1>6, <1>7, <1>8, <1>9, <1>10, <1>11, <1>12, <1>13, <1>14,
     <1>15, <1>16, RecCopyLocks, RenameLocks, RecEndLocks, CrashLocks DEF Next, Step

-----------------------------------------------------------------------------
(* Who may write. *)

\* Two processes past the lock call of one file hold locks of the same kind on it, so
\* both locks are shared, and only a reader asks for a shared one.
LEMMA AloneFromLocks == IInv => WriterAlone
<1> SUFFICES ASSUME IInv, NEW p \in Proc, NEW q \in Proc, p # q, Inside(p), Inside(q),
                    desc[p] = desc[q]
             PROVE  mode[p] = "reader"
  BY DEF WriterAlone
<1> DEFINE k == NewLock(p, desc[p])
           l == NewLock(q, desc[q])
<1>1. k \in locks /\ l \in locks
  BY DEF IInv, LocksHeld
<1>2. k.on = l.on /\ k.by # l.by /\ k.how = LockHow(p)
  BY DEF NewLock
<1>3. k.how = "sh"
  BY <1>1, <1>2 DEF IInv, LocksRight
<1>4. QED
  BY <1>2, <1>3 DEF LockHow

FileInv == CreatesAsWriter /\ FilesRight

\* What the steps of p leave alone of the other processes' own data.
OthersData(p) ==
    \A q \in Proc \ {p} : st_size'[q] = st_size[q] /\ header'[q] = header[q]

\* Files and headers stay right when one process moves, if it does not touch the
\* header of a file that somebody else uses.
LEMMA FilesStep ==
    ASSUME IInv, NEW p \in Proc, Others(p), OthersData(p),
           \A q \in Proc \ {p} : Inside(q) => file'[desc[q]].hdr = file[desc[q]].hdr,
           (mode[p] = "reader")' =>
               /\ pc'[p] \notin {"create", "created"}
               /\ pc'[p] \in {"lock", "asleep", "armed", "blocked", "truncate"} => st_size'[p] # 0,
           pc'[p] \in {"db", "copied", "backed up"} => header'[p] = file'[desc'[p]].hdr,
           pc'[p] = "created" => file'[desc'[p]].hdr = NewHeader
    PROVE  FileInv'
<1>1. CreatesAsWriter'
  BY DEF Others, OthersData, IInv, CreatesAsWriter
<1>2. FilesRight'
  <2> SUFFICES ASSUME NEW q \in Proc
               PROVE  /\ pc'[q] \in {"db", "copied", "backed up"} => header'[q] = file'[desc'[q]].hdr
                      /\ pc'[q] = "created" => file'[desc'[q]].hdr = NewHeader
    BY DEF FilesRight
  <2>1. CASE q = p
    BY <2>1
  <2>2. CASE q # p
    <3>1. pc'[q] = pc[q] /\ desc'[q] = desc[q] /\ header'[q] = header[q]
      BY <2>2 DEF Others, OthersData
    <3>2. pc[q] \in {"db", "copied", "backed up", "created"} => file'[desc[q]].hdr = file[desc[q]].hdr
      BY <2>2 DEF Inside
    <3>3. QED
      BY <3>1, <3>2 DEF IInv, FilesRight
  <2>3. QED
    BY <2>1, <2>2
<1>3. QED
  BY <1>1, <1>2 DEF FileInv

\* The same for a step that writes nothing.
LEMMA NoWriteStep ==
    ASSUME IInv, NEW p \in Proc, Others(p), OthersData(p), file' = file,
           (mode[p] = "reader")' =>
               /\ pc'[p] \notin {"create", "created"}
               /\ pc'[p] \in {"lock", "asleep", "armed", "blocked", "truncate"} => st_size'[p] # 0,
           pc'[p] \in {"db", "copied", "backed up"} => header'[p] = file[desc'[p]].hdr,
           pc'[p] # "created"
    PROVE  FileInv'
BY FilesStep

\* A process that leaves, on its own account or because it dies.
LEMMA ForgetFiles ==
    ASSUME IInv, NEW p \in Proc, Forget(p), Others(p)
    PROVE  FileInv'
<1>1. pc'[p] = "closed" /\ OthersData(p) /\ file' = file
  BY DEF Forget, Goto, OthersData, IInv, TypeOK
<1>2. QED
  BY <1>1, NoWriteStep

\* gdbm_close, or an error return of gdbm_open_ext, writes nothing.
LEMMA LeaveFiles ==
    ASSUME IInv, NEW p \in Proc, NEW e, Leave(p, e)
    PROVE  FileInv'
<1>1. Others(p)
  BY DEF Leave, Forget, Goto, Others, IInv, TypeOK
<1>2. QED
  BY <1>1, ForgetFiles DEF Leave

\* The lock call writes nothing.
LEMMA HaveLockFiles ==
    ASSUME IInv, NEW p \in Proc, HaveLock(p), pc[p] \in {"lock", "armed", "blocked"}
    PROVE  FileInv'
<1>1. Others(p) /\ OthersData(p) /\ pc'[p] = "truncate" /\ UNCHANGED <<file, mode, st_size>>
  BY DEF HaveLock, Goto, Others, OthersData, IInv, TypeOK
<1>2. QED
  BY <1>1, NoWriteStep DEF IInv, CreatesAsWriter

\* A step inside the lock call.
LEMMA WaitFiles ==
    ASSUME IInv, NEW p \in Proc, Others(p), OthersData(p),
           {pc[p], pc'[p]} \subseteq {"lock", "asleep", "armed", "blocked"},
           UNCHANGED <<file, mode, st_size>>
    PROVE  FileInv'
BY NoWriteStep DEF IInv, CreatesAsWriter

\* Whoever may write a file shares it with nobody who is past the lock call.
LEMMA WriterFiles ==
    ASSUME IInv, NEW p \in Proc, Inside(p), mode[p] # "reader", Others(p), OthersData(p),
           NEW f, file' = [file EXCEPT ![desc[p]] = f], UNCHANGED <<desc, mode>>,
           pc'[p] \in {"db", "copied", "backed up"} => header'[p] = f.hdr,
           pc'[p] = "created" => f.hdr = NewHeader
    PROVE  FileInv'
<1>1. desc[p] \in Inode /\ file \in [Inode -> File]
  BY DEF IInv, DescsRight, TypeOK, Inside
<1>2. \A q \in Proc \ {p} : Inside(q) => desc[q] # desc[p]
  BY AloneFromLocks DEF WriterAlone
<1>3. \A q \in Proc \ {p} : Inside(q) => desc[q] \in Inode
  BY DEF IInv, DescsRight, TypeOK, Inside
<1>4. \A q \in Proc \ {p} : Inside(q) => file'[desc[q]] = file[desc[q]]
  BY <1>1, <1>2, <1>3
<1>5. file'[desc'[p]] = f
  BY <1>1
<1>6. QED
  BY <1>4, <1>5, FilesStep

\* Every step of every process keeps the headers in memory equal to those in the files,
\* and lets nobody but a writer create a database.
LEMMA FileStep == IInv /\ [Next]_vars => FileInv'
<1> SUFFICES ASSUME IInv, [Next]_vars PROVE FileInv'
  OBVIOUS
<1>t. TypeOK /\ \A p \in Proc : pc[p] # "closed" => desc[p] \in Inode
  BY DEF IInv, DescsRight, TypeOK
<1>1. CASE UNCHANGED vars
  BY <1>1 DEF vars, IInv, FileInv, CreatesAsWriter, FilesRight
<1>2. ASSUME NEW p \in Proc, NEW c \in Calls, Open(p, c[1], c[2]) PROVE FileInv'
  <2>1. CASE name = None /\ c[1] \notin {"wrcreat", "newdb"}
    BY <1>2, <2>1 DEF Open, IInv, FileInv, CreatesAsWriter, FilesRight
  <2>2. CASE ~(name = None /\ c[1] \notin {"wrcreat", "newdb"})
    <3>1. Others(p) /\ OthersData(p) /\ pc'[p] = "stat"
      BY <1>2, <1>t, <2>2, ZenonT(40) DEF Open, Goto, Others, OthersData, TypeOK
    <3>2. CASE name = None
      <4>1. NewInode \in FreeInodes /\ file' = [file EXCEPT ![NewInode] = EmptyFile]
        BY <1>2, <2>2, <3>2, NewInodeIsFree DEF Open
      <4>2. \A q \in Proc : Inside(q) => desc[q] # NewInode /\ desc[q] \in Inode
        BY <1>t, <4>1 DEF FreeInodes, Inside
      <4>3. \A q \in Proc : Inside(q) => file'[desc[q]] = file[desc[q]]
        BY <1>t, <4>1, <4>2 DEF TypeOK
      <4>4. QED
        BY <3>1, <4>3, FilesStep
    <3>3. CASE name # None
      BY <1>2, <2>2, <3>1, <3>3, NoWriteStep DEF Open
    <3>4. QED
      BY <3>2, <3>3
  <2>3. QED
    BY <2>1, <2>2
<1>3. ASSUME NEW p \in Proc, Stat(p) PROVE FileInv'
  <2>1. CASE \E e : Leave(p, e)
    BY <2>1, LeaveFiles
  <2>2. CASE ~ \E e : Leave(p, e)
    <3>1. /\ mode[p] = "reader" => file[desc[p]].size # 0
          /\ st_size' = [st_size EXCEPT ![p] = file[desc[p]].size]
          /\ Goto(p, "lock") /\ UNCHANGED <<file, desc, mode, header, new_desc>>
      BY <1>3, <2>2 DEF Stat
    <3>2. /\ Others(p) /\ OthersData(p) /\ pc'[p] = "lock"
          /\ mode'[p] = "reader" => st_size'[p] # 0
      BY <1>t, <3>1 DEF Goto, Others, OthersData, TypeOK
    <3>3. QED
      BY <3>1, <3>2, NoWriteStep
  <2>3. QED
    BY <2>1, <2>2
<1>4. ASSUME NEW p \in Proc, TryLock(p) PROVE FileInv'
  <2>1. CASE HaveLock(p)
    BY <1>4, <2>1, HaveLockFiles DEF TryLock
  <2>2. CASE CantLock(p)
    BY <2>2, LeaveFiles DEF CantLock
  <2>3. CASE ~HaveLock(p) /\ ~CantLock(p)
    <3>1. /\ pc[p] = "lock" /\ Goto(p, "asleep")
          /\ UNCHANGED <<file, desc, mode, st_size, header, new_desc>>
      BY <1>4, <2>3, Zenon DEF TryLock
    <3>2. Others(p) /\ OthersData(p) /\ pc'[p] = "asleep"
      BY <1>t, <3>1 DEF Goto, Others, OthersData, TypeOK
    <3>3. QED
      BY <3>1, <3>2, WaitFiles
  <2>4. QED
    BY <2>1, <2>2, <2>3
<1>5. ASSUME NEW p \in Proc, Wake(p) \/ SetAlarm(p) PROVE FileInv'
  <2>1. /\ Others(p) /\ OthersData(p) /\ UNCHANGED <<file, mode, st_size>>
        /\ {pc[p], pc'[p]} \subseteq {"lock", "asleep", "armed", "blocked"}
    BY <1>5, <1>t DEF Wake, SetAlarm, Goto, Others, OthersData, TypeOK
  <2>2. QED
    BY <2>1, WaitFiles
<1>6. ASSUME NEW p \in Proc, Block(p) PROVE FileInv'
  <2>1. CASE HaveLock(p)
    BY <1>6, <2>1, HaveLockFiles DEF Block
  <2>2. CASE CantLock(p)
    BY <2>2, LeaveFiles DEF CantLock
  <2>3. CASE ~HaveLock(p) /\ ~CantLock(p)
    <3>1. /\ Others(p) /\ OthersData(p) /\ UNCHANGED <<file, mode, st_size>>
          /\ {pc[p], pc'[p]} \subseteq {"lock", "asleep", "armed", "blocked"}
      BY <1>6, <1>t, <2>3 DEF Block, own, Goto, Others, OthersData, TypeOK
    <3>2. QED
      BY <3>1, WaitFiles
  <2>4. QED
    BY <2>1, <2>2, <2>3
<1>7. ASSUME NEW p \in Proc, GetLock(p) PROVE FileInv'
  BY <1>7, HaveLockFiles DEF GetLock
<1>8. ASSUME NEW p \in Proc, Alarm(p) PROVE FileInv'
  <2>1. CASE pc[p] = "blocked"
    BY <1>8, <2>1, LeaveFiles DEF Alarm, CantLock
  <2>2. CASE pc[p] # "blocked"
    BY <1>8, <2>2 DEF Alarm, IInv, FileInv, CreatesAsWriter, FilesRight
  <2>3. QED
    BY <2>1, <2>2
<1>9. ASSUME NEW p \in Proc, OwnFailure(p) PROVE FileInv'
  BY <1>9, LeaveFiles DEF OwnFailure
<1>10. ASSUME NEW p \in Proc, Truncate(p) PROVE FileInv'
  <2> DEFINE cut == mode[p] = "newdb" /\ st_size[p] # 0
  <2>1. /\ pc[p] = "truncate" /\ pc'[p] \in {"create", "read"} /\ Others(p) /\ OthersData(p)
        /\ UNCHANGED <<desc, mode>>
        /\ file' = IF cut THEN [file EXCEPT ![desc[p]] = EmptyFile] ELSE file
    BY <1>10, <1>t DEF Truncate, Goto, Others, OthersData, TypeOK
  <2>2. CASE cut
    BY <2>1, <2>2, WriterFiles DEF Inside
  <2>3. CASE ~cut
    <3>1. mode[p] = "reader" => st_size[p] # 0
      BY <2>1 DEF IInv, CreatesAsWriter
    <3>2. mode[p] = "reader" => pc'[p] = "read"
      BY <1>10, <1>t, <2>3, <3>1 DEF Truncate, Goto, TypeOK
    <3>3. QED
      BY <2>1, <2>3, <3>2, NoWriteStep
  <2>4. QED
    BY <2>2, <2>3
<1>11. ASSUME NEW p \in Proc, WriteHeader(p) PROVE FileInv'
  <2> DEFINE f == [file[desc[p]] EXCEPT !.hdr = NewHeader, !.size = AtLeast(file[desc[p]].size, 1)]
  <2>1. /\ pc[p] = "create" /\ pc'[p] = "created" /\ Others(p) /\ OthersData(p)
        /\ UNCHANGED <<desc, mode>> /\ desc[p] \in Inode
    BY <1>11, <1>t DEF WriteHeader, own, Goto, Others, OthersData, TypeOK
  <2>2. file' = [file EXCEPT ![desc[p]] = f] /\ f.hdr = NewHeader
    BY <1>11, <1>t, <2>1 DEF WriteHeader, TypeOK, File
  <2>3. mode[p] # "reader"
    BY <2>1 DEF IInv, CreatesAsWriter
  <2> HIDE DEF f
  <2>4. QED
    BY <2>1, <2>2, <2>3, WriterFiles DEF Inside
<1>12. ASSUME NEW p \in Proc, WriteRest(p) PROVE FileInv'
  <2> DEFINE f == [file[desc[p]] EXCEPT !.size = AtLeast(file[desc[p]].size, 4), !.recs = {}]
  <2>1. /\ pc[p] = "created" /\ pc'[p] = "db" /\ Others(p) /\ OthersData(p)
        /\ UNCHANGED <<desc, mode>> /\ desc[p] \in Inode /\ header'[p] = NewHeader
    BY <1>12, <1>t DEF WriteRest, Goto, Others, OthersData, TypeOK
  <2>2. file' = [file EXCEPT ![desc[p]] = f] /\ f.hdr = file[desc[p]].hdr
    BY <1>12, <1>t, <2>1 DEF WriteRest, TypeOK, File
  <2>3. mode[p] # "reader" /\ file[desc[p]].hdr = NewHeader
    BY <2>1 DEF IInv, CreatesAsWriter, FilesRight
  <2> HIDE DEF f
  <2>4. QED
    BY <2>1, <2>2, <2>3, WriterFiles DEF Inside
<1>13. ASSUME NEW p \in Proc, ReadHeader(p) PROVE FileInv'
  <2>1. CASE \E e : Leave(p, e)
    BY <2>1, LeaveFiles
  <2>2. CASE ~ \E e : Leave(p, e)
    <3>1. /\ header' = [header EXCEPT ![p] = file[desc[p]].hdr]
          /\ Goto(p, "db") /\ UNCHANGED <<file, desc, mode, st_size, new_desc>>
      BY <1>13, <2>2 DEF ReadHeader
    <3>2. /\ Others(p) /\ OthersData(p) /\ pc'[p] = "db" /\ header'[p] = file[desc[p]].hdr
      BY <1>t, <3>1 DEF Goto, Others, OthersData, TypeOK
    <3>3. QED
      BY <3>1, <3>2, NoWriteStep
  <2>3. QED
    BY <2>1, <2>2
<1>14. ASSUME NEW p \in Proc, Update(p) PROVE FileInv'
  <2>1. PICK h : /\ header' = [header EXCEPT ![p] = h]
                 /\ file' = [file EXCEPT ![desc[p]] =
                       [hdr |-> h, size |-> AtLeast(@.size, h.next_block), recs |-> @.recs \cup {p}]]
    BY <1>14 DEF Update
  <2> DEFINE f == [hdr |-> h, size |-> AtLeast(file[desc[p]].size, h.next_block),
                   recs |-> file[desc[p]].recs \cup {p}]
  <2>2. /\ pc[p] = "db" /\ mode[p] # "reader" /\ pc'[p] = "db" /\ Others(p) /\ OthersData(p)
        /\ UNCHANGED <<desc, mode>> /\ header'[p] = h
    BY <1>14, <1>t, <2>1 DEF Update, Others, OthersData, TypeOK
  <2>3. file' = [file EXCEPT ![desc[p]] = f] /\ f.hdr = h
    BY <2>1
  <2> HIDE DEF f
  <2>4. QED
    BY <2>2, <2>3, WriterFiles DEF Inside
<1>15. ASSUME NEW p \in Proc, Close(p) PROVE FileInv'
  BY <1>15, LeaveFiles DEF Close
<1>16. ASSUME NEW p \in Proc, RecCopy(p) PROVE FileInv'
  <2> DEFINE f == [hdr |-> NewHeader, size |-> 4, recs |-> file[desc[p]].recs]
  <2>1. /\ pc[p] = "db" /\ pc'[p] = "copied" /\ Others(p) /\ OthersData(p)
        /\ UNCHANGED <<desc, mode, header>> /\ mode[p] # "reader"
        /\ file' = [file EXCEPT ![NewInode] = f]
    BY <1>16, <1>t DEF RecCopy, Goto, Others, OthersData, TypeOK
  <2>2. NewInode \in FreeInodes
    BY <1>16, NewInodeIsFree DEF RecCopy
  <2>3. \A q \in Proc : Inside(q) => desc[q] # NewInode /\ desc[q] \in Inode
    BY <1>t, <2>2 DEF FreeInodes, Inside
  <2>4. \A q \in Proc : Inside(q) => file'[desc[q]] = file[desc[q]]
    BY <1>t, <2>1, <2>3 DEF TypeOK
  <2>5. header[p] = file[desc[p]].hdr
    BY <2>1 DEF IInv, FilesRight
  <2>6. QED
    BY <2>1, <2>4, <2>5, FilesStep DEF Inside
<1>17. ASSUME NEW p \in Proc, RecBackup(p) \/ RecRename(p) PROVE FileInv'
  <2>1. /\ pc[p] \in {"copied", "backed up"} /\ pc'[p] \in {"backed up", "renamed"}
        /\ Others(p) /\ OthersData(p) /\ UNCHANGED <<file, desc, mode, header>>
    BY <1>17, <1>t DEF RecBackup, RecRename, own, Goto, Others, OthersData, TypeOK
  <2>2. header[p] = file[desc[p]].hdr
    BY <2>1 DEF IInv, FilesRight
  <2>3. QED
    BY <2>1, <2>2, NoWriteStep
<1>18. ASSUME NEW p \in Proc, RecFail(p) PROVE FileInv'
  <2>1. /\ pc[p] \in {"copied", "backed up"} /\ pc'[p] = "db"
        /\ Others(p) /\ OthersData(p) /\ UNCHANGED <<desc, mode, header>>
        /\ file' = [file EXCEPT ![new_desc[p]] = EmptyFile]
    BY <1>18, <1>t DEF RecFail, own, Goto, Others, OthersData, TypeOK
  <2>2. \A q \in Proc : desc[q] # new_desc[p]
    BY <2>1 DEF IInv, DescsRight
  <2>3. \A q \in Proc : Inside(q) => file'[desc[q]] = file[desc[q]]
    BY <1>t, <2>1, <2>2 DEF TypeOK, Inside
  <2>4. header[p] = file[desc[p]].hdr
    BY <2>1 DEF IInv, FilesRight
  <2>5. QED
    BY <2>1, <2>3, <2>4, FilesStep DEF Inside
<1>19. ASSUME NEW p \in Proc, RecSwap(p) PROVE FileInv'
  <2>1. /\ pc'[p] = "db" /\ Others(p) /\ OthersData(p) /\ file' = file
        /\ header'[p] = file[desc'[p]].hdr
    BY <1>19, <1>t DEF RecSwap, Goto, Others, OthersData, TypeOK
  <2>2. QED
    BY <2>1, NoWriteStep
<1>20. ASSUME NEW p \in Proc, Crash(p) PROVE FileInv'
  <2>1. Others(p)
    BY <1>20, <1>t DEF Crash, Forget, Goto, Others, TypeOK
  <2>2. QED
    BY <1>20, <2>1, ForgetFiles DEF Crash
<1>21. QED
  BY <1>1, <1>2, <1>3, <1>4, <1>5, <1>6, <1>7, <1>8, <1>9, <1>10, <1>11, <1>12, <1>13, <1>14,
     <1>15, <1>16, <1>17, <1>18, <1>19, <1>20 DEF Next, Step

-----------------------------------------------------------------------------
(* The theorems. *)

\* Before the first call nothing is open and nothing is locked.
LEMMA InitIInv == Init => IInv
<1> SUFFICES ASSUME Init PROVE IInv
  OBVIOUS
<1>1. /\ locks = {} /\ pc = [p \in Proc |-> "closed"] /\ desc = [p \in Proc |-> None]
      /\ new_desc = [p \in Proc |-> None]
  BY DEF Init
<1>2. NoStrayLock /\ LocksRight
  BY <1>1 DEF NoStrayLock, LocksRight
<1>3. DescsRight
  BY <1>1 DEF DescsRight, Recovering
<1>4. LocksHeld
  BY <1>1 DEF LocksHeld, Inside, Recovering
<1>5. CreatesAsWriter /\ FilesRight
  BY <1>1 DEF CreatesAsWriter, FilesRight
<1>6. QED
  BY <1>2, <1>3, <1>4, <1>5, InitType DEF IInv

\* The inductive invariant of opening, locking, recovering and closing holds for any
\* number of processes, files and calls, on every file system.
THEOREM Invariance == Spec => []IInv
<1>1. IInv /\ [Next]_vars => IInv'
  BY TypeStep, LockStep, FileStep DEF IInv, LockInv, FileInv
<1>2. QED
  BY InitIInv, <1>1, PTL DEF Spec

\* A process that may write a database shares the file with nobody: _gdbm_lock_file is
\* called with read_write set and before the first look into the file
\* (gdbmopen.c:401-444), and gdbm_recover changes files without giving up the lock.
THEOREM WritersAreAlone == Spec => []WriterAlone
BY Invariance, AloneFromLocks, PTL

\* The header gdbm_open has read stays the one in the file while the database is open
\* (gdbmopen.c:606-653).
THEOREM HeadersAreFresh == Spec => []HeaderFresh
<1>1. IInv => HeaderFresh
  BY DEF IInv, FilesRight, HeaderFresh
<1>2. QED
  BY Invariance, <1>1, PTL

\* No lock outlives its holder's use of the file, whatever _gdbm_unlock_file does
\* (lock.c:203-222): every error return and every close goes through close(2).
THEOREM NoLockIsStray == Spec => []NoStrayLock
<1>1. IInv => NoStrayLock
  BY DEF IInv
<1>2. QED
  BY Invariance, <1>1, PTL
=============================================================================
