------------------------------- MODULE OpenLock -------------------------------
(***************************************************************************)
(* Processes that open, lock, create, truncate, update, recover and close  *)
(* one database: gdbm_open_ext, system call by system call as far as       *)
(* another process can tell, the three lock mechanisms and the three ways  *)
(* to wait for a lock (lock.c), gdbm_close, and the exchange of files at   *)
(* the end of gdbm_recover.                                                *)
(*                                                                         *)
(* A process has one GDBM_FILE.  A file is its header, as far as           *)
(* validate_header reads it, its size in blocks and the processes whose    *)
(* records it holds.  The kernel is modelled by what open, flock, lockf,   *)
(* fcntl, rename and close do to descriptors and locks.                    *)
(***************************************************************************)
EXTENDS Integers

CONSTANTS
    Proc, Inode,
    None,
    Works,       \* the possible sets of lock mechanisms the file system supports
    Calls,       \* the ways processes call gdbm_open: a mode, and the settings of
                 \* lock_wait, lock_timeout and lock_interval
    OldFiles,    \* what the file may hold when no process has been there yet
    Recovers,    \* whether processes call gdbm_recover
    MaxCalls     \* bound on the calls of gdbm_open and gdbm_recover

Mechanism == {"flock", "lockf", "fcntl"}
Mode == {"reader", "writer", "wrcreat", "newdb"}
Wait == [how : {"none", "retry", "signal"}, timeout : Nat, interval : Nat]
Magic == {"good", "swapped", "offset", "other"}
Header == [magic : Magic, block_ok : BOOLEAN, next_block : Nat, dir_end : Nat]
File == [hdr : Header, size : Nat, recs : SUBSET Proc]

\* A file open(2) or mkstemp has just made.
EmptyFile ==
    [hdr |-> [magic |-> "other", block_ok |-> FALSE, next_block |-> 0, dir_end |-> 0],
     size |-> 0, recs |-> {}]

ASSUME ConstAssumption ==
    /\ None \notin Proc /\ None \notin Inode /\ None \notin {"flock", "posix"}
    /\ Works \subseteq SUBSET Mechanism
    /\ Calls \subseteq Mode \X Wait
    /\ OldFiles \subseteq File
    /\ Recovers \in BOOLEAN
    /\ MaxCalls \in Nat

VARIABLES
    works,      \* the mechanisms that work on this file system
    name,       \* the inode the database name leads to, or None
    file,       \* what each inode holds
    locks,      \* the locks the kernel keeps
    pc,         \* where each process is in its call
    desc,       \* dbf->desc, or None
    mode,       \* flags & GDBM_OPENMASK, later dbf->read_write
    wait,       \* op->lock_wait, lock_timeout, lock_interval
    st_size,    \* file_stat.st_size
    ttw,        \* the time _gdbm_lockwait_retry still has
    alarm,      \* the timer of _gdbm_lockwait_signal is running
    header,     \* dbf->header
    new_desc,   \* new_dbf->desc in gdbm_recover
    err,        \* gdbm_errno after the call
    calls,      \* calls of gdbm_open and gdbm_recover so far
    kept        \* the processes whose records were written and closed, and not
                \* given up since by an open with GDBM_NEWDB

vars == <<works, name, file, locks, pc, desc, mode, wait, st_size, ttw, alarm,
          header, new_desc, err, calls, kept>>
own == <<mode, wait, st_size, ttw, alarm, header, calls>>

-----------------------------------------------------------------------------
(* Locks. *)

Lock == [by : Proc, on : Inode, how : {"sh", "ex"}, via : {"flock", "posix"}]

\* Mutant of LockHow: the lock is taken before dbf->read_write is set.
LockHowEarly(p) == "sh"

\* LOCK_SH and F_RDLCK, or LOCK_EX, lockf and F_WRLCK.
LockHow(p) == IF mode[p] = "reader" THEN "sh" ELSE "ex"

\* Mutant of Via: readers take the third mechanism only.
ViaSplit(p) ==
    CASE "flock" \in works /\ mode[p] # "reader" -> "flock"
      [] OTHER -> "posix"

\* _gdbm_lock_file: the first mechanism that does not answer TRY_LOCK_NEXT.
\* lockf and fcntl set the same kind of lock; lockf is not for readers.
Via(p) ==
    CASE "flock" \in works -> "flock"
      [] "flock" \notin works /\ "lockf" \in works /\ mode[p] # "reader" -> "posix"
      [] "flock" \notin works /\ "fcntl" \in works -> "posix"
      [] OTHER -> None

\* The kernel grants p such a lock on i.
Grants(p, i) ==
    /\ Via(p) # None
    /\ \A l \in locks : l.on = i /\ l.via = Via(p) /\ l.by # p =>
                            l.how = "sh" /\ LockHow(p) = "sh"

NewLock(p, i) == [by |-> p, on |-> i, how |-> LockHow(p), via |-> Via(p)]

\* Mutant of Released: the descriptor stays open, and _gdbm_unlock_file has only
\* called unlock_flock, because lock_type is LOCKING_FLOCK whatever took the lock.
ReleasedByType(p, i) == {l \in locks : ~(l.by = p /\ l.on = i /\ l.via = "flock")}

\* _gdbm_unlock_file calls unlock_flock only, because lock_type is LOCKING_FLOCK
\* whatever took the lock; the close that follows releases the other kinds.
Released(p, i) == {l \in locks : ~(l.by = p /\ l.on = i)}

-----------------------------------------------------------------------------
(* validate_header. *)

Valid(h, size) ==
    CASE h.magic = "swapped" -> "BYTE_SWAPPED"
      [] h.magic = "offset" -> "BAD_FILE_OFFSET"
      [] h.magic = "other" -> "BAD_MAGIC_NUMBER"
      [] h.magic = "good" /\ ~h.block_ok -> "BLOCK_SIZE_ERROR"
      [] h.magic = "good" /\ h.block_ok /\ ~(h.dir_end < size) -> "BAD_HEADER"
      [] h.magic = "good" /\ h.block_ok /\ h.dir_end < size /\ h.next_block < size -> "NEED_RECOVERY"
      [] OTHER -> "NO_ERROR"

-----------------------------------------------------------------------------
(* gdbm_open_ext. *)

FreeInodes == {i \in Inode : i # name /\ \A p \in Proc : desc[p] # i /\ new_desc[p] # i}

\* One choice of an unused inode stands for all.
NewInode == CHOOSE i \in FreeInodes : TRUE

Goto(p, l) == pc' = [pc EXCEPT ![p] = l]

NoWaiting == [how |-> "none", timeout |-> 0, interval |-> 0]

\* *dbf is freed, and the local variables of gdbm_open_ext are gone.
Forget(p) ==
    /\ Goto(p, "closed")
    /\ desc' = [desc EXCEPT ![p] = None]
    /\ mode' = [mode EXCEPT ![p] = "reader"]
    /\ wait' = [wait EXCEPT ![p] = NoWaiting]
    /\ st_size' = [st_size EXCEPT ![p] = 0]
    /\ ttw' = [ttw EXCEPT ![p] = 0]
    /\ alarm' = [alarm EXCEPT ![p] = FALSE]
    /\ header' = [header EXCEPT ![p] = None]
    /\ UNCHANGED <<works, name, file, calls>>

\* gdbm_close, or an error return of gdbm_open_ext: unlock and close.
Leave(p, e) ==
    /\ Forget(p)
    /\ locks' = Released(p, desc[p])
    /\ err' = [err EXCEPT ![p] = e]
    /\ UNCHANGED new_desc

Init ==
    /\ works \in Works
    /\ \E f \in OldFiles \cup {EmptyFile} : \E i \in Inode :
          /\ i = CHOOSE x \in Inode : TRUE
          /\ name = IF f = EmptyFile THEN None ELSE i
          /\ file = [x \in Inode |-> IF x = i THEN f ELSE EmptyFile]
          /\ kept = f.recs
    /\ locks = {}
    /\ pc = [p \in Proc |-> "closed"]
    /\ desc = [p \in Proc |-> None]
    /\ mode = [p \in Proc |-> "reader"]
    /\ wait = [p \in Proc |-> NoWaiting]
    /\ st_size = [p \in Proc |-> 0]
    /\ ttw = [p \in Proc |-> 0]
    /\ alarm = [p \in Proc |-> FALSE]
    /\ header = [p \in Proc |-> None]
    /\ new_desc = [p \in Proc |-> None]
    /\ err = [p \in Proc |-> "NO_ERROR"]
    /\ calls = 0

\* open(2), with O_CREAT for GDBM_WRCREAT and GDBM_NEWDB; it never truncates.
Open(p, m, w) ==
    LET creates == m \in {"wrcreat", "newdb"}
        i == IF name = None THEN NewInode ELSE name
    IN /\ pc[p] = "closed" /\ calls < MaxCalls
       /\ calls' = calls + 1
       /\ name = None /\ creates => FreeInodes # {}
       /\ IF name = None /\ ~creates
          THEN /\ err' = [err EXCEPT ![p] = "FILE_OPEN_ERROR"]
               /\ UNCHANGED <<name, file, desc, mode, wait, pc, ttw>>
          ELSE /\ name' = i
               /\ file' = IF name = None THEN [file EXCEPT ![i] = EmptyFile] ELSE file
               /\ desc' = [desc EXCEPT ![p] = i]
               /\ mode' = [mode EXCEPT ![p] = m]
               /\ wait' = [wait EXCEPT ![p] = w]
               /\ ttw' = [ttw EXCEPT ![p] = w.timeout]
               /\ err' = [err EXCEPT ![p] = "NO_ERROR"]
               /\ Goto(p, "stat")
       /\ UNCHANGED <<works, locks, st_size, alarm, header, new_desc, kept>>

\* fstat, then the initialization of *dbf; an empty file can't be a reader's.
Stat(p) ==
    /\ pc[p] = "stat"
    /\ IF mode[p] = "reader" /\ file[desc[p]].size = 0
       THEN Leave(p, "EMPTY_DATABASE") /\ UNCHANGED kept
       ELSE /\ st_size' = [st_size EXCEPT ![p] = file[desc[p]].size]
            /\ Goto(p, "lock")
            /\ UNCHANGED <<works, name, file, locks, desc, mode, wait, ttw, alarm,
                           header, new_desc, err, calls, kept>>

\* A failure that is this process's own: fstat, memory, reading, mapping.
OwnFailure(p) ==
    /\ pc[p] \in {"stat", "truncate", "read", "create", "created"}
    /\ Leave(p, "FAILED")
    /\ UNCHANGED kept

CantLock(p) ==
    Leave(p, IF mode[p] = "reader" THEN "CANT_BE_READER" ELSE "CANT_BE_WRITER")

HaveLock(p) ==
    /\ Grants(p, desc[p])
    /\ locks' = locks \cup {NewLock(p, desc[p])}
    /\ Goto(p, "truncate")
    /\ alarm' = [alarm EXCEPT ![p] = FALSE]
    /\ UNCHANGED <<works, name, file, desc, mode, wait, st_size, ttw, header,
                   new_desc, err, calls, kept>>

Forever(w) == w.how = "retry" /\ w.timeout > 0 /\ w.interval = 0

\* Mutant of Slept: the time left is not reduced.
SleptNot(p) == ttw[p]

\* timespec_sub: the time left after a sleep.
Slept(p) == ttw[p] - wait[p].interval

\* _gdbm_lock_file (dbf, 1): one attempt, in all the modes of waiting that make
\* such attempts.  Only _gdbm_lockwait_retry goes on after a failure.
TryLock(p) ==
    /\ pc[p] = "lock"
    /\ wait[p].how = "signal" => wait[p].timeout = 0
    /\ \/ HaveLock(p)
       \/ /\ ~Grants(p, desc[p])
          /\ IF wait[p].how = "retry" /\ wait[p].timeout > 0 /\ ttw[p] >= wait[p].interval
             THEN /\ ttw' = [ttw EXCEPT ![p] = Slept(p)]
                  /\ Goto(p, "asleep")
                  /\ UNCHANGED <<works, name, file, locks, desc, mode, wait, st_size,
                                 alarm, header, new_desc, err, calls, kept>>
             ELSE CantLock(p) /\ UNCHANGED kept

\* nanosleep returns; r is left when a signal has interrupted it.
Wake(p) ==
    /\ pc[p] = "asleep"
    /\ \E r \in 0 .. wait[p].interval :
          /\ r < wait[p].interval \/ r = 0
          /\ ttw' = [ttw EXCEPT ![p] = @ + r]
    /\ Goto(p, "lock")
    /\ UNCHANGED <<works, name, file, locks, desc, mode, wait, st_size, alarm, header,
                   new_desc, err, calls, kept>>

\* _gdbm_lockwait_signal: the timer is started ...
SetAlarm(p) ==
    /\ pc[p] = "lock" /\ wait[p].how = "signal" /\ wait[p].timeout > 0
    /\ alarm' = [alarm EXCEPT ![p] = TRUE]
    /\ Goto(p, "armed")
    /\ UNCHANGED <<works, name, file, locks, desc, mode, wait, st_size, ttw, header,
                   new_desc, err, calls, kept>>

\* ... then _gdbm_lock_file (dbf, 0) enters the kernel and waits there.
Block(p) ==
    /\ pc[p] = "armed"
    /\ \/ HaveLock(p)
       \/ Via(p) = None /\ CantLock(p) /\ UNCHANGED kept
       \/ /\ Via(p) # None /\ ~Grants(p, desc[p])
          /\ Goto(p, "blocked")
          /\ UNCHANGED <<works, name, file, locks, desc, own, new_desc, err, kept>>

GetLock(p) == pc[p] = "blocked" /\ HaveLock(p)

\* SIGALRM: it ends the lock call if the process is in it, and is lost otherwise.
Alarm(p) ==
    /\ alarm[p]
    /\ IF pc[p] = "blocked" THEN CantLock(p) /\ UNCHANGED kept
       ELSE /\ alarm' = [alarm EXCEPT ![p] = FALSE]
            /\ UNCHANGED <<works, name, file, locks, pc, desc, mode, wait, st_size, ttw,
                           header, new_desc, err, calls, kept>>

\* GDBM_NEWDB truncates the file if it had a size, and looks at the size again;
\* the size decides what comes next.
Truncate(p) ==
    LET cut == mode[p] = "newdb" /\ st_size[p] # 0
        size == IF cut THEN 0 ELSE st_size[p]
    IN /\ pc[p] = "truncate"
       /\ file' = IF cut THEN [file EXCEPT ![desc[p]] = EmptyFile] ELSE file
       /\ st_size' = [st_size EXCEPT ![p] = size]
       /\ kept' = IF mode[p] = "newdb" THEN {} ELSE kept
       /\ Goto(p, IF size = 0 THEN "create" ELSE "read")
       /\ UNCHANGED <<works, name, locks, desc, mode, wait, ttw, alarm, header,
                      new_desc, err, calls>>

\* Blocks 0 to 3 of a new database: header, directory, bucket and free space.
NewHeader == [magic |-> "good", block_ok |-> TRUE, next_block |-> 4, dir_end |-> 2]
DirGrown == [NewHeader EXCEPT !.next_block = 8, !.dir_end = 6]

AtLeast(size, n) == IF size < n THEN n ELSE size

\* The first of the writes that make a new database: the header.
WriteHeader(p) ==
    /\ pc[p] = "create"
    /\ file' = [file EXCEPT ![desc[p]].hdr = NewHeader, ![desc[p]].size = AtLeast(@, 1)]
    /\ Goto(p, "created")
    /\ UNCHANGED <<works, name, locks, desc, own, new_desc, err, kept>>

\* The directory and the bucket, and the extension to four blocks.
WriteRest(p) ==
    /\ pc[p] = "created"
    /\ file' = [file EXCEPT ![desc[p]].size = AtLeast(@, 4), ![desc[p]].recs = {}]
    /\ header' = [header EXCEPT ![p] = NewHeader]
    /\ Goto(p, "db")
    /\ UNCHANGED <<works, name, locks, desc, mode, wait, st_size, ttw, alarm, new_desc,
                   err, calls, kept>>

\* An old database: header and directory are read and validated against the size
\* fstat has told.
ReadHeader(p) ==
    LET f == file[desc[p]]
        rc == Valid(f.hdr, st_size[p])
    IN /\ pc[p] = "read"
       /\ CASE f.size = 0 -> Leave(p, "FILE_EOF")
            [] f.size > 0 /\ rc \notin {"NO_ERROR", "NEED_RECOVERY"} -> Leave(p, rc)
            [] OTHER ->
                 /\ header' = [header EXCEPT ![p] = f.hdr]
                 /\ err' = [err EXCEPT ![p] = rc]
                 /\ Goto(p, "db")
                 /\ UNCHANGED <<works, name, file, locks, desc, mode, wait, st_size, ttw,
                                alarm, new_desc, calls>>
       /\ UNCHANGED kept

-----------------------------------------------------------------------------
(* An open database. *)

\* A store, with or without the directory being doubled, up to _gdbm_end_update.
Update(p) ==
    /\ pc[p] = "db" /\ mode[p] # "reader"
    /\ \E h \in {header[p], DirGrown} :
          /\ header' = [header EXCEPT ![p] = h]
          /\ file' = [file EXCEPT ![desc[p]] =
                         [hdr |-> h, size |-> AtLeast(@.size, h.next_block), recs |-> @.recs \cup {p}]]
    /\ UNCHANGED <<works, name, locks, pc, desc, mode, wait, st_size, ttw, alarm, new_desc,
                   err, calls, kept>>

Close(p) ==
    /\ pc[p] = "db"
    /\ Leave(p, "NO_ERROR")
    /\ kept' = IF mode[p] # "reader" /\ p \in file[desc[p]].recs THEN kept \cup {p} ELSE kept

\* gdbm_recover: mkstemp, gdbm_fd_open on the new file, which locks it, and the
\* copy of the records.
RecCopy(p) ==
    /\ Recovers /\ pc[p] = "db" /\ mode[p] # "reader" /\ FreeInodes # {} /\ calls < MaxCalls
    /\ calls' = calls + 1
    /\ new_desc' = [new_desc EXCEPT ![p] = NewInode]
    /\ locks' = locks \cup {NewLock(p, NewInode)}
    /\ file' = [file EXCEPT ![NewInode] =
                   [hdr |-> NewHeader, size |-> 4, recs |-> file[desc[p]].recs]]
    /\ Goto(p, "copied")
    /\ UNCHANGED <<works, name, desc, mode, wait, st_size, ttw, alarm, header, err, kept>>

\* _gdbm_finish_transfer with GDBM_RCVR_BACKUP: the old name is given up ...
RecBackup(p) ==
    /\ pc[p] = "copied" /\ name # None
    /\ name' = None
    /\ Goto(p, "backed up")
    /\ UNCHANGED <<works, file, locks, desc, own, new_desc, err, kept>>

\* ... and, with or without a backup, the new file is moved to it.
RecRename(p) ==
    /\ pc[p] \in {"copied", "backed up"}
    /\ name' = new_desc[p]
    /\ Goto(p, "renamed")
    /\ UNCHANGED <<works, file, locks, desc, own, new_desc, err, kept>>

\* Recovery gives up: the new file is closed, to stay under a temporary name that
\* nobody opens, and the old one stays open.
RecFail(p) ==
    /\ pc[p] \in {"copied", "backed up"}
    /\ file' = [file EXCEPT ![new_desc[p]] = EmptyFile]
    /\ locks' = Released(p, new_desc[p])
    /\ new_desc' = [new_desc EXCEPT ![p] = None]
    /\ err' = [err EXCEPT ![p] = "REORGANIZE_FAILED"]
    /\ Goto(p, "db")
    /\ UNCHANGED <<works, name, desc, own, kept>>

\* The old descriptor is unlocked and closed, and dbf gets what new_dbf had.
RecSwap(p) ==
    /\ pc[p] = "renamed"
    /\ locks' = Released(p, desc[p])
    /\ desc' = [desc EXCEPT ![p] = new_desc[p]]
    /\ new_desc' = [new_desc EXCEPT ![p] = None]
    /\ header' = [header EXCEPT ![p] = file[new_desc[p]].hdr]
    /\ Goto(p, "db")
    /\ UNCHANGED <<works, name, file, mode, wait, st_size, ttw, alarm, err, calls, kept>>

\* The process dies; the kernel closes its descriptors.
Crash(p) ==
    /\ pc[p] # "closed"
    /\ Forget(p)
    /\ locks' = {l \in locks : l.by # p}
    /\ new_desc' = [new_desc EXCEPT ![p] = None]
    /\ UNCHANGED <<err, kept>>

\* What a process does once it has called gdbm_open or gdbm_recover.
Step(p) ==
    \/ Stat(p) \/ TryLock(p) \/ Wake(p) \/ SetAlarm(p) \/ Block(p) \/ GetLock(p)
    \/ Truncate(p) \/ WriteHeader(p) \/ WriteRest(p) \/ ReadHeader(p)
    \/ RecRename(p) \/ RecSwap(p)

Next ==
    \E p \in Proc :
        \/ \E c \in Calls : Open(p, c[1], c[2])
        \/ Step(p)
        \/ Alarm(p)
        \/ OwnFailure(p)
        \/ Update(p)
        \/ Close(p)
        \/ RecCopy(p) \/ RecBackup(p) \/ RecFail(p)
        \/ Crash(p)

\* A call that has begun goes on, and a timer that runs expires; nobody has to
\* close the database.
Spec == Init /\ [][Next]_vars /\ \A p \in Proc : WF_vars(Step(p)) /\ WF_vars(Alarm(p))

-----------------------------------------------------------------------------
(* Properties. *)

TypeOK ==
    /\ works \in Works
    /\ name \in Inode \cup {None}
    /\ file \in [Inode -> File]
    /\ locks \subseteq Lock
    /\ pc \in [Proc -> {"closed", "stat", "lock", "asleep", "armed", "blocked", "truncate",
                        "read", "create", "created", "db", "copied", "backed up", "renamed"}]
    /\ desc \in [Proc -> Inode \cup {None}]
    /\ mode \in [Proc -> Mode]
    /\ wait \in [Proc -> Wait]
    /\ st_size \in [Proc -> Nat]
    /\ ttw \in [Proc -> Nat]
    /\ alarm \in [Proc -> BOOLEAN]
    /\ header \in [Proc -> Header \cup {None}]
    /\ new_desc \in [Proc -> Inode \cup {None}]
    /\ calls \in 0 .. MaxCalls
    /\ kept \subseteq Proc

\* The process is past the lock call.
Inside(p) ==
    pc[p] \in {"truncate", "read", "create", "created", "db", "copied", "backed up", "renamed"}

\* Whatever mechanism the file system offers, and through every failure, crash and
\* exchange of files, a process that may write a file shares it with nobody:
\* _gdbm_lock_file comes after dbf->read_write is set and before the file is
\* truncated, created or read (gdbmopen.c:401-444).
WriterAlone ==
    \A p, q \in Proc : p # q /\ Inside(p) /\ Inside(q) /\ desc[p] = desc[q] =>
        mode[p] = "reader" /\ mode[q] = "reader"

\* As long as a database is open, the header in memory is the one in the file:
\* nobody else can have changed it since it was read (gdbmopen.c:606-653).
HeaderFresh == \A p \in Proc : pc[p] = "db" => header[p] = file[desc[p]].hdr

\* A lock lives no longer than its holder's use of the file, although
\* _gdbm_unlock_file may call the wrong function (lock.c:203): every lock is on
\* a file its holder has open, and a holder that is not past the lock call has none.
NoStrayLock ==
    \A l \in locks : Inside(l.by) /\ l.on \in {desc[l.by], new_desc[l.by]}

\* gdbm_recover has a second database open.
Recovering(p) == pc[p] \in {"copied", "backed up", "renamed"}

\* The strengthening that makes the invariants above inductive.  Descriptors are open
\* exactly while a call needs them, and nobody else can have the new file of a
\* recovery open before it gets the name.
DescsRight ==
    \A p \in Proc :
        /\ pc[p] = "closed" <=> desc[p] = None
        /\ Recovering(p) <=> new_desc[p] # None
        /\ Recovering(p) => new_desc[p] # desc[p]
        /\ \A q \in Proc : p # q /\ Recovering(p) => new_desc[q] # new_desc[p]
        /\ pc[p] \in {"copied", "backed up"} =>
              name # new_desc[p] /\ \A q \in Proc : desc[q] # new_desc[p]

\* Every lock is of the kind its holder's mode asks for, and locks on one file agree.
LocksRight ==
    /\ \A l \in locks : l.how = LockHow(l.by) /\ l.via = Via(l.by)
    /\ \A k, l \in locks : k.on = l.on /\ k.by # l.by => k.how = "sh"

\* Whoever is past the lock call has the lock, in a recovery that of the new file too.
LocksHeld ==
    \A p \in Proc : /\ Inside(p) => NewLock(p, desc[p]) \in locks
                    /\ Recovering(p) => NewLock(p, new_desc[p]) \in locks

\* A reader never creates a database: it has been told that the file is not empty.
CreatesAsWriter ==
    \A p \in Proc : mode[p] = "reader" =>
        /\ pc[p] \notin {"create", "created"}
        /\ pc[p] \in {"lock", "asleep", "armed", "blocked", "truncate"} => st_size[p] # 0

\* The header in memory is the one in the file, during a recovery too.
FilesRight ==
    \A p \in Proc :
        /\ pc[p] \in {"db", "copied", "backed up"} => header[p] = file[desc[p]].hdr
        /\ pc[p] = "created" => file[desc[p]].hdr = NewHeader

IInv ==
    /\ TypeOK /\ NoStrayLock /\ DescsRight /\ LocksRight /\ LocksHeld
    /\ CreatesAsWriter /\ FilesRight

\* gdbm_open returns when it does not wait or waits by trying again, whatever the
\* other processes do; the interval must not be zero.
OpenReturns ==
    \A p \in Proc :
        pc[p] = "lock" /\ wait[p].how # "signal" /\ ~Forever(wait[p]) ~> pc[p] \in {"closed", "db"}

\* What a process has written and closed is in the database for whoever opens it
\* next, unless a new database was asked for with GDBM_NEWDB: the comment of
\* gdbm_open (gdbmopen.c:770-788) says that GDBM_WRCREAT creates a database "if
\* the database does not exist".
UpdatesKept == name # None /\ (\A p \in Proc : pc[p] = "closed") => kept \subseteq file[name].recs

\* With a timeout, gdbm_open returns in every mode of waiting ("wait at most the
\* time interval set by the lock_timeout field", doc/gdbm.texi:618-620).
TimedOpenReturns ==
    \A p \in Proc : pc[p] = "lock" ~> pc[p] \in {"closed", "db"}
==============================================================================
