------------------------------- MODULE DumpLoad -------------------------------
(***************************************************************************)
(* Flat files: a database is dumped (gdbm_dump, gdbm_export) and the file, *)
(* whole or cut off, is loaded into another one (gdbm_load, gdbm_import).  *)
(* The file is in the ASCII format of this version or of earlier ones, in  *)
(* the binary format, or made by Berkeley DB's db_dump.                    *)
(*                                                                         *)
(* A key or a content is a sequence of bytes.  A file is a sequence of     *)
(* lines or of other units that are read at once.  A file that is cut off  *)
(* ends with a part of a unit, or lacks some units.                        *)
(***************************************************************************)
EXTENDS Integers, SequencesExt

CONSTANTS
    Dbs,         \* the databases that are dumped: functions from keys to contents
    Targets,     \* the databases they are loaded into
    Versions,    \* the formats of dump files, out of Version
    LineLen,     \* _GDBM_MAX_DUMP_LINE_LEN
    None

Ascii == {"1.2", "1.1", "1.18"}
Version == Ascii \cup {"binary", "bdb"}
ASSUME ConstAssumption == Versions \subseteq Version /\ LineLen \in Nat \ {0}

VARIABLES
    src,        \* the database that was dumped
    ver,        \* the format of the file
    file,       \* the file
    cut,        \* it is whole, ends after some unit or in the midst of one, or
                \* lacks the rest of a record
    dump_rc,    \* what gdbm_dump returned
    old,        \* the database loaded into, before
    db,         \* and as it is
    given,      \* the caller has opened it; else the name in the file is used
    create,     \* the mode it is opened in then
    replace,    \* the flag of gdbm_load
    pc,         \* where gdbm_load is
    for,        \* what is being read: "header", "key", "content"
    pos,        \* units of the file consumed
    parms,      \* the parameters get_parms has collected: pairs of name and value
    buffer,     \* the base64 characters get_data has collected
    key,        \* the key that was read
    content,    \* and its content
    count,      \* records stored
    rc,         \* the error the load has returned, "OK", or None
    status      \* how the program gdbm_load exits, or None

vars == <<src, ver, file, cut, dump_rc, old, db, given, create, replace, pc, for, pos,
          parms, buffer, key, content, count, rc, status>>
dump == <<src, ver, file, cut, dump_rc>>
call == <<old, given, create, replace>>
record == <<key, content, count>>

-----------------------------------------------------------------------------
(* base64.  Characters are numbered as in b64tab; Pad is the equals sign. *)

Pad == 64

\* _gdbm_base64_encode.
Encode(s) ==
    LET n == Len(s)
        At(i) == IF i > n THEN 0 ELSE s[i]
        Char(g, r) ==
            CASE r = 0 -> At(3 * g + 1) \div 4
              [] r = 1 -> (At(3 * g + 1) % 4) * 16 + (At(3 * g + 2) \div 16)
              [] r = 2 -> IF 3 * g + 2 > n THEN Pad ELSE (At(3 * g + 2) % 16) * 4 + (At(3 * g + 3) \div 64)
              [] r = 3 -> IF 3 * g + 3 > n THEN Pad ELSE At(3 * g + 3) % 64
    IN [j \in 1 .. 4 * ((n + 2) \div 3) |-> Char((j - 1) \div 4, (j - 1) % 4)]

\* The bytes of four characters.
DecodeGroup(c) ==
    <<c[1] * 4 + (c[2] \div 16)>>
    \o (IF c[3] = Pad THEN <<>> ELSE <<(c[2] % 16) * 16 + (c[3] \div 4)>>)
    \o (IF c[3] = Pad \/ c[4] = Pad THEN <<>> ELSE <<(c[3] % 4) * 64 + c[4]>>)

\* _gdbm_base64_decode takes whole groups of four; its caller demands that all of
\* the input is used and that it gives len bytes.  None if it does not.
Decode(chars, len) ==
    LET groups == [g \in 1 .. Len(chars) \div 4 |-> SubSeq(chars, 4 * g - 3, 4 * g)]
        bytes == FlattenSeq([g \in DOMAIN groups |-> DecodeGroup(groups[g])])
    IN IF /\ \A g \in DOMAIN groups : Pad \notin {groups[g][1], groups[g][2]}
          /\ Len(chars) % 4 = 0
          /\ Len(bytes) = len
         THEN bytes ELSE None

-----------------------------------------------------------------------------
(* Dump files. *)

Comment == <<"comment">>
Parm(name, val) == <<"parm", name, val>>

\* The lines of one base64 string.
Wrap(chars) ==
    [i \in 1 .. (Len(chars) + LineLen - 1) \div LineLen |->
        <<"data", SubSeq(chars, (i - 1) * LineLen + 1,
                         IF i * LineLen < Len(chars) THEN i * LineLen ELSE Len(chars))>>]

\* print_datum: nothing stood for empty data before version 1.2.
PrintDatum(d, v) ==
    <<Parm("len", Len(d))>> \o
    (CASE d # <<>> -> Wrap(Encode(d))
       [] d = <<>> /\ v = "1.2" -> <<Comment>>
       [] d = <<>> /\ v # "1.2" -> <<>>)

\* gdbm_export_to_file writes a size, and the bytes if there are any.
ExportDatum(d) == IF d = <<>> THEN <<<<"size", 0>>>> ELSE <<<<"size", Len(d)>>, <<"bytes", d>>>>

\* db_dump writes lines of hexadecimal digits.
BdbDatum(d) == <<<<"hex", d>>>>

Datum(d, v) ==
    CASE v \in Ascii -> PrintDatum(d, v)
      [] v = "binary" -> ExportDatum(d)
      [] v = "bdb" -> BdbDatum(d)

\* The header and the end of _gdbm_dump_ascii; version 1.18 had no final block.
Header(v) ==
    CASE v \in Ascii -> <<Comment, Parm("file", 0), Parm("format", 0), Comment>>
      [] v = "binary" -> <<<<"!">>>>
      [] v = "bdb" -> <<<<"VERSION=3">>>>
Trailer(v, n) ==
    CASE v \in {"1.2", "1.1"} -> <<Parm("count", n), Comment>>
      [] v = "1.18" -> <<Comment>>
      [] v = "binary" -> <<>>
      [] v = "bdb" -> <<<<"end">>>>

\* The file for the records of d with these keys, in this order, and for what is
\* there of one that is not counted.
Dumped(d, keys, rest, v) ==
    Header(v)
    \o FlattenSeq([i \in DOMAIN keys |-> Datum(keys[i], v) \o Datum(d[keys[i]], v)])
    \o rest
    \o Trailer(v, Len(keys))

\* print_datum fails for the key or for the content: its length is there, and not
\* all lines after that.
Halves(k, c, v) ==
    LET both == PrintDatum(k, v) \o PrintDatum(c, v)
    IN {SubSeq(both, 1, j) : j \in (1 .. Len(both) - 1) \ {Len(PrintDatum(k, v))}}

\* What is left of unit i when the file ends in it.  get_dump_line does not terminate
\* such a line, so that a parameter goes on with what the lines before it left in the
\* line buffer: the equals sign there makes another parameter of it.
Torn(f, i) ==
    LET u == f[i]
        padded == \E j \in 1 .. i - 1 : f[j][1] = "data" /\ Pad \in Range(f[j][2])
        names == {u[2], "len"} \cup (IF padded THEN {"other"} ELSE {})
    IN CASE u[1] = "comment" -> {Comment}
         [] u[1] = "parm" -> {Comment, <<"torn">>} \cup {Parm(n, v) : n \in names, v \in 0 .. 2}
         [] u[1] \in {"data", "bytes"} -> {<<u[1], SubSeq(u[2], 1, k)>> : k \in 1 .. Len(u[2]) - 1}
         [] u[1] = "end" -> {u}
         [] OTHER -> {<<"torn">>}

CutFiles(f) == {SubSeq(f, 1, i) : i \in 0 .. Len(f) - 1}
TornFiles(f) == UNION {{SubSeq(f, 1, i - 1) \o <<t>> : t \in Torn(f, i)} : i \in 1 .. Len(f)}

-----------------------------------------------------------------------------
(* Dumping. *)

Init ==
    /\ src \in Dbs /\ ver \in Versions
    /\ file = <<>> /\ cut = "no" /\ dump_rc = 0
    /\ old \in Targets /\ db = old
    /\ given \in BOOLEAN /\ create \in {"newdb", "wrcreat"} /\ replace \in BOOLEAN
    /\ replace => given \/ create = "wrcreat"
    /\ given => create = "wrcreat"
    /\ pc = "dump" /\ for = "header" /\ pos = 0
    /\ parms = {} /\ buffer = <<>>
    /\ key = None /\ content = None /\ count = 0
    /\ rc = None /\ status = None

\* The walk finds the keys in some order.
Orders == SetToSeqs(DOMAIN src)

Dump ==
    /\ pc = "dump"
    /\ \E keys \in Orders : file' = Dumped(src, keys, <<>>, ver)
    /\ pc' = "start"
    /\ UNCHANGED <<src, ver, cut, dump_rc, call, db, for, pos, parms, buffer, record, rc, status>>

\* A record cannot be read, or not be printed for lack of memory or of space: the
\* walk ends, and the file is finished as if it had ended.  What print_datum did in
\* earlier versions is not known.
DumpEndsEarly ==
    /\ pc = "dump"
    /\ \E keys \in Orders : \E n \in 0 .. Len(keys) - 1 :
           LET done == SubSeq(keys, 1, n) IN
           \/ file' = Dumped(src, done, <<>>, ver) /\ UNCHANGED cut
           \/ /\ ver = "1.2"
              /\ \E half \in Halves(keys[n + 1], src[keys[n + 1]], ver) :
                     file' = Dumped(src, done, half, ver)
              /\ cut' = "record"
    /\ dump_rc' = -1
    /\ pc' = "start"
    /\ UNCHANGED <<src, ver, call, db, for, pos, parms, buffer, record, rc, status>>

\* The end of the file is not written.  ferror tells of it, or else fclose, whose
\* result gdbm_dump does not look at; and the file may be cut off later.
DumpCut ==
    /\ pc = "dump"
    /\ dump_rc' \in {0, -1}
    /\ \E keys \in Orders :
          \/ file' \in CutFiles(Dumped(src, keys, <<>>, ver)) /\ cut' = "between"
          \/ file' \in TornFiles(Dumped(src, keys, <<>>, ver)) /\ cut' = "torn"
    /\ pc' = "start"
    /\ UNCHANGED <<src, ver, call, db, for, pos, parms, buffer, record, rc, status>>

-----------------------------------------------------------------------------
(* Loading. *)

AtEnd == pos = Len(file)
Line == IF AtEnd THEN <<"none">> ELSE file[pos + 1]
Names == {p[1] : p \in parms}
Value(name) == (CHOOSE p \in parms : p[1] = name)[2]

Return(r) == pc' = "exit" /\ rc' = r

\* gdbm_load_from_file_ext looks at the first character.
Start ==
    /\ pc = "start"
    /\ \/ (ver \in Ascii \/ AtEnd) /\ pc' = "parms" /\ UNCHANGED rc
       \/ ver \notin Ascii /\ ~AtEnd /\ ~given /\ Return("NO_DBNAME")
       \/ ver \notin Ascii /\ ~AtEnd /\ given /\ pc' = "preamble" /\ UNCHANGED rc
    /\ UNCHANGED <<dump, call, db, for, pos, parms, buffer, record, status>>

\* Mutant of Kept: only another length begins another block.
KeptLen ==
    \/ Line[1] = "data"
    \/ Line[1] = "parm" /\ Line[2] = "len" /\ "len" \in Names

\* A line ends get_parms and is kept for the next call: data, or the parameters of
\* another block.  Before version 1.2 nothing separated blocks when a length was 0.
Kept ==
    \/ Line[1] = "data"
    \/ Line[1] = "parm" /\ Line[2] \in {"len", "count"} /\ "len" \in Names

\* Mutant of Consumed: a comment is left where it is.
ConsumedParms == pos + (IF Line[1] = "comment" THEN 0 ELSE 1)

\* Reading goes on after this line.
Consumed == pos + 1

\* get_parms takes one line.
GetParms ==
    /\ pc = "parms"
    /\ \/ /\ AtEnd /\ parms = {}
          /\ Return("EOF")
          /\ UNCHANGED <<pos, parms>>
       \/ /\ AtEnd /\ parms # {}
          /\ pc' = "block"
          /\ UNCHANGED <<pos, parms, rc>>
       \/ /\ Kept
          /\ pc' = "block"
          /\ UNCHANGED <<pos, parms, rc>>
       \/ /\ Line = Comment
          /\ pos' = Consumed
          /\ pc' = IF parms # {} THEN "block" ELSE "parms"
          /\ UNCHANGED <<parms, rc>>
       \/ /\ Line[1] = "torn"
          /\ Return("MALFORMED_DATA")
          /\ UNCHANGED <<pos, parms>>
       \/ /\ Line[1] = "parm" /\ ~Kept
          /\ pos' = Consumed
          /\ parms' = parms \cup {<<Line[2], Line[3]>>}
          /\ UNCHANGED <<pc, rc>>
    /\ UNCHANGED <<dump, call, db, for, buffer, record, status>>

\* _gdbm_load_file has the header: the database is opened if the caller did not,
\* and converted.  An error of either is returned.
LoadHeader ==
    /\ pc = "block" /\ for = "header"
    /\ \/ /\ parms = {}
          /\ Return("MALFORMED_DATA")
          /\ UNCHANGED <<db, for>>
       \/ /\ parms # {} /\ ~given /\ "file" \notin Names
          /\ Return("NO_DBNAME")
          /\ UNCHANGED <<db, for>>
       \/ /\ parms # {} /\ ~given /\ "file" \in Names
          /\ Return("OPEN")
          /\ UNCHANGED <<db, for>>
       \/ /\ parms # {} /\ (given \/ "file" \in Names) /\ "format" \in Names
          /\ Return("CONVERT")
          /\ db' = (IF ~given /\ create = "newdb" THEN <<>> ELSE db)
          /\ UNCHANGED for
       \/ /\ parms # {} /\ (given \/ "file" \in Names)
          /\ db' = (IF ~given /\ create = "newdb" THEN <<>> ELSE db)
          /\ for' = "key" /\ pc' = "parms"
          /\ UNCHANGED rc
    /\ parms' = {}
    /\ UNCHANGED <<dump, call, pos, buffer, record, status>>

\* feof: the last line has been read, and had no newline or was not the last that
\* get_parms asked for.
Feof == AtEnd /\ (cut = "torn" \/ file[pos] # Comment)

\* The load ends when a block without a length stands for a key.  It is the final
\* block with the right count, or the end of the file has been reached.
LastBlock == Feof \/ ("count" \in Names /\ Value("count") = count)

\* A key or a content has been read.
Reader == IF ver \in Ascii THEN "parms" ELSE ver
Got(d) ==
    \/ /\ for = "key"
       /\ key' = d /\ for' = "content" /\ pc' = Reader
       /\ UNCHANGED <<content, count, rc>>
    \/ /\ for = "content"
       /\ content' = d /\ for' = "key" /\ pc' = "store"
       /\ UNCHANGED <<key, count, rc>>

\* read_record has the parameters of a key or a content.
ReadRecord ==
    /\ pc = "block" /\ for # "header"
    /\ \/ /\ "len" \notin Names
          /\ IF for = "content" THEN Return("ITEM_NOT_FOUND")
             ELSE IF LastBlock THEN pc' = "meta" /\ UNCHANGED rc
             ELSE Return("MALFORMED_DATA")
          /\ parms' = {}
          /\ UNCHANGED <<for, record>>
       \/ /\ "len" \in Names /\ Value("len") = 0
          /\ Got(<<>>)
          /\ parms' = {}
       \/ /\ "len" \in Names /\ Value("len") > 0
          /\ pc' = "data"
          /\ UNCHANGED <<parms, for, record, rc>>
    /\ buffer' = <<>>
    /\ UNCHANGED <<dump, call, db, pos, status>>

\* get_data takes a line of data; a comment or a parameter in its place is read again
\* without end, which is no step here.
GetData ==
    /\ pc = "data"
    /\ Line[1] = "data"
    /\ buffer' = buffer \o Line[2]
    /\ pos' = Consumed
    /\ UNCHANGED <<dump, call, db, pc, for, parms, record, rc, status>>

\* No more data: read_record decodes what there is.
EndData ==
    /\ pc = "data"
    /\ Line[1] # "data" /\ (AtEnd \/ buffer # <<>>)
    /\ LET d == Decode(buffer, Value("len")) IN
       \/ buffer = <<>> /\ Return("EOF") /\ UNCHANGED <<for, record>>
       \/ buffer # <<>> /\ d = None /\ Return("MALFORMED_DATA") /\ UNCHANGED <<for, record>>
       \/ buffer # <<>> /\ d # None /\ Got(d)
    /\ parms' = {} /\ buffer' = <<>>
    /\ UNCHANGED <<dump, call, db, pos, status>>

\* gdbm_store fails, also because the key is there and is not to be replaced.
StoreFails ==
    /\ pc = "store"
    /\ Return("STORE")
    /\ UNCHANGED <<dump, call, db, for, pos, parms, buffer, record, status>>

Store ==
    /\ pc = "store"
    /\ key \in DOMAIN db => replace
    /\ db' = [k \in DOMAIN db \cup {key} |-> IF k = key THEN content ELSE db[k]]
    /\ count' = count + 1
    /\ pc' = Reader
    /\ UNCHANGED <<dump, call, for, pos, parms, buffer, key, content, rc, status>>

\* _set_gdbm_meta_info.  What it returns when fchown or fchmod fails, 1, is taken for
\* an error number.
SetMeta ==
    /\ pc = "meta"
    /\ Return("OK") \/ Return("META")
    /\ UNCHANGED <<dump, call, db, for, pos, parms, buffer, record, status>>

\* The four lines that begin a binary file, or the header of db_dump.
Preamble ==
    /\ pc = "preamble"
    /\ \/ Line[1] # "torn" /\ pc' = ver /\ for' = "key" /\ UNCHANGED rc
       \/ Line[1] = "torn" /\ Return("READ") /\ UNCHANGED for
    /\ pos' = Consumed
    /\ UNCHANGED <<dump, call, db, parms, buffer, record, status>>

\* gdbm_import_from_file reads a size and as many bytes.
Import ==
    /\ pc = "binary"
    /\ \/ /\ AtEnd \/ Line[1] = "torn"
          /\ IF for = "key" THEN Return("OK") ELSE Return("READ")
          /\ UNCHANGED <<for, pos, record>>
       \/ /\ Line = <<"size", 0>>
          /\ Got(<<>>)
          /\ pos' = Consumed
       \/ /\ Line[1] = "size" /\ Line[2] > 0
          /\ IF pos + 1 < Len(file) /\ Len(file[pos + 2][2]) = Line[2]
               THEN Got(file[pos + 2][2]) /\ pos' = pos + 2
               ELSE Return("READ") /\ UNCHANGED <<for, pos, record>>
    /\ UNCHANGED <<dump, call, db, parms, buffer, status>>

\* gdbm_load_bdb_dump reads a line of hexadecimal digits; any other line ends it.
LoadBdb ==
    /\ pc = "bdb"
    /\ \/ /\ AtEnd \/ Line[1] = "end"
          /\ IF for = "key" THEN Return("OK") ELSE Return("EOF")
          /\ UNCHANGED <<for, pos, record>>
       \/ /\ Line[1] = "torn"
          /\ Return("EOF")
          /\ UNCHANGED <<for, pos, record>>
       \/ /\ Line[1] = "hex"
          /\ Got(Line[2])
          /\ pos' = Consumed
    /\ UNCHANGED <<dump, call, db, parms, buffer, status>>

\* The program gdbm_load: an error is fatal, but a failure to set the owner and the
\* mode asked for on the command line, which comes after it, hides it.
Exit ==
    /\ pc = "exit"
    /\ status' \in {IF rc = "OK" THEN "ok" ELSE "fatal", "mild"}
    /\ pc' = "done"
    /\ UNCHANGED <<dump, call, db, for, pos, parms, buffer, record, rc>>

Next ==
    \/ Dump \/ DumpEndsEarly \/ DumpCut
    \/ Start \/ GetParms \/ LoadHeader \/ ReadRecord \/ GetData \/ EndData
    \/ StoreFails \/ Store \/ SetMeta
    \/ Preamble \/ Import \/ LoadBdb
    \/ Exit

Spec == Init /\ [][Next]_vars /\ WF_vars(Next)

-----------------------------------------------------------------------------
(* Properties. *)

\* What the database holds before the first record is stored.
Base == IF ~given /\ create = "newdb" THEN <<>> ELSE old
Merged == [k \in DOMAIN src \cup DOMAIN Base |-> IF k \in DOMAIN src THEN src[k] ELSE Base[k]]

\* The last line became another parameter than it was.
Mangled == file # <<>> /\ Last(file)[1] = "parm" /\ Last(file)[2] = "other"

\* A load that reports success, of a dump that reported success, has stored every
\* record, whatever its bytes and in every text format, even if the file was cut off
\* (gdbmload.c:482-584, base64.c); but see TornNoticed.  Binary files and those of
\* db_dump have no final block, so for them this holds only of whole files.
LoadWhole ==
    /\ rc = "OK" /\ dump_rc = 0
    /\ cut # "no" => ver \in Ascii /\ ~Mangled
    => db = Merged

\* Every whole file this version or an earlier one with a final block wrote is taken
\* for well formed: lines wrapped and empty data included (gdbmload.c:162-296).
DumpsAccepted ==
    cut = "no" /\ ver # "1.18" => rc \in {None, "OK", "STORE", "META", "OPEN", "CONVERT", "NO_DBNAME"}

\* What is dumped comes back: a load tells the truth, and no whole file is refused.
RoundTrip == LoadWhole /\ DumpsAccepted

\* A parameter follows a length, where data should stand.
DataMissing ==
    \E i \in 1 .. Len(file) - 1 :
        /\ file[i][1] = "parm" /\ file[i][2] = "len" /\ file[i][3] > 0
        /\ file[i + 1][1] = "parm"

\* Every load comes to an end, however the file was cut off, and whatever a dump that
\* failed left out of a record, but its data alone: no reader waits for a line that it
\* has left unread itself (gdbmload.c:76-160).
LoadReturns == <>(pc = "done" \/ DataMissing)

\* The same without the exception.  It does not hold: get_data (gdbmload.c:130-132)
\* looks at the same line again and again if that is not data.
EveryLoadReturns == <>(pc = "done")

\* As LoadWhole, wherever the file was cut off: malformed data "often means that the
\* dump file got corrupted during the transfer" and is an error (doc/gdbm.texi:1259).
TornNoticed == rc = "OK" /\ dump_rc = 0 /\ ver \in Ascii => db = Merged

\* Dumps of version 1.18, which lacked the final parameter block, are accepted
\* (gdbmload.c:552).
OldDumpsLoad == cut = "no" /\ ver = "1.18" => rc \notin {"EOF", "MALFORMED_DATA"}

\* A mild error means that all records are there (doc/gdbm.texi:1275).
MildIsWhole == status = "mild" /\ dump_rc = 0 => db = Merged
=============================================================================
