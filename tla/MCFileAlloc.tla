---------------------------- MODULE MCFileAlloc ----------------------------
(* FileAlloc in a small scale: blocks of 8 bytes, buckets of two elements with *)
(* three avail entries, header tables of 6 and 8 entries.  The age of a        *)
(* database is chosen so that the header table is empty, nearly full, or has   *)
(* just been split, or that there are several blocks on the avail stack.       *)
EXTENDS FileAlloc
=============================================================================
