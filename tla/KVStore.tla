------------------------------- MODULE KVStore -------------------------------
(***************************************************************************)
(* What an open database promises to its caller: a map from keys to        *)
(* contents, and a walk that visits every key once as long as no key comes *)
(* or goes.  Module HashDir implements it.                                 *)
(***************************************************************************)
CONSTANTS
    Key, Value,
    None        \* no content, no key: neither a Key nor a Value

VARIABLES
    kv,      \* the content of every key, or None
    seen,    \* the keys the walk has visited, or {None} when none is going on
    at,      \* the key the walk returned last, or None
    ret,     \* what the last call returned
    usable   \* FALSE once the database needs recovery

vars == <<usable, ret, at, seen, kv>>

Keys == {k \in Key : kv[k] # None}

Init ==
    /\ kv = [k \in Key |-> None]
    /\ seen = {None}
    /\ at = None
    /\ ret = "none"
    /\ usable = TRUE

\* A key that comes or goes ends the walk.
NoWalk ==
    /\ seen' = {None}
    /\ at' = None

Fetch(k) ==
    /\ usable
    /\ ret' = IF kv[k] = None THEN "not_found" ELSE kv[k]
    /\ UNCHANGED <<usable, seen, at, kv>>

Exists(k) ==
    /\ usable
    /\ ret' = IF kv[k] = None THEN "no" ELSE "yes"
    /\ UNCHANGED <<usable, seen, at, kv>>

\* The key is new.
Insert(k, v) ==
    /\ usable
    /\ ret' = "stored"
    /\ NoWalk
    /\ kv[k] = None
    /\ kv' = [kv EXCEPT ![k] = v]
    /\ UNCHANGED usable

\* The key exists and may be replaced.
Replace(k, v) ==
    /\ usable
    /\ ret' = "stored"
    /\ kv[k] # None
    /\ kv' = [kv EXCEPT ![k] = v]
    /\ UNCHANGED <<usable, seen, at>>

\* The key exists and may not be replaced.
Refuse(k) ==
    /\ usable
    /\ ret' = "cannot_replace"
    /\ kv[k] # None
    /\ UNCHANGED <<usable, seen, at, kv>>

Delete(k) ==
    /\ usable
    /\ ret' = "deleted"
    /\ NoWalk
    /\ kv[k] # None
    /\ kv' = [kv EXCEPT ![k] = None]
    /\ UNCHANGED usable

DeleteMissing(k) ==
    /\ usable
    /\ ret' = "not_found"
    /\ kv[k] = None
    /\ UNCHANGED <<usable, seen, at, kv>>

\* The walk goes to a key it has not visited, in no particular order, and ends
\* when there is none left.
Visit(visited) ==
    \/ \E k \in Keys \ visited :
         /\ ret' = k
         /\ at' = k
         /\ seen' = visited \cup {k}
    \/ /\ ret' = "not_found"
       /\ NoWalk
       /\ Keys \subseteq visited

FirstKey ==
    /\ usable
    /\ Visit({})
    /\ UNCHANGED <<usable, kv>>

NextKey ==
    /\ usable
    /\ at # None
    /\ Visit(seen)
    /\ UNCHANGED <<usable, kv>>

\* A store may run into a fatal error; what was stored before is not touched.
Break ==
    /\ usable
    /\ usable' = FALSE
    /\ ret' = "directory_overflow"
    /\ NoWalk
    /\ UNCHANGED kv

Next ==
    \/ Break
    \/ FirstKey \/ NextKey
    \/ \E k \in Key : Refuse(k) \/ Delete(k) \/ DeleteMissing(k) \/ Fetch(k) \/ Exists(k)
    \/ \E k \in Key, v \in Value : Insert(k, v) \/ Replace(k, v)

Spec == Init /\ [][Next]_vars
=============================================================================
