------------------------------ MODULE MCRecover ------------------------------
(* Three keys and one that only damage leaves, three buckets, four directory *)
(* entries.  Damage of every kind, one, two or three places at a time.       *)
EXTENDS Recover

MCHome == [k \in Key |-> IF k = "k1" THEN "b1" ELSE IF k = "k2" THEN "b2" ELSE "b3"]
MCDir == <<"b1", "b1", "b2", "b3">>

Good(k) == [key |-> k, st |-> "good"]
Unreadable(k) == [key |-> k, st |-> "unreadable"]
Altered(k) == [key |-> k, st |-> "altered"]
File(x, y, z) == [b \in Bucket |-> CASE b = "b1" -> x [] b = "b2" -> y [] OTHER -> z]

MCOldFiles ==
    {File({Good("k1")}, {Good("k2")}, {}),
     File({Good("k1")}, {Unreadable("k2")}, {Good("k3"), Unreadable("junk")}),
     File({Good("k1"), Good("k2")}, {Good("k2"), Altered("junk")}, {Unreadable("k3")}),
     File(Bad, {Good("k2")}, {Unreadable("k3"), Good("k1")}),
     File({Good("k1")}, Bad, Bad)}

Ask(f, b, k, n, m) ==
    [force |-> f, backup |-> b, max_keys |-> k, max_buckets |-> n, max_failures |-> m]
MCRequests ==
    {Ask(FALSE, FALSE, None, None, None), Ask(TRUE, TRUE, None, None, 2),
     Ask(FALSE, TRUE, 1, 2, None), Ask(TRUE, FALSE, 2, 1, 3), Reorganization}

MCBackups == {{}, {<<1>>, <<2>>}}
=============================================================================
