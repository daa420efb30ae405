---------------------------- MODULE MCHashBucket ----------------------------
(* HashBucket on a table of three slots and keys chosen to collide: k1 and k2  *)
(* agree in hash value and stub, k3 has their home slot, the last one, and k4  *)
(* the first, so that probing wraps round the end of the table.                *)
EXTENDS HashBucket, TLC

CONSTANTS k1, k2, k3, k4, v1, v3

MCKey == {k1, k2, k3, k4}
MCValue == {v1, v3}
MCSize == (v1 :> 1 @@ v3 :> 2)
MCHash == (k1 :> 5 @@ k2 :> 5 @@ k3 :> 2 @@ k4 :> 3)
MCStub == (k1 :> "s" @@ k2 :> "s" @@ k3 :> "s" @@ k4 :> "t")

=============================================================================
