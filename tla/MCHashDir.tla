----------------------------- MODULE MCHashDir -----------------------------
(* HashDir with four-bit hash values and buckets of two slots.  The first four  *)
(* keys share two bits; k2, k3 and k4 share three, all the directory can use.   *)
(* One store may need three splits, with and without doubling, and the third of *)
(* k2, k3 and k4 runs into the directory's limit.  k1 and k4 have home slot 0,  *)
(* the others 1, so that probing and closing gaps wrap round.                   *)
EXTENDS HashDir, TLC

CONSTANTS k1, k2, k3, k4, k5

MCKey == {k1, k2, k3, k4, k5}
MCHash == (k1 :> 0 @@ k2 :> 3 @@ k3 :> 3 @@ k4 :> 2 @@ k5 :> 13)
=============================================================================
