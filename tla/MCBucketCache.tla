---------------------------- MODULE MCBucketCache ----------------------------
(***************************************************************************)
(* BucketCache with five addresses, four of which collide in the smaller   *)
(* of the two tables, of four and eight entries; in the larger one, whose  *)
(* indices do not continue those of the smaller one, they have two chains. *)
(***************************************************************************)
EXTENDS BucketCache, TLC

MCAdrHash == 2 :> <<0, 1, 1, 6, 0>> @@ 3 :> <<4, 1, 1, 6, 4>>
Fixed == [resize |-> FALSE, stale_slot |-> TRUE, gap |-> FALSE]
NoStaleSlot == [resize |-> TRUE, stale_slot |-> FALSE, gap |-> FALSE]
AllBehaviours == [resize |-> TRUE, stale_slot |-> TRUE, gap |-> FALSE]
MCModes == {Fixed, NoStaleSlot}
\* A split that fails between its two buckets may separate changed elements.
SeparatedChanges == [NoStaleSlot EXCEPT !.gap = TRUE]
MCGapModes == {SeparatedChanges}
MCAllModes == {AllBehaviours}
=============================================================================
