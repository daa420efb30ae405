----------------------------- MODULE MCSnapshot -----------------------------
(* Snapshot with a two-bit numsync, so that it overflows. *)
EXTENDS Snapshot
=============================================================================
