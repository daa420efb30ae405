----------------------------- MODULE MCOpenLock -----------------------------
(* OpenLock with two processes and a few ways to wait, on file systems that *)
(* offer all mechanisms of locking, all but flock, and lockf only.          *)
EXTENDS OpenLock, TLC

MCWorks == {{"flock", "lockf", "fcntl"}, {"lockf", "fcntl"}, {"lockf"}}

Retry == [how |-> "retry", timeout |-> 2, interval |-> 2]
Signal == [how |-> "signal", timeout |-> 1, interval |-> 0]
MCCalls ==
    {<<"reader", Retry>>, <<"reader", Signal>>, <<"writer", NoWaiting>>,
     <<"wrcreat", Retry>>, <<"newdb", Signal>>}

\* An old database, and a file that is none.
MCOldFiles ==
    {[hdr |-> NewHeader, size |-> 4, recs |-> {}],
     [hdr |-> [magic |-> "swapped", block_ok |-> TRUE, next_block |-> 4, dir_end |-> 2],
      size |-> 4, recs |-> {}]}
=============================================================================
