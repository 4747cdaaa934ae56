----------------------------- MODULE MCVerdictCache -----------------------------
(***************************************************************************)
(* A small instance of VerdictCache: three names that share a bucket, which *)
(* is what it takes to put an entry before two others, and one that is      *)
(* alone in the next.                                                       *)
(***************************************************************************)
EXTENDS VerdictCache

MCBuckets == 0 .. 1
MCBucket == [a |-> 0, b |-> 0, c |-> 0, d |-> 1]
MCNames == DOMAIN MCBucket
===============================================================================
