---------------------------- MODULE MCRotatingWal ----------------------------
(* RotatingWal with two batches that fill a segment together, or one each   *)
(* when the interval elapses between them, two workers and two attempts per *)
(* commit, under every pair of disturbances.                                *)
EXTENDS RotatingWal

==============================================================================
