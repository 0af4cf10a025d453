---------------------------- MODULE MCCommandRun ----------------------------
(* Two partitions with a place each; the name of one is on two tables, the
   other has a bad sector. *)
EXTENDS CommandRun, TLC
CONSTANTS t1, t2, p1, p2

MCTarget == t1 :> p1 @@ t2 :> p2
=============================================================================
