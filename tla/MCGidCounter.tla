---------------------------- MODULE MCGidCounter ----------------------------
(* An instance of GidCounter: each thread builds a world of its own.       *)
EXTENDS GidCounter, TLC

CONSTANTS t1, t2, w1, w2

TwoThreads == (w1 :> t1) @@ (w2 :> t2)

=============================================================================
