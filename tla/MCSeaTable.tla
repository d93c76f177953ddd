----------------------------- MODULE MCSeaTable -----------------------------
(* Values whose desired slots collide at the end of a table of four slots  *)
(* and lie next to each other in one of sixteen.                           *)
EXTENDS SeaTable, TLC

CONSTANTS v1, v2, v3, v4, v5

Neighbours == (v1 :> 3) @@ (v2 :> 3) @@ (v3 :> 2) @@ (v4 :> 4) @@ (v5 :> 19)

=============================================================================
