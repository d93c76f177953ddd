----------------------------- MODULE MCHashTable -----------------------------
(* Five elements whose desired slots collide, at the end of the table too,  *)
(* for every capacity the table takes: 1 (inline), 4, 8 and 16.            *)
EXTENDS HashTable, TLC

CONSTANTS k1, k2, k3, k4, k5

Colliding == (k1 :> 15) @@ (k2 :> 31) @@ (k3 :> 7) @@ (k4 :> 16) @@ (k5 :> 3)

=============================================================================
