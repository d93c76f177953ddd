---------------------------- MODULE MCSeaOfNodes ----------------------------
(* The sea of nodes on a small instance.                                   *)
EXTENDS SeaOfNodes
=============================================================================
