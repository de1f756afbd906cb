----------------------------- MODULE MCDataLayer ----------------------------
(* Small instances of DataLayer: two threads, two keys and three nodes, so   *)
(* that a node taken for an insert that fails is taken again.                *)
EXTENDS DataLayer
=============================================================================
