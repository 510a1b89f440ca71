---------------------------- MODULE MCSearchTree ----------------------------
(* Instances of SearchTree: as many nodes as make spines with right          *)
(* children that are overwritten, and roots with none, one and two children. *)
EXTENDS SearchTree

MCNodes == 1 .. 5
MCKeys  == 1 .. 4
=============================================================================
