---------------------------- MODULE MCStructures ----------------------------
(* Instances of TailQueue, StlAlloc and SearchTree, three structures for one  *)
(* thread that share nothing: a behaviour is that of the caller of one.       *)
(*                                                                            *)
(* Four queue elements make a first, a last and neighbours in between.  There *)
(* are three lists, of objects of 2, 4 and 6 bytes; 7 bytes go to malloc, 0   *)
(* to nobody, and 3 and 4 share a list.  The tree is that of MCSearchTree.    *)
EXTENDS TailQueue, StlAlloc, MCSearchTree, TLC

MCSizes  == {0, 1, 3, 4, 6, 7}
Symmetry == Permutations(Elems)

VARIABLE part       \* the structure that is used

structVars == <<vars, allocVars, treeVars, part>>

StructInit ==
    /\ Init /\ AllocInit /\ TreeInit
    /\ part \in {"queue", "allocator", "tree"}

StructNext ==
    \/ part = "queue" /\ Next /\ UNCHANGED <<allocVars, treeVars, part>>
    \/ part = "allocator" /\ AllocNext /\ UNCHANGED <<vars, treeVars, part>>
    \/ part = "tree" /\ TreeNext /\ UNCHANGED <<vars, allocVars, part>>

StructSpec == StructInit /\ [][StructNext]_structVars
=============================================================================
