------------------------------ MODULE MCAdList ------------------------------
(* Instances of AdList.  Values 11 and 12 have key 1, 21 and 22 have key 2.  *)
EXTENDS AdList

MCNodes  == 1 .. 4
MCValues == {11, 12, 21, 22}

\* Lists that own their values, with room to copy one of two; and plain
\* pointers under an iterator.
MCOwned  == [methods |-> {"dup", "free", "match"}, values |-> MCValues,
             nodes |-> 1 .. 4, calls |-> {"dup"}]
MCShared == [methods |-> {}, values |-> {11, 21},
             nodes |-> 1 .. 3, calls |-> {"iterate"}]

MCUses   == {MCOwned, MCShared}

\* Lists that free their values and have no method to copy them.
MCFreeNoDup == {[methods |-> {"free"}, values |-> {11, 21},
                 nodes |-> 1 .. 3, calls |-> {"dup"}]}
=============================================================================
