------------------------------ MODULE SeqLists ------------------------------
(***************************************************************************)
(* What redis3.0_learn/adlist promises: a list is a finite sequence of     *)
(* values that changes at one place at a time.  Module AdList, with its    *)
(* nodes and pointers, is shown to implement this.                         *)
(***************************************************************************)
EXTENDS Integers, SequencesExt

CONSTANTS
    Lists,      \* the lists there may be
    Values      \* what they hold

VARIABLE seq    \* seq[l] = [live, items]: whether list l exists, its contents

Gone == [live |-> FALSE, items |-> <<>>]

Become(l, s) == seq' = [seq EXCEPT ![l] = [live |-> TRUE, items |-> s]]

Create(l)  == ~seq[l].live /\ Become(l, <<>>)
Release(l) == seq[l].live /\ seq' = [seq EXCEPT ![l] = Gone]

InsertOne(l, v) ==
    /\ seq[l].live
    /\ \E k \in 1 .. Len(seq[l].items) + 1 : Become(l, InsertAt(seq[l].items, k, v))

DeleteOne(l) ==
    /\ seq[l].live
    /\ \E k \in 1 .. Len(seq[l].items) : Become(l, RemoveAt(seq[l].items, k))

RotateOne(l) ==
    /\ seq[l].live /\ Len(seq[l].items) > 1
    /\ Become(l, <<Last(seq[l].items)>> \o Front(seq[l].items))

SeqInit == seq = [l \in Lists |-> Gone]

SeqNext ==
    \E l \in Lists :
        \/ Create(l)
        \/ Release(l)
        \/ \E v \in Values : InsertOne(l, v)
        \/ DeleteOne(l)
        \/ RotateOne(l)

SeqSpec == SeqInit /\ [][SeqNext]_seq
=============================================================================
