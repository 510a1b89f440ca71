------------------------------- MODULE AdList -------------------------------
(***************************************************************************)
(* redis3.0_learn/adlist: doubly linked lists on a heap of nodes, their    *)
(* iterators, and listDup, which may run out of memory half way.  One      *)
(* thread calls the functions; listDup is cut into its iterations so that  *)
(* each of its allocations can fail.                                       *)
(***************************************************************************)
EXTENDS Integers, SequencesExt

CONSTANTS
    Nodes,      \* the memory there is for list nodes
    Values,     \* pointers to values
    Uses        \* callers: the methods they set, the values they add, the
                \* memory they have for nodes, and what else they do with lists

Nil   == 0
Lists == {"orig", "copy"}

ASSUME NodesAssumption == Nodes \subseteq Nat \ {Nil} /\ IsFiniteSet(Nodes)
ASSUME ValuesAssumption == Values \subseteq Nat
ASSUME UsesAssumption ==
    Uses \subseteq [methods : SUBSET {"dup", "free", "match"}, values : SUBSET Values,
                    nodes : SUBSET Nodes, calls : SUBSET {"dup", "iterate"}]

\* What a match method compares of a value; dup copies it to a new pointer.
Key(v) == v \div 10

VARIABLES
    use,        \* the caller of this behaviour
    node,       \* listNode of every address: [prev, next, value]
    used,       \* addresses that are allocated
    list,       \* list headers: [head, tail, len]
    live,       \* lists that exist
    iter,       \* the caller's listIter, with history: see NoIter
    copying,    \* listDup's own iterator, or Idle
    freed,      \* values freed while a node still had them
    status      \* "ok", "null": a NULL iterator was dereferenced, or "wild":
                \* the caller has an indeterminate pointer from listDup

vars == <<use, node, used, list, live, iter, copying, freed, status>>
heap == <<use, node, used, list, live, freed>>

Idle      == -1
EmptyList == [head |-> Nil, tail |-> Nil, len |-> 0]
BlankNode == [prev |-> Nil, next |-> Nil, value |-> Nil]

\* cur is the node that listNext returned last; start and seen are history:
\* the values when the iteration began, and those met since.
NoIter == [of |-> "none", next |-> Nil, dir |-> "head", cur |-> Nil,
           ended |-> FALSE, start |-> <<>>, seen |-> <<>>]

Init ==
    /\ use \in Uses
    /\ node = [n \in Nodes |-> BlankNode] /\ used = {}
    /\ list = [l \in Lists |-> EmptyList] /\ live = {}
    /\ iter = NoIter /\ copying = Idle
    /\ freed = {} /\ status = "ok"

-----------------------------------------------------------------------------
(* Walks.                                                                   *)

\* The k-th node, from 0, that a walk along field f from n arrives at.
Step(n, f) == IF n = Nil THEN Nil ELSE IF f = "next" THEN node[n].next ELSE node[n].prev
Walk(n, f, k) ==
    LET at[j \in Nat] == IF j = 0 THEN n ELSE Step(at[j - 1], f) IN at[k]

\* The first len nodes from the head: what listRelease frees.
Chain(l) == [k \in 1 .. list[l].len |-> Walk(list[l].head, "next", k - 1)]
Contents(l) == [k \in 1 .. list[l].len |-> node[Chain(l)[k]].value]

\* listIndex: 0 is the head, -1 the tail; the walk stops at NULL.
listIndex(l, i) ==
    IF i < 0 THEN Walk(list[l].tail, "prev", -i - 1) ELSE Walk(list[l].head, "next", i)

\* listSearchKey: the first node from the head whose value matches.
MatchesPointer(v, key) == v = key       \* slip: the match method is not used
Matches(v, key) == IF "match" \in use.methods THEN Key(v) = Key(key) ELSE v = key
listSearchKey(l, key) ==
    LET hit[n \in Nodes \cup {Nil}] ==
          IF n = Nil \/ Matches(node[n].value, key) THEN n ELSE hit[node[n].next]
    IN  hit[list[l].head]

\* No memory for its iterator, which listNext is given without a test.
SearchFails(l) ==
    /\ status = "ok" /\ copying = Idle /\ l \in live
    /\ status' = "null"
    /\ UNCHANGED <<heap, iter, copying>>

-----------------------------------------------------------------------------
(* Changes to a list l.  The caller may change the list it iterates over    *)
(* only by deleting the node it was given last.                             *)

Quiet(l) == status = "ok" /\ copying = Idle /\ l \in live /\ iter.of # l

\* A value handed to a list with a free method belongs to that list alone.
Held == {node[n].value : n \in used}
MayGive(v) == "free" \notin use.methods \/ v \notin Held

Room == use.nodes \ used
FreshNode == CHOOSE n \in Room : \A m \in Room : n <= m

listCreate(l) ==
    /\ status = "ok" /\ copying = Idle /\ l \notin live
    /\ live' = live \cup {l}
    /\ list' = [list EXCEPT ![l] = EmptyList]
    /\ UNCHANGED <<use, node, used, iter, copying, freed, status>>

\* The heap after node n, with value v, became the new head or tail of l.
PushHead(l, n, v) ==
    LET h == list[l].head IN
    IF list[l].len = 0
    THEN /\ node' = [node EXCEPT ![n] = [prev |-> Nil, next |-> Nil, value |-> v]]
         /\ list' = [list EXCEPT ![l] = [head |-> n, tail |-> n, len |-> 1]]
    ELSE /\ node' = [node EXCEPT ![n] = [prev |-> Nil, next |-> h, value |-> v],
                                 ![h].prev = n]
         /\ list' = [list EXCEPT ![l].head = n, ![l].len = @ + 1]

PushTail(l, n, v) ==
    LET t == list[l].tail IN
    IF list[l].len = 0
    THEN /\ node' = [node EXCEPT ![n] = [prev |-> Nil, next |-> Nil, value |-> v]]
         /\ list' = [list EXCEPT ![l] = [head |-> n, tail |-> n, len |-> 1]]
    ELSE /\ node' = [node EXCEPT ![n] = [prev |-> t, next |-> Nil, value |-> v],
                                 ![t].next = n]
         /\ list' = [list EXCEPT ![l].tail = n, ![l].len = @ + 1]

\* What an insertion shares: room for a node (else it returns NULL and
\* changes nothing) and a value the caller may give.
Insertion(l, v) ==
    /\ Quiet(l) /\ Room # {} /\ MayGive(v)
    /\ used'  = used \cup {FreshNode}
    /\ UNCHANGED <<use, live, iter, copying, freed, status>>

listAddNodeHead(l, v) == Insertion(l, v) /\ PushHead(l, FreshNode, v)
listAddNodeTail(l, v) == Insertion(l, v) /\ PushTail(l, FreshNode, v)

\* Slip: the neighbour's back pointer is not set.
InsertHalfLinked(l, old, v, after) ==
    LET n == FreshNode
        q == IF after THEN node[old].next ELSE old
        p == IF after THEN old ELSE node[old].prev
    IN  /\ Insertion(l, v) /\ old \in Range(Chain(l))
        /\ node' = [m \in Nodes |->
             IF m = n THEN [prev |-> p, next |-> q, value |-> v]
             ELSE [node[m] EXCEPT !.next = IF m = p THEN n ELSE @]]
        /\ list' = [list EXCEPT ![l] =
             [head |-> IF ~after /\ @.head = old THEN n ELSE @.head,
              tail |-> IF after /\ @.tail = old THEN n ELSE @.tail,
              len  |-> @.len + 1]]

listInsertNode(l, old, v, after) ==
    LET n == FreshNode
        q == IF after THEN node[old].next ELSE old
        p == IF after THEN old ELSE node[old].prev
    IN  /\ Insertion(l, v) /\ old \in Range(Chain(l))
        /\ node' = [m \in Nodes |->
             IF m = n THEN [prev |-> p, next |-> q, value |-> v]
             ELSE [node[m] EXCEPT !.next = IF m = p THEN n ELSE @,
                                  !.prev = IF m = q THEN n ELSE @]]
        /\ list' = [list EXCEPT ![l] =
             [head |-> IF ~after /\ @.head = old THEN n ELSE @.head,
              tail |-> IF after /\ @.tail = old THEN n ELSE @.tail,
              len  |-> @.len + 1]]

\* The nodes of N go, and with them their values if there is a free method.
Holds(N) == {node[n].value : n \in N}
FreeNodes(N) ==
    /\ used' = used \ N
    /\ freed' = IF "free" \in use.methods THEN freed \cup (Holds(N) \cap Holds(used \ N)) ELSE freed

listDelNode(l, n) ==
    /\ \/ Quiet(l)
       \/ status = "ok" /\ copying = Idle /\ iter.of = l /\ iter.cur = n
    /\ n \in Range(Chain(l))
    /\ LET p == node[n].prev
           q == node[n].next
       IN  /\ node' = [m \in Nodes |->
                IF m = n THEN BlankNode
                ELSE [node[m] EXCEPT !.next = IF m = p THEN q ELSE @,
                                     !.prev = IF m = q THEN p ELSE @]]
           /\ list' = [list EXCEPT ![l] =
                [head |-> IF p = Nil THEN q ELSE @.head,
                 tail |-> IF q = Nil THEN p ELSE @.tail,
                 len  |-> @.len - 1]]
    /\ FreeNodes({n})
    /\ iter' = [iter EXCEPT !.cur = IF @ = n THEN Nil ELSE @]
    /\ UNCHANGED <<use, live, copying, status>>

\* Slip: the head goes to the end.
RotateWrongWay(l) ==
    /\ Quiet(l) /\ list[l].len > 1
    /\ LET t == list[l].tail
           h == list[l].head
           q == node[h].next
       IN  /\ node' = [[[node EXCEPT ![q].prev = Nil] EXCEPT ![t].next = h]
                          EXCEPT ![h] = [@ EXCEPT !.next = Nil, !.prev = t]]
           /\ list' = [list EXCEPT ![l] = [@ EXCEPT !.head = q, !.tail = h]]
    /\ UNCHANGED <<use, used, live, iter, copying, freed, status>>

listRotate(l) ==
    /\ Quiet(l) /\ list[l].len > 1
    /\ LET t == list[l].tail
           h == list[l].head
           p == node[t].prev
           cut == [node EXCEPT ![p].next = Nil]     \* the tail is taken out
       IN  /\ node' = [[cut EXCEPT ![t] = [@ EXCEPT !.next = h, !.prev = Nil]]
                          EXCEPT ![h].prev = t]
           /\ list' = [list EXCEPT ![l] = [@ EXCEPT !.head = t, !.tail = p]]
    /\ UNCHANGED <<use, used, live, iter, copying, freed, status>>

\* The memory of list l is given back: its values, its nodes, its header.
Discard(l) ==
    /\ FreeNodes(Range(Chain(l)))
    /\ node' = [n \in Nodes |-> IF n \in Range(Chain(l)) THEN BlankNode ELSE node[n]]
    /\ list' = [list EXCEPT ![l] = EmptyList]
    /\ live' = live \ {l}

listRelease(l) ==
    /\ Quiet(l)
    /\ Discard(l)
    /\ UNCHANGED <<use, iter, copying, status>>

-----------------------------------------------------------------------------
(* Iterators.                                                               *)

StartAt(l, dir) ==
    [of |-> l, dir |-> dir, cur |-> Nil, ended |-> FALSE, seen |-> <<>>,
     next  |-> IF dir = "head" THEN list[l].head ELSE list[l].tail,
     start |-> IF dir = "head" THEN Contents(l) ELSE Reverse(Contents(l))]

\* listGetIterator, or listRewind and listRewindTail on a used iterator.
listGetIterator(l, dir) ==
    /\ "iterate" \in use.calls
    /\ status = "ok" /\ copying = Idle /\ l \in live
    /\ iter.of \in {"none", l}
    /\ iter' = StartAt(l, dir)
    /\ UNCHANGED <<heap, copying, status>>

\* Slip: the successor is looked up on the next call, after the caller may
\* have deleted the node.
NextLate ==
    /\ status = "ok" /\ copying = Idle /\ iter.of # "none" /\ ~iter.ended
    /\ LET n == IF iter.seen = <<>> THEN iter.next
                ELSE Step(iter.cur, IF iter.dir = "head" THEN "next" ELSE "prev")
       IN  iter' = [iter EXCEPT !.cur = n, !.ended = (n = Nil),
                       !.seen = IF n = Nil THEN @ ELSE Append(@, node[n].value)]
    /\ UNCHANGED <<heap, copying, status>>

listNext ==
    /\ status = "ok" /\ copying = Idle /\ iter.of # "none" /\ ~iter.ended
    /\ LET n == iter.next IN
       iter' = [iter EXCEPT
                  !.cur   = n,
                  !.next  = Step(n, IF iter.dir = "head" THEN "next" ELSE "prev"),
                  !.ended = (n = Nil),
                  !.seen  = IF n = Nil THEN @ ELSE Append(@, node[n].value)]
    /\ UNCHANGED <<heap, copying, status>>

listReleaseIterator ==
    /\ status = "ok" /\ copying = Idle /\ iter.of # "none"
    /\ iter' = NoIter
    /\ UNCHANGED <<heap, copying, status>>

-----------------------------------------------------------------------------
(* listDup of "orig".                                                       *)

DupStart ==
    /\ "dup" \in use.calls
    /\ status = "ok" /\ copying = Idle
    /\ "orig" \in live /\ "copy" \notin live
    /\ \/ /\ status' = "wild"         \* no memory: return; without a value
          /\ UNCHANGED <<heap, copying>>
       \/ /\ live' = live \cup {"copy"}
          /\ list' = [list EXCEPT !["copy"] = EmptyList]
          /\ \/ /\ copying' = list["orig"].head
                /\ UNCHANGED status
             \/ /\ status' = "null"     \* the iterator is not tested for NULL
                /\ UNCHANGED copying
          /\ UNCHANGED <<use, node, used, freed>>
    /\ UNCHANGED iter

\* The values that copying v may give.
CopiesOf(v) ==
    IF "dup" \in use.methods THEN {w \in Values : Key(w) = Key(v) /\ w \notin Held} ELSE {v}

\* The copy of node copying is added, or memory runs out and the copy goes.
DupStep ==
    /\ status = "ok" /\ copying \notin {Idle, Nil}
    /\ \/ \E v \in CopiesOf(node[copying].value) :
            /\ Room # {}
            /\ used' = used \cup {FreshNode}
            /\ PushTail("copy", FreshNode, v)
            /\ copying' = node[copying].next
            /\ UNCHANGED <<live, freed>>
       \/ /\ Discard("copy")
          /\ copying' = Idle
    /\ UNCHANGED <<use, iter, status>>

DupEnd ==
    /\ status = "ok" /\ copying = Nil
    /\ copying' = Idle
    /\ UNCHANGED <<heap, iter, status>>

-----------------------------------------------------------------------------

Caller(l) ==
    \/ listCreate(l) \/ listRelease(l) \/ listRotate(l) \/ SearchFails(l)
    \/ \E v \in use.values :
         \/ listAddNodeHead(l, v)
         \/ listAddNodeTail(l, v)
         \/ \E old \in Nodes, after \in BOOLEAN : listInsertNode(l, old, v, after)
    \/ \E n \in Nodes : listDelNode(l, n)
    \/ \E dir \in {"head", "tail"} : listGetIterator(l, dir)

Next ==
    \/ \E l \in Lists : Caller(l)
    \/ listNext \/ listReleaseIterator
    \/ DupStart \/ DupStep \/ DupEnd

Spec == Init /\ [][Next]_vars

-----------------------------------------------------------------------------

TypeOK ==
    /\ node \in [Nodes -> [prev : Nodes \cup {Nil}, next : Nodes \cup {Nil},
                           value : Values \cup {Nil}]]
    /\ used \subseteq Nodes /\ live \subseteq Lists /\ freed \subseteq Values
    /\ list \in [Lists -> [head : Nodes \cup {Nil}, tail : Nodes \cup {Nil},
                           len : 0 .. Cardinality(Nodes)]]
    /\ iter.next \in Nodes \cup {Nil} /\ iter.cur \in Nodes \cup {Nil}
    /\ copying \in Nodes \cup {Nil, Idle}
    /\ status \in {"ok", "null", "wild"}

(* Every list reads the same from both ends, has as many nodes as it says,  *)
(* shares none with another, and no allocated node is out of reach.         *)
ListsExact ==
    /\ TypeOK
    /\ \A l \in live :
         LET c == Chain(l)
             n == list[l].len
         IN  /\ \A k \in 1 .. n : c[k] \in used
             /\ Walk(list[l].head, "next", n) = Nil
             /\ Walk(list[l].tail, "prev", n) = Nil
             /\ \A k \in 1 .. n : Walk(list[l].tail, "prev", n - k) = c[k]
    /\ used = UNION {Range(Chain(l)) : l \in live}
    /\ \A l, m \in live : l # m => Range(Chain(l)) \cap Range(Chain(m)) = {}

(* The pointers implement sequences: every call changes one list at one     *)
(* place, listRotate moves the last value to the front, and a failed        *)
(* listDup leaves the original as it was.                                   *)
Abstract == INSTANCE SeqLists WITH
    seq <- [l \in Lists |-> [live |-> l \in live, items |-> Contents(l)]]
ImplementsSeq == Abstract!SeqSpec

(* An iteration whose caller deletes nothing but the node it was just given *)
(* meets every value there was at its start, in order and once, and then    *)
(* ends; at no time does the iterator hold a node that is freed.            *)
IterComplete ==
    iter.of # "none" =>
        /\ iter.next \in used \cup {Nil}
        /\ IsPrefix(iter.seen, iter.start)
        /\ iter.ended => iter.seen = iter.start

(* listSearchKey returns the first match in list order, NULL if there is    *)
(* none; listIndex counts from either end and returns NULL just past both.  *)
LookupsAgree ==
    \A l \in live :
        LET c == Chain(l)
            n == list[l].len
            Hit(key) == {k \in 1 .. n : IF "match" \in use.methods
                                        THEN Key(node[c[k]].value) = Key(key)
                                        ELSE node[c[k]].value = key}
        IN  /\ \A key \in Values :
                 listSearchKey(l, key) =
                   IF Hit(key) = {} THEN Nil
                   ELSE c[CHOOSE k \in Hit(key) : \A j \in Hit(key) : k <= j]
            /\ \A i \in -(n + 1) .. n :
                 listIndex(l, i) = IF i \in 0 .. n - 1 THEN c[i + 1]
                                   ELSE IF i \in -n .. -1 THEN c[n + 1 + i]
                                   ELSE Nil

(* A listDup that returns a list returns one with the same keys in the same *)
(* order, on nodes and, with a dup method, values of its own.               *)
Keys(s) == [k \in DOMAIN s |-> Key(s[k])]
DupCopies ==
    [][copying = Nil /\ copying' = Idle =>
         /\ Keys(Contents("copy")) = Keys(Contents("orig"))
         /\ "dup" \in use.methods => Range(Contents("copy")) \cap Range(Contents("orig")) = {}]_vars

(* Whether it succeeds or fails, listDup does not modify its input: the     *)
(* original keeps its values, and none of them is freed.  The code does not *)
(* keep this for lists with a free method and no dup method: the copy that  *)
(* listDup gives up shares the values, and releasing it frees them.         *)
DupLeavesInput ==
    [][copying # Idle =>
         /\ Contents("orig")' = Contents("orig")
         /\ freed' \cap Range(Contents("orig")) = {}]_vars
=============================================================================
