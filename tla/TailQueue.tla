----------------------------- MODULE TailQueue -----------------------------
(***************************************************************************)
(* libevent_test/tailqueueTest/tailqueue.h: a queue in which every element *)
(* points to the next one and to the place that points to itself.  Such a  *)
(* place is the next field of an element or the first field of the head;   *)
(* both are named by their owner, so that *place = e is first[owner] = e.  *)
(***************************************************************************)
EXTENDS Integers, SequencesExt

CONSTANTS
    Elems,      \* elements that may be queued
    Anchor,     \* the queue head
    Nil         \* NULL

ASSUME AnchorAssumption == Anchor \notin Elems
ASSUME ElemsAssumption == IsFiniteSet(Elems)
ASSUME NilAssumption  == Nil \notin Elems \cup {Anchor}

VARIABLES
    first,      \* first[Anchor] is tqh_first, first[e] is e's tqe_next
    last,       \* last[Anchor] is tqh_last, last[e] is e's tqe_prev
    queued      \* history: the elements now in the queue

vars == <<first, last, queued>>

Places == Elems \cup {Anchor}

\* TAILQ_INIT.  The fields of an element that is not queued are of no account.
Init ==
    /\ first  = [p \in Places |-> Nil]
    /\ last   = [p \in Places |-> Anchor]
    /\ queued = {}

\* Elements join and leave the queue; the caller inserts none twice.
Join(e)  == e \notin queued /\ queued' = queued \cup {e}
Leave(e) == e \in queued /\ queued' = queued \ {e}

\* Both fields of e, and the field that names e's follower's place, if e has
\* a follower f, else the head's last field.
Relink(e, next, prev) ==
    last' = [p \in Places |-> IF p = e THEN prev
                              ELSE IF p = (IF next = Nil THEN Anchor ELSE next) THEN e
                              ELSE last[p]]

TAILQ_INSERT_HEAD(e) ==
    /\ Join(e)
    /\ first' = [first EXCEPT ![e] = first[Anchor], ![Anchor] = e]
    /\ Relink(e, first[Anchor], Anchor)

TAILQ_INSERT_TAIL(e) ==
    /\ Join(e)
    /\ first' = [first EXCEPT ![e] = Nil, ![last[Anchor]] = e]
    /\ last'  = [last EXCEPT ![e] = last[Anchor], ![Anchor] = e]

TAILQ_INSERT_AFTER(f, e) ==
    /\ f \in queued /\ Join(e)
    /\ first' = [first EXCEPT ![e] = first[f], ![f] = e]
    /\ Relink(e, first[f], f)

\* Slip: the element goes behind f, as with TAILQ_INSERT_AFTER.
InsertBeforeBehind(f, e) ==
    /\ f \in queued /\ Join(e)
    /\ first' = [first EXCEPT ![e] = first[f], ![f] = e]
    /\ Relink(e, first[f], f)

TAILQ_INSERT_BEFORE(f, e) ==
    /\ f \in queued /\ Join(e)
    /\ first' = [first EXCEPT ![e] = f, ![last[f]] = e]
    /\ last'  = [last EXCEPT ![e] = last[f], ![f] = e]

\* Slip: the head's last field is left on the element that goes.
RemoveKeepsLast(e) ==
    /\ Leave(e)
    /\ first' = [first EXCEPT ![last[e]] = first[e]]
    /\ last'  = IF first[e] = Nil THEN last ELSE [last EXCEPT ![first[e]] = last[e]]

TAILQ_REMOVE(e) ==
    /\ Leave(e)
    /\ first' = [first EXCEPT ![last[e]] = first[e]]
    /\ last'  = [last EXCEPT ![IF first[e] = Nil THEN Anchor ELSE first[e]] = last[e]]

TAILQ_REPLACE(e, by) ==
    /\ e \in queued /\ by \notin queued
    /\ queued' = (queued \ {e}) \cup {by}
    /\ first' = [first EXCEPT ![by] = first[e], ![last[e]] = by]
    /\ Relink(by, first[e], last[e])

Next ==
    \E e \in Elems :
        \/ TAILQ_INSERT_HEAD(e)
        \/ TAILQ_INSERT_TAIL(e)
        \/ TAILQ_REMOVE(e)
        \/ \E f \in Elems :
             \/ TAILQ_INSERT_AFTER(f, e)
             \/ TAILQ_INSERT_BEFORE(f, e)
             \/ TAILQ_REPLACE(f, e)

Spec == Init /\ [][Next]_vars

-----------------------------------------------------------------------------
(* Access.  TAILQ_LAST and TAILQ_PREV read the two fields of an element as  *)
(* if they were those of a head: the place of a place.                      *)

TAILQ_LAST    == first[last[last[Anchor]]]
TAILQ_PREV(e) == first[last[last[e]]]

\* TAILQ_FOREACH and TAILQ_FOREACH_REVERSE: what they visit, in order.
ForEach ==
    LET go[n \in Nat] ==
          IF n = 0 THEN <<>>
          ELSE LET done == go[n - 1]
                   e == IF done = <<>> THEN first[Anchor] ELSE first[Last(done)]
               IN  IF Len(done) < n - 1 \/ e = Nil THEN done ELSE Append(done, e)
    IN  go[Cardinality(Elems) + 1]

PrevByAddress(e) == last[e]         \* slip: the place taken for its owner
BackFrom(e) == TAILQ_PREV(e)

ForEachReverse ==
    LET go[n \in Nat] ==
          IF n = 0 THEN <<>>
          ELSE LET done == go[n - 1]
                   e == IF done = <<>> THEN TAILQ_LAST ELSE BackFrom(Last(done))
               IN  IF Len(done) < n - 1 \/ e = Nil THEN done ELSE Append(done, e)
    IN  go[Cardinality(Elems) + 1]

-----------------------------------------------------------------------------

TypeOK ==
    /\ first  \in [Places -> Elems \cup {Nil}]
    /\ last   \in [Places -> Places]
    /\ queued \subseteq Elems

(* Among the head and the queued elements, first and last are each other's  *)
(* inverse: whatever points to e is e's place, and exactly one place, the   *)
(* one in tqh_last, ends the queue.                                         *)
LinksMatch ==
    LET on == queued \cup {Anchor} IN
    /\ \A e \in queued : last[e] \in on /\ first[last[e]] = e
    /\ \A p \in on : first[p] # Nil => first[p] \in queued /\ last[first[p]] = p
    /\ last[Anchor] \in on
    /\ \A p \in on : first[p] = Nil <=> p = last[Anchor]

QueueInv == TypeOK /\ LinksMatch

(* The casts of TAILQ_LAST and TAILQ_PREV find what they should: going back *)
(* from the end visits the elements of the queue, each once, in the reverse *)
(* of the order going forward does.                                         *)
ReverseAgrees ==
    /\ Range(ForEach) = queued
    /\ Len(ForEach) = Cardinality(queued)
    /\ ForEachReverse = Reverse(ForEach)

(* Every macro changes the order of the queue where its name says and       *)
(* leaves the rest alone: a new element becomes the first, the last, the    *)
(* one after or the one before the element named, an element is taken out,  *)
(* or a new one stands in its place.                                        *)
OneChange ==
    [][LET s == ForEach
           t == ForEach'
       IN  \A e \in Elems :
             /\ TAILQ_INSERT_HEAD(e) => t = InsertAt(s, 1, e)
             /\ TAILQ_INSERT_TAIL(e) => t = InsertAt(s, Len(s) + 1, e)
             /\ TAILQ_REMOVE(e) => \E k \in 1 .. Len(s) : s[k] = e /\ t = RemoveAt(s, k)
             /\ \A f \in Elems :
                  /\ TAILQ_INSERT_AFTER(f, e) =>
                       \E k \in 1 .. Len(s) : s[k] = f /\ t = InsertAt(s, k + 1, e)
                  /\ TAILQ_INSERT_BEFORE(f, e) =>
                       \E k \in 1 .. Len(s) : s[k] = f /\ t = InsertAt(s, k, e)
                  /\ TAILQ_REPLACE(f, e) =>
                       \E k \in 1 .. Len(s) : s[k] = f /\ t = ReplaceAt(s, k, e)]_vars
=============================================================================
