-------------------------- MODULE StructureProofs --------------------------
(***************************************************************************)
(* Proofs about three structures that stand alone: the tail queue macros,  *)
(* for any finite set of elements; the two-level allocator, for every      *)
(* alignment, size limit, refill count, set of sizes and amount of memory; *)
(* and the search tree, for any keys and any memory.                       *)
(*                                                                         *)
(* The tail queue: its links match, and both walks visit the queue in the  *)
(* order the macros gave it.  QueueInv alone is not inductive: an element  *)
(* that pointed to itself would satisfy it and break under TAILQ_REPLACE.  *)
(* Acyclic, a numbering that grows along the queue, rules that out.  The   *)
(* order needs more, a sequence that spells the links (Spelled); every     *)
(* macro edits it at one place, and the walks read it from either end.     *)
(*                                                                         *)
(* The search tree: LinksExact is not inductive, since deleteNode searches *)
(* for the node it takes out and insert goes down to a left end, and what  *)
(* they find depends on keys and on links of nodes that left the tree.     *)
(* TreeInv describes the only shape insert builds, a spine of left links   *)
(* with growing keys, and orders all addresses along the links.            *)
(***************************************************************************)
EXTENDS TailQueue, StlAlloc, SearchTree, DataLemmas, FiniteSetTheorems

On == queued \cup {Anchor}

Grows(r) == \A p \in On : first[p] # Nil => r[p] < r[first[p]]
Acyclic  == \E r \in [Places -> Int] : Grows(r)

IInv == QueueInv /\ Acyclic

\* What QueueInv says of the present links, in the form the lemmas use.
LEMMA Facts ==
    ASSUME QueueInv
    PROVE  /\ Anchor \notin Elems /\ Nil \notin Elems /\ Nil # Anchor
           /\ first \in [Places -> Elems \cup {Nil}] /\ last \in [Places -> Places]
           /\ queued \subseteq Elems /\ On \subseteq Places
           /\ \A e \in queued : last[e] \in On /\ first[last[e]] = e
           /\ \A p \in On : first[p] # Nil => first[p] \in queued /\ last[first[p]] = p
           /\ last[Anchor] \in On
           /\ \A p \in On : first[p] = Nil <=> p = last[Anchor]
BY AnchorAssumption, NilAssumption DEF QueueInv, TypeOK, LinksMatch, On, Places

\* An element joins between place f and what f points to; every insertion is
\* of this form.  The numbers beyond f move up by one.
LEMMA JoinAfter ==
    ASSUME IInv, NEW e \in Elems, NEW f \in On, Join(e),
           first' = [first EXCEPT ![e] = first[f], ![f] = e],
           Relink(e, first[f], f)
    PROVE  IInv'
<1>0. QueueInv
  BY DEF IInv
<1>1. TypeOK'
  BY <1>0, Facts DEF TypeOK, Join, Relink, Places, On
<1>2. LinksMatch'
  BY <1>0, Facts DEF LinksMatch, Join, Relink, Places, On
<1>3. Acyclic'
  <2>1. PICK r \in [Places -> Int] : Grows(r)
    BY DEF IInv, Acyclic
  <2> DEFINE s == [p \in Places |-> IF p = e THEN r[f] + 1
                                    ELSE IF r[p] > r[f] THEN r[p] + 1 ELSE r[p]]
  <2>2. e \notin On /\ On' = On \cup {e} /\ f \in Places /\ e \in Places
    BY <1>0, Facts DEF Join, On, Places
  <2>3. s \in [Places -> Int]
    BY <2>2
  <2>4. ASSUME NEW p \in On', first'[p] # Nil  PROVE s[p] < s[first'[p]]
    <3>1. CASE p = f
      BY <1>0, <2>2, <3>1, Facts
    <3>2. CASE p = e
      <4>1. first'[p] = first[f] /\ first[f] # Nil /\ first[f] # e /\ first[f] \in Places
        BY <1>0, <2>2, <2>4, <3>2, Facts DEF On
      <4>2. r[f] < r[first[f]]
        BY <2>1, <4>1 DEF Grows
      <4>. QED  BY <2>2, <3>2, <4>1, <4>2
    <3>3. CASE p # f /\ p # e
      <4>1. p \in On /\ first'[p] = first[p] /\ first[p] # e /\ first[p] \in Places
            /\ p \in Places
        BY <1>0, <2>2, <2>4, <3>3, Facts DEF On
      <4>2. r[p] < r[first[p]]
        BY <2>1, <2>4, <4>1 DEF Grows
      <4>. QED  BY <2>2, <3>3, <4>1, <4>2
    <3>. QED  BY <3>1, <3>2, <3>3
  <2> HIDE DEF s
  <2>. QED  BY <2>3, <2>4 DEF Acyclic, Grows
<1>. QED  BY <1>1, <1>2, <1>3 DEF IInv, QueueInv

LEMMA Insertions ==
    ASSUME IInv, NEW e \in Elems, NEW f \in Elems,
           \/ TAILQ_INSERT_HEAD(e)     \/ TAILQ_INSERT_TAIL(e)
           \/ TAILQ_INSERT_AFTER(f, e) \/ TAILQ_INSERT_BEFORE(f, e)
    PROVE  IInv'
<1>0. QueueInv
  BY DEF IInv
<1>1. CASE TAILQ_INSERT_HEAD(e)
  BY <1>1, JoinAfter DEF TAILQ_INSERT_HEAD, On
<1>2. CASE TAILQ_INSERT_AFTER(f, e)
  BY <1>2, JoinAfter DEF TAILQ_INSERT_AFTER, On
<1>3. CASE TAILQ_INSERT_TAIL(e)
  <2> DEFINE g == last[Anchor]
  <2>1. g \in On /\ first[g] = Nil /\ Join(e)
    BY <1>0, <1>3, Facts DEF TAILQ_INSERT_TAIL
  <2>2. first' = [first EXCEPT ![e] = first[g], ![g] = e]
    BY <1>3, <2>1 DEF TAILQ_INSERT_TAIL
  <2>3. Relink(e, first[g], g)
    <3>1. last \in [Places -> Places] /\ last' = [last EXCEPT ![e] = g, ![Anchor] = e]
          /\ e # Anchor
      BY <1>0, <1>3, Facts DEF TAILQ_INSERT_TAIL
    <3> HIDE DEF g
    <3>2. last' = [p \in Places |-> IF p = e THEN g ELSE IF p = Anchor THEN e ELSE last[p]]
      BY <3>1
    <3>. QED  BY <2>1, <3>2 DEF Relink
  <2> HIDE DEF g
  <2>. QED  BY <2>1, <2>2, <2>3, JoinAfter
<1>4. CASE TAILQ_INSERT_BEFORE(f, e)
  <2> DEFINE g == last[f]
  <2>1. g \in On /\ first[g] = f /\ f # Nil /\ Join(e) /\ f # e
    BY <1>0, <1>4, Facts DEF TAILQ_INSERT_BEFORE, Join
  <2>2. first' = [first EXCEPT ![e] = first[g], ![g] = e]
    BY <1>4, <2>1 DEF TAILQ_INSERT_BEFORE
  <2>3. Relink(e, first[g], g)
    BY <1>0, <1>4, <2>1, Facts DEF TAILQ_INSERT_BEFORE, Relink, Places
  <2> HIDE DEF g
  <2>. QED  BY <2>1, <2>2, <2>3, JoinAfter
<1>. QED  BY <1>1, <1>2, <1>3, <1>4

LEMMA RemoveElem ==
    ASSUME IInv, NEW e \in Elems, TAILQ_REMOVE(e)
    PROVE  IInv'
<1>0. QueueInv
  BY DEF IInv
<1>1. TypeOK'
  BY <1>0, Facts DEF TypeOK, Leave, Places, On, TAILQ_REMOVE
<1>2. LinksMatch'
  BY <1>0, Facts DEF LinksMatch, Leave, Places, On, TAILQ_REMOVE
<1>3. Acyclic'
  <2>1. PICK r \in [Places -> Int] : Grows(r)
    BY DEF IInv, Acyclic
  <2>2. e \in queued /\ On' = On \ {e} /\ last[e] \in On /\ first[last[e]] = e
    BY <1>0, Facts DEF TAILQ_REMOVE, Leave, On
  <2>3. ASSUME NEW p \in On', first'[p] # Nil  PROVE r[p] < r[first'[p]]
    <3>1. CASE p = last[e]
      <4>1. first'[p] = first[e] /\ first[e] # Nil /\ first[e] \in Places /\ e \in Places
        BY <1>0, <2>2, <2>3, <3>1, Facts DEF TAILQ_REMOVE, On
      <4>2. r[p] < r[e] /\ r[e] < r[first[e]]
        BY <1>0, <2>1, <2>2, <3>1, <4>1, Facts DEF Grows, On
      <4>3. p \in Places
        BY <1>0, <2>2, <2>3, Facts
      <4>. QED  BY <4>1, <4>2, <4>3
    <3>2. CASE p # last[e]
      BY <1>0, <2>1, <2>2, <2>3, <3>2, Facts DEF Grows, TAILQ_REMOVE
    <3>. QED  BY <3>1, <3>2
  <2>. QED  BY <2>3 DEF Acyclic, Grows
<1>. QED  BY <1>1, <1>2, <1>3 DEF IInv, QueueInv

LEMMA ReplaceElem ==
    ASSUME IInv, NEW e \in Elems, NEW by \in Elems, TAILQ_REPLACE(e, by)
    PROVE  IInv'
<1> DEFINE p0 == last[e]
           q0 == first[e]
<1>0. QueueInv
  BY DEF IInv
<1>1. TypeOK'
  BY <1>0, Facts DEF TypeOK, Relink, Places, On, TAILQ_REPLACE
<1>r. PICK r \in [Places -> Int] : Grows(r)
  BY DEF IInv, Acyclic
<1>2. /\ e \in queued /\ by \notin queued /\ by # e /\ by # Anchor
      /\ queued' = (queued \ {e}) \cup {by} /\ On' = (On \ {e}) \cup {by}
  BY <1>0, Facts DEF TAILQ_REPLACE, On
<1>3. /\ p0 \in On /\ first[p0] = e /\ p0 # by
      /\ q0 # Nil => q0 \in queued /\ last[q0] = e /\ q0 # by
      /\ q0 = Nil <=> e = last[Anchor]
  BY <1>0, <1>2, Facts DEF On
<1>4. p0 # e /\ q0 # e
  <2>1. e \in On /\ first[p0] # Nil /\ r[e] \in Int
    BY <1>0, <1>2, <1>3, Facts DEF On
  <2>2. r[p0] < r[e]
    BY <1>r, <1>3, <2>1 DEF Grows
  <2>3. q0 # Nil => r[e] < r[q0]
    BY <1>r, <2>1 DEF Grows
  <2>4. Nil # e
    BY <1>0, Facts
  <2>. QED  BY <2>1, <2>2, <2>3, <2>4
<1>5. \A p \in On' : first'[p] = IF p = p0 THEN by ELSE IF p = by THEN q0 ELSE first[p]
  <2>1. first' = [first EXCEPT ![by] = q0, ![p0] = by] /\ On' \subseteq Places
    BY <1>0, <1>2, Facts DEF TAILQ_REPLACE, On, Places
  <2>2. first \in [Places -> Elems \cup {Nil}]
    BY <1>0, Facts
  <2> HIDE DEF p0, q0
  <2>. QED  BY <1>3, <2>1, <2>2
<1>6. \A p \in On' : last'[p] = IF p = by THEN p0
                               ELSE IF p = (IF q0 = Nil THEN Anchor ELSE q0) THEN by
                               ELSE last[p]
  <2>1. Relink(by, q0, p0) /\ On' \subseteq Places
    BY <1>0, <1>2, Facts DEF TAILQ_REPLACE, On, Places
  <2> HIDE DEF p0, q0
  <2>. QED  BY <2>1 DEF Relink
<1> HIDE DEF p0, q0
<1>7. LinksMatch'
  BY <1>0, <1>2, <1>3, <1>4, <1>5, <1>6, Facts DEF LinksMatch, On
<1>8. Acyclic'
  <2> DEFINE s == [r EXCEPT ![by] = r[e]]
  <2>1. s \in [Places -> Int]
    BY <1>2 DEF Places
  <2>2. ASSUME NEW p \in On', first'[p] # Nil  PROVE s[p] < s[first'[p]]
    <3>1. p \in Places /\ by \in Places /\ e \in Places /\ e \in On
      BY <1>0, <1>2, Facts DEF On, Places
    <3>2. CASE p = p0
      <4>1. first'[p] = by /\ p \in On /\ first[p] = e /\ e # Nil
        BY <1>0, <1>2, <1>3, <1>5, <2>2, <3>2, Facts
      <4>2. r[p] < r[e]
        BY <1>r, <4>1 DEF Grows
      <4>. QED  BY <1>3, <3>1, <3>2, <4>1, <4>2
    <3>3. CASE p = by
      <4>1. first'[p] = q0 /\ q0 # Nil /\ q0 # by /\ q0 \in Places
        BY <1>0, <1>2, <1>3, <1>5, <2>2, <3>3, Facts DEF On
      <4>2. r[e] < r[q0]
        BY <1>r, <3>1, <4>1 DEF Grows, q0
      <4>. QED  BY <3>1, <3>3, <4>1, <4>2
    <3>4. CASE p # p0 /\ p # by
      <4>1. p \in On /\ first'[p] = first[p] /\ first[p] # by /\ first[p] \in Places
        BY <1>0, <1>2, <1>5, <2>2, <3>4, Facts DEF On
      <4>2. r[p] < r[first[p]]
        BY <1>r, <2>2, <4>1 DEF Grows
      <4>. QED  BY <3>1, <3>4, <4>1, <4>2
    <3>. QED  BY <3>2, <3>3, <3>4
  <2> HIDE DEF s
  <2>. QED  BY <2>1, <2>2 DEF Acyclic, Grows
<1>. QED  BY <1>1, <1>7, <1>8 DEF IInv, QueueInv

LEMMA EmptyQueue == Init => IInv
<1> SUFFICES ASSUME Init  PROVE IInv
  OBVIOUS
<1>1. QueueInv
  BY AnchorAssumption, NilAssumption DEF Init, QueueInv, TypeOK, LinksMatch, Places
<1>2. Grows([p \in Places |-> 0])
  BY DEF Init, Grows, On, Places
<1>. QED  BY <1>1, <1>2 DEF IInv, Acyclic

LEMMA InvStep == IInv /\ [Next]_vars => IInv'
<1> SUFFICES ASSUME IInv, [Next]_vars  PROVE IInv'
  OBVIOUS
<1>1. CASE Next
  BY <1>1, Insertions, RemoveElem, ReplaceElem DEF Next
<1>2. CASE UNCHANGED vars
  BY <1>2 DEF vars, IInv, QueueInv, TypeOK, LinksMatch, Acyclic, Grows, On
<1>. QED  BY <1>1, <1>2

(* The two fields of every queued element and of the head match after any   *)
(* sequence of macros, for any set of elements: TAILQ_REMOVE, which is not  *)
(* given the element before, always unlinks the right place.                *)
THEOREM QueueLinked == Spec => []QueueInv
<1>1. IInv => QueueInv
  BY DEF IInv
<1>. QED  BY EmptyQueue, InvStep, <1>1, PTL DEF Spec

LEMMA BackLinks ==
    QueueInv =>
        /\ \A e \in queued :
             TAILQ_PREV(e) = IF last[e] = Anchor THEN Nil ELSE last[e]
        /\ TAILQ_LAST = IF last[Anchor] = Anchor THEN Nil ELSE last[Anchor]
BY Facts DEF TAILQ_PREV, TAILQ_LAST, Places, On

(* The casts in TAILQ_LAST and TAILQ_PREV are right: stepping back from an *)
(* element finds the one whose next field points to it, from the head the   *)
(* last one, and NULL where there is none.                                  *)
THEOREM StepsBack ==
    Spec => []/\ \A e \in queued :
                   TAILQ_PREV(e) = IF last[e] = Anchor THEN Nil ELSE last[e]
              /\ TAILQ_LAST = IF last[Anchor] = Anchor THEN Nil ELSE last[Anchor]
BY BackLinks, QueueLinked, PTL

-----------------------------------------------------------------------------
(* The order of the queue.  Some sequence spells the links: its members are *)
(* the queued elements, each once, and every place points to the next one.  *)

\* The k-th place: the head's, then those of the elements.
At(s, k) == IF k = 0 THEN Anchor ELSE s[k]

Spells(s, fst, q) ==
    /\ s \in Seq(Elems) /\ Distinct(s) /\ Range(s) = q
    /\ \A k \in 0 .. Len(s) : fst[At(s, k)] = IF k = Len(s) THEN Nil ELSE s[k + 1]

Spelled == \E s : Spells(s, first, queued)

\* Where the back links point, in terms of the sequence.
LEMMA PlacesOfSequence ==
    ASSUME QueueInv, NEW s, Spells(s, first, queued)
    PROVE  /\ Len(s) \in Nat /\ s \in Seq(Elems)
           /\ \A k \in 0 .. Len(s) : At(s, k) \in On /\ At(s, k) \in Places
           /\ \A k \in 1 .. Len(s) : s[k] \in queued /\ s[k] \in Elems /\ last[s[k]] = At(s, k - 1)
           /\ last[Anchor] = At(s, Len(s))
           /\ \A e \in queued : \E k \in 1 .. Len(s) : s[k] = e
           /\ \A j, k \in 0 .. Len(s) : At(s, j) = At(s, k) => j = k
<1>1. /\ Len(s) \in Nat /\ s \in Seq(Elems) /\ DOMAIN s = 1 .. Len(s)
      /\ \A k \in 0 .. Len(s) : k = 0 \/ k \in 1 .. Len(s)
      /\ \A k \in 1 .. Len(s) : k \in 0 .. Len(s) /\ k # 0 /\ s[k] \in Elems
  BY DEF Spells
<1>2. \A k \in 1 .. Len(s) : s[k] \in queued
  BY <1>1 DEF Spells, Range
<1>3. \A e \in queued : \E k \in 1 .. Len(s) : s[k] = e
  BY <1>1 DEF Spells, Range
<1>4. \A k \in 0 .. Len(s) : At(s, k) \in On /\ At(s, k) \in Places
  BY <1>1, <1>2 DEF At, On, Places
<1>5. ASSUME NEW k \in 1 .. Len(s)  PROVE last[s[k]] = At(s, k - 1)
  <2>1. k - 1 \in 0 .. Len(s) /\ k - 1 # Len(s) /\ (k - 1) + 1 = k
    BY <1>1
  <2>2. first[At(s, k - 1)] = s[k]
    BY <2>1 DEF Spells
  <2>3. s[k] # Nil
    BY <1>1, Facts
  <2>. QED  BY <1>4, <2>1, <2>2, <2>3, Facts
<1>6. last[Anchor] = At(s, Len(s))
  <2>1. Len(s) \in 0 .. Len(s)
    BY <1>1
  <2>2. first[At(s, Len(s))] = Nil
    BY <2>1 DEF Spells
  <2>. QED  BY <1>4, <2>1, <2>2, Facts
<1>7. \A j, k \in 0 .. Len(s) : At(s, j) = At(s, k) => j = k
  <2>1. SUFFICES ASSUME NEW j \in 0 .. Len(s), NEW k \in 0 .. Len(s), At(s, j) = At(s, k)
                 PROVE  j = k
    OBVIOUS
  <2>2. CASE j = 0 \/ k = 0
    BY <1>1, <2>1, <2>2, AnchorAssumption DEF At
  <2>3. CASE j # 0 /\ k # 0
    <3>1. j \in 1 .. Len(s) /\ k \in 1 .. Len(s) /\ s[j] = s[k]
      BY <1>1, <2>1, <2>3 DEF At
    <3>. QED  BY <3>1 DEF Spells, Distinct
  <2>. QED  BY <2>2, <2>3
<1>. QED  BY <1>1, <1>2, <1>3, <1>4, <1>5, <1>6, <1>7

\* An element that joins after the i-th place.
LEMMA SpellJoin ==
    ASSUME QueueInv, NEW s, Spells(s, first, queued), NEW i \in 0 .. Len(s),
           NEW e \in Elems, Join(e),
           first' = [first EXCEPT ![e] = first[At(s, i)], ![At(s, i)] = e]
    PROVE  Spells(InsertAt(s, i + 1, e), first', queued')
<1>1. PICK t : t = InsertAt(s, i + 1, e)
  OBVIOUS
<1>2. /\ Len(s) \in Nat /\ s \in Seq(Elems) /\ i \in Nat /\ i <= Len(s)
      /\ \A k \in 0 .. Len(s) : At(s, k) \in On /\ At(s, k) \in Places
      /\ \A k \in 1 .. Len(s) : s[k] \in queued
      /\ \A d \in queued : \E k \in 1 .. Len(s) : s[k] = d
      /\ \A j, k \in 0 .. Len(s) : At(s, j) = At(s, k) => j = k
  BY PlacesOfSequence
<1>3. /\ t \in Seq(Elems) /\ Len(t) = Len(s) + 1 /\ DOMAIN t = 1 .. Len(t)
      /\ \A j \in 1 .. Len(t) : t[j] = IF j <= i THEN s[j] ELSE IF j = i + 1 THEN e ELSE s[j - 1]
  BY <1>1, <1>2, InsertAtValues DEF Gains
<1>4. e \notin queued /\ queued' = queued \cup {e} /\ e \notin On /\ e \in Places
  BY AnchorAssumption DEF Join, On, Places
<1>5. /\ first'[e] = first[At(s, i)] /\ first'[At(s, i)] = e
      /\ \A k \in 0 .. Len(s) : k # i => first'[At(s, k)] = first[At(s, k)]
  <2>1. first \in [Places -> Elems \cup {Nil}] /\ At(s, i) \in Places /\ At(s, i) # e
    BY <1>2, <1>4, Facts
  <2>2. \A k \in 0 .. Len(s) : k # i => At(s, k) # At(s, i) /\ At(s, k) # e /\ At(s, k) \in Places
    BY <1>2, <1>4
  <2>. QED  BY <1>4, <2>1, <2>2
<1>6. \A k \in 0 .. Len(s) : first[At(s, k)] = IF k = Len(s) THEN Nil ELSE s[k + 1]
  BY DEF Spells
<1>7. Distinct(t)
  <2>1. SUFFICES ASSUME NEW j \in 1 .. Len(t), NEW k \in 1 .. Len(t), t[j] = t[k]  PROVE j = k
    BY DEF Distinct
  <2> DEFINE ix == [m \in 1 .. Len(t) |-> IF m <= i THEN m ELSE m - 1]
  <2>2. \A m \in 1 .. Len(t) : m # i + 1 => ix[m] \in 1 .. Len(s) /\ t[m] = s[ix[m]]
    BY <1>2, <1>3
  <2>3. \A m, n \in 1 .. Len(t) : m # i + 1 /\ n # i + 1 /\ ix[m] = ix[n] => m = n
    BY <1>2, <1>3
  <2>4. i + 1 \in 1 .. Len(t) /\ t[i + 1] = e
    BY <1>2, <1>3
  <2> HIDE DEF ix
  <2>5. \A m \in 1 .. Len(t) : m # i + 1 => t[m] # e
    BY <1>2, <1>4, <2>2
  <2>6. \A m, n \in 1 .. Len(s) : s[m] = s[n] => m = n
    BY DEF Spells, Distinct
  <2>7. CASE j = i + 1 \/ k = i + 1
    BY <2>1, <2>4, <2>5, <2>7
  <2>8. CASE j # i + 1 /\ k # i + 1
    BY <2>1, <2>2, <2>3, <2>6, <2>8
  <2>. QED  BY <2>7, <2>8
<1>8. Range(t) = queued'
  <2>1. ASSUME NEW j \in 1 .. Len(t)  PROVE t[j] \in queued \cup {e}
    <3>1. j = i + 1 \/ (j <= i /\ j \in 1 .. Len(s)) \/ (~(j <= i) /\ j # i + 1 /\ j - 1 \in 1 .. Len(s))
      BY <1>2, <1>3
    <3>. QED  BY <1>2, <1>3, <3>1
  <2>2. ASSUME NEW d \in queued \cup {e}  PROVE \E j \in 1 .. Len(t) : t[j] = d
    <3>1. CASE d = e
      <4>1. i + 1 \in 1 .. Len(t) /\ t[i + 1] = e
        BY <1>2, <1>3
      <4>. QED  BY <3>1, <4>1
    <3>2. CASE d # e
      <4>1. PICK k \in 1 .. Len(s) : s[k] = d
        BY <1>2, <2>2, <3>2
      <4>2. CASE k <= i
        <5>1. k \in 1 .. Len(t) /\ t[k] = d
          BY <1>2, <1>3, <4>1, <4>2
        <5>. QED  BY <5>1
      <4>3. CASE ~(k <= i)
        <5>1. k + 1 \in 1 .. Len(t) /\ ~(k + 1 <= i) /\ k + 1 # i + 1 /\ (k + 1) - 1 = k
          BY <1>2, <1>3, <4>3
        <5>2. t[k + 1] = d
          BY <1>3, <4>1, <5>1
        <5>. QED  BY <5>1, <5>2
      <4>. QED  BY <4>2, <4>3
    <3>. QED  BY <3>1, <3>2
  <2>. QED  BY <1>3, <1>4, <2>1, <2>2 DEF Range
<1>9. ASSUME NEW k \in 0 .. Len(t)
      PROVE  first'[At(t, k)] = IF k = Len(t) THEN Nil ELSE t[k + 1]
  <2>1. k \in Nat /\ k <= Len(s) + 1
    BY <1>2, <1>3
  <2>2. CASE k < i
    <3>1. /\ k \in 0 .. Len(s) /\ k # i /\ k # Len(s) /\ k # Len(t)
          /\ k + 1 \in 1 .. Len(t) /\ k + 1 <= i /\ (k # 0 => k \in 1 .. Len(t) /\ k <= i)
      BY <1>2, <1>3, <2>1, <2>2
    <3>2. At(t, k) = At(s, k) /\ t[k + 1] = s[k + 1]
      BY <1>3, <3>1 DEF At
    <3>. QED  BY <1>5, <1>6, <3>1, <3>2
  <2>3. CASE k = i
    <3>1. k # Len(t) /\ k + 1 \in 1 .. Len(t) /\ ~(k + 1 <= i) /\ (k # 0 => k \in 1 .. Len(t) /\ k <= i)
      BY <1>2, <1>3, <2>1, <2>3
    <3>2. At(t, k) = At(s, i) /\ t[k + 1] = e
      BY <1>3, <2>3, <3>1 DEF At
    <3>. QED  BY <1>5, <3>1, <3>2
  <2>4. CASE k = i + 1
    <3>1. k # 0 /\ k \in 1 .. Len(t) /\ ~(k <= i) /\ (k = Len(t) <=> i = Len(s)) /\ i \in 0 .. Len(s)
      BY <1>2, <1>3, <2>1, <2>4
    <3>2. At(t, k) = e
      BY <1>3, <2>4, <3>1 DEF At
    <3>3. k # Len(t) => t[k + 1] = s[i + 1]
      <4>1. SUFFICES ASSUME k # Len(t)  PROVE t[k + 1] = s[i + 1]
        OBVIOUS
      <4>2. k + 1 \in 1 .. Len(t) /\ ~(k + 1 <= i) /\ k + 1 # i + 1 /\ (k + 1) - 1 = i + 1
        BY <1>2, <1>3, <2>1, <2>4, <4>1
      <4>. QED  BY <1>3, <4>2
    <3>. QED  BY <1>5, <1>6, <3>1, <3>2, <3>3
  <2>5. CASE k > i + 1
    <3>1. /\ k # 0 /\ k \in 1 .. Len(t) /\ ~(k <= i) /\ k # i + 1
          /\ k - 1 \in 0 .. Len(s) /\ k - 1 # 0 /\ k - 1 # i /\ (k = Len(t) <=> k - 1 = Len(s))
      BY <1>2, <1>3, <2>1, <2>5
    <3>2. At(t, k) = At(s, k - 1)
      BY <1>3, <3>1 DEF At
    <3>3. k # Len(t) => t[k + 1] = s[(k - 1) + 1]
      <4>1. SUFFICES ASSUME k # Len(t)  PROVE t[k + 1] = s[(k - 1) + 1]
        OBVIOUS
      <4>2. k + 1 \in 1 .. Len(t) /\ ~(k + 1 <= i) /\ k + 1 # i + 1 /\ (k + 1) - 1 = (k - 1) + 1
        BY <1>2, <1>3, <2>1, <2>5, <4>1
      <4>. QED  BY <1>3, <4>2
    <3>. QED  BY <1>5, <1>6, <3>1, <3>2, <3>3
  <2>. QED  BY <1>2, <2>1, <2>2, <2>3, <2>4, <2>5
<1>. QED  BY <1>1, <1>3, <1>7, <1>8, <1>9 DEF Spells

\* The k-th element leaves.
LEMMA SpellLeave ==
    ASSUME QueueInv, NEW s, Spells(s, first, queued), NEW k \in 1 .. Len(s),
           queued' = queued \ {s[k]},
           first' = [first EXCEPT ![At(s, k - 1)] = first[s[k]]]
    PROVE  Spells(RemoveAt(s, k), first', queued')
<1>1. PICK t : t = RemoveAt(s, k)
  OBVIOUS
<1>2. /\ Len(s) \in Nat /\ s \in Seq(Elems) /\ k \in Nat /\ 1 <= k /\ k <= Len(s)
      /\ \A j \in 0 .. Len(s) : At(s, j) \in On /\ At(s, j) \in Places
      /\ \A j \in 1 .. Len(s) : s[j] \in queued
      /\ \A d \in queued : \E j \in 1 .. Len(s) : s[j] = d
      /\ \A i, j \in 0 .. Len(s) : At(s, i) = At(s, j) => i = j
  BY PlacesOfSequence
<1>3. /\ t \in Seq(Elems) /\ Len(t) = Len(s) - 1 /\ DOMAIN t = 1 .. Len(t)
      /\ \A j \in 1 .. Len(t) : t[j] = IF j < k THEN s[j] ELSE s[j + 1]
  BY <1>1, <1>2, RemoveAtValues, SMTT(30)
<1>4. \A j \in 0 .. Len(s) : first[At(s, j)] = IF j = Len(s) THEN Nil ELSE s[j + 1]
  BY DEF Spells
<1>5. /\ first'[At(s, k - 1)] = IF k = Len(s) THEN Nil ELSE s[k + 1]
      /\ \A j \in 0 .. Len(s) : j # k - 1 => first'[At(s, j)] = first[At(s, j)]
  <2>1. k - 1 \in 0 .. Len(s) /\ k \in 0 .. Len(s) /\ At(s, k) = s[k]
    BY <1>2 DEF At
  <2>2. first \in [Places -> Elems \cup {Nil}] /\ At(s, k - 1) \in Places
    BY <1>2, <2>1, Facts
  <2>3. first[s[k]] = IF k = Len(s) THEN Nil ELSE s[k + 1]
    BY <1>4, <2>1
  <2>4. \A j \in 0 .. Len(s) : j # k - 1 => At(s, j) # At(s, k - 1) /\ At(s, j) \in Places
    BY <1>2, <2>1
  <2>. QED  BY <2>2, <2>3, <2>4
<1> DEFINE ix == [m \in 1 .. Len(t) |-> IF m < k THEN m ELSE m + 1]
<1>6. \A m \in 1 .. Len(t) : ix[m] \in 1 .. Len(s) /\ ix[m] # k /\ t[m] = s[ix[m]]
  BY <1>2, <1>3
<1>7. \A m, n \in 1 .. Len(t) : ix[m] = ix[n] => m = n
  BY <1>2, <1>3
<1>8. \A j \in 1 .. Len(s) : j # k => \E m \in 1 .. Len(t) : ix[m] = j
  <2>1. SUFFICES ASSUME NEW j \in 1 .. Len(s), j # k  PROVE \E m \in 1 .. Len(t) : ix[m] = j
    OBVIOUS
  <2>2. CASE j < k
    <3>1. j \in 1 .. Len(t) /\ ix[j] = j
      BY <1>2, <1>3, <2>2
    <3> HIDE DEF ix
    <3>. QED  BY <3>1
  <2>3. CASE ~(j < k)
    <3>1. j - 1 \in 1 .. Len(t) /\ ix[j - 1] = j
      BY <1>2, <1>3, <2>1, <2>3
    <3> HIDE DEF ix
    <3>. QED  BY <3>1
  <2>. QED  BY <2>2, <2>3
<1> HIDE DEF ix
<1>9. \A m, n \in 1 .. Len(s) : s[m] = s[n] => m = n
  BY DEF Spells, Distinct
<1>10. Distinct(t)
  BY <1>6, <1>7, <1>9 DEF Distinct
<1>11. Range(t) = queued'
  <2>1. \A m \in 1 .. Len(t) : t[m] \in queued \ {s[k]}
    BY <1>2, <1>6, <1>9
  <2>2. ASSUME NEW d \in queued \ {s[k]}  PROVE \E m \in 1 .. Len(t) : t[m] = d
    <3>1. PICK j \in 1 .. Len(s) : s[j] = d
      BY <1>2
    <3>2. PICK m \in 1 .. Len(t) : ix[m] = j
      BY <1>8, <3>1
    <3>. QED  BY <1>6, <3>1, <3>2
  <2>. QED  BY <1>3, <2>1, <2>2 DEF Range
<1>12. ASSUME NEW j \in 0 .. Len(t)
       PROVE  first'[At(t, j)] = IF j = Len(t) THEN Nil ELSE t[j + 1]
  <2>1. j \in Nat /\ j <= Len(s) - 1
    BY <1>2, <1>3
  <2>2. CASE j < k - 1
    <3>1. /\ j \in 0 .. Len(s) /\ j # k - 1 /\ j # Len(s) /\ j # Len(t) /\ j + 1 \in 1 .. Len(t)
          /\ j + 1 < k /\ (j # 0 => j \in 1 .. Len(t) /\ j < k)
      BY <1>2, <1>3, <2>1, <2>2
    <3>2. At(t, j) = At(s, j) /\ t[j + 1] = s[j + 1]
      BY <1>3, <3>1 DEF At
    <3>. QED  BY <1>4, <1>5, <3>1, <3>2
  <2>3. CASE j = k - 1
    <3>1. (j # 0 => j \in 1 .. Len(t) /\ j < k) /\ (j = Len(t) <=> k = Len(s))
      BY <1>2, <1>3, <2>1, <2>3
    <3>2. At(t, j) = At(s, k - 1)
      BY <1>3, <2>3, <3>1 DEF At
    <3>3. j # Len(t) => t[j + 1] = s[k + 1]
      <4>1. SUFFICES ASSUME j # Len(t)  PROVE t[j + 1] = s[k + 1]
        OBVIOUS
      <4>2. j + 1 \in 1 .. Len(t) /\ ~(j + 1 < k) /\ (j + 1) + 1 = k + 1
        BY <1>2, <1>3, <2>1, <2>3, <4>1
      <4>. QED  BY <1>3, <4>2
    <3>. QED  BY <1>5, <3>1, <3>2, <3>3
  <2>4. CASE j > k - 1
    <3>1. /\ j # 0 /\ j \in 1 .. Len(t) /\ ~(j < k) /\ j + 1 \in 0 .. Len(s) /\ j + 1 # 0
          /\ j + 1 # k - 1 /\ (j = Len(t) <=> j + 1 = Len(s))
      BY <1>2, <1>3, <2>1, <2>4
    <3>2. At(t, j) = At(s, j + 1)
      BY <1>3, <3>1 DEF At
    <3>3. j # Len(t) => t[j + 1] = s[(j + 1) + 1]
      <4>1. SUFFICES ASSUME j # Len(t)  PROVE t[j + 1] = s[(j + 1) + 1]
        OBVIOUS
      <4>2. j + 1 \in 1 .. Len(t) /\ ~(j + 1 < k)
        <5>1. Len(t) \in Nat
          BY <1>2, <1>3
        <5>2. ~(j + 1 < k)
          BY <1>2, <2>1, <2>4
        <5>. QED  BY <2>1, <4>1, <5>1, <5>2
      <4>. QED  BY <1>3, <4>2
    <3>. QED  BY <1>4, <1>5, <3>1, <3>2, <3>3
  <2>. QED  BY <1>2, <2>1, <2>2, <2>3, <2>4
<1>. QED  BY <1>1, <1>3, <1>10, <1>11, <1>12 DEF Spells

\* Another element takes the place of the k-th.
LEMMA SpellReplace ==
    ASSUME QueueInv, NEW s, Spells(s, first, queued), NEW k \in 1 .. Len(s),
           NEW by \in Elems, by \notin queued, queued' = (queued \ {s[k]}) \cup {by},
           first' = [first EXCEPT ![by] = first[s[k]], ![At(s, k - 1)] = by]
    PROVE  Spells(ReplaceAt(s, k, by), first', queued')
<1>1. PICK t : t = ReplaceAt(s, k, by)
  OBVIOUS
<1>2. /\ Len(s) \in Nat /\ s \in Seq(Elems) /\ k \in Nat /\ 1 <= k /\ k <= Len(s)
      /\ \A j \in 0 .. Len(s) : At(s, j) \in On /\ At(s, j) \in Places
      /\ \A j \in 1 .. Len(s) : s[j] \in queued
      /\ \A d \in queued : \E j \in 1 .. Len(s) : s[j] = d
      /\ \A i, j \in 0 .. Len(s) : At(s, i) = At(s, j) => i = j
  BY PlacesOfSequence
<1>3. /\ t \in Seq(Elems) /\ Len(t) = Len(s) /\ DOMAIN t = 1 .. Len(t)
      /\ \A j \in 1 .. Len(t) : t[j] = IF j = k THEN by ELSE s[j]
  <2>1. t = [s EXCEPT ![k] = by]
    BY <1>1 DEF ReplaceAt
  <2>. QED  BY <1>2, <2>1
<1>4. by \notin On /\ by \in Places
  BY AnchorAssumption DEF On, Places
<1>5. \A j \in 0 .. Len(s) : first[At(s, j)] = IF j = Len(s) THEN Nil ELSE s[j + 1]
  BY DEF Spells
<1>6. \A m, n \in 1 .. Len(s) : s[m] = s[n] => m = n
  BY DEF Spells, Distinct
<1>7. /\ first'[by] = IF k = Len(s) THEN Nil ELSE s[k + 1]
      /\ first'[At(s, k - 1)] = by
      /\ \A j \in 0 .. Len(s) : j # k - 1 => first'[At(s, j)] = first[At(s, j)]
  <2>1. k - 1 \in 0 .. Len(s) /\ k \in 0 .. Len(s) /\ At(s, k) = s[k]
    BY <1>2 DEF At
  <2>2. first \in [Places -> Elems \cup {Nil}] /\ At(s, k - 1) \in Places /\ At(s, k - 1) # by
    BY <1>2, <1>4, <2>1, Facts
  <2>3. first[s[k]] = IF k = Len(s) THEN Nil ELSE s[k + 1]
    BY <1>5, <2>1
  <2>4. \A j \in 0 .. Len(s) :
          j # k - 1 => At(s, j) # At(s, k - 1) /\ At(s, j) \in Places /\ At(s, j) # by
    BY <1>2, <1>4, <2>1
  <2>. QED  BY <1>4, <2>2, <2>3, <2>4
<1>8. Distinct(t)
  <2>1. SUFFICES ASSUME NEW i \in 1 .. Len(t), NEW j \in 1 .. Len(t), t[i] = t[j]  PROVE i = j
    BY DEF Distinct
  <2>. QED  BY <1>2, <1>3, <1>6, <2>1
<1>9. Range(t) = queued'
  <2>1. \A j \in 1 .. Len(t) : t[j] \in queued'
    BY <1>2, <1>3, <1>6
  <2>2. ASSUME NEW d \in queued'  PROVE \E j \in 1 .. Len(t) : t[j] = d
    <3>1. CASE d = by
      BY <1>2, <1>3, <3>1
    <3>2. CASE d # by
      <4>1. PICK j \in 1 .. Len(s) : s[j] = d
        BY <1>2, <3>2
      <4>. QED  BY <1>2, <1>3, <3>2, <4>1
    <3>. QED  BY <3>1, <3>2
  <2>. QED  BY <1>3, <2>1, <2>2 DEF Range
<1>10. ASSUME NEW j \in 0 .. Len(t)
       PROVE  first'[At(t, j)] = IF j = Len(t) THEN Nil ELSE t[j + 1]
  <2>1. j \in 0 .. Len(s) /\ j \in Nat /\ (j # 0 => j \in 1 .. Len(t))
        /\ (j # Len(t) => j + 1 \in 1 .. Len(t))
    BY <1>2, <1>3
  <2>2. CASE j = k
    <3>1. At(t, j) = by /\ (j # Len(t) => t[j + 1] = s[j + 1])
      BY <1>2, <1>3, <2>1, <2>2 DEF At
    <3>. QED  BY <1>3, <1>7, <2>2, <3>1
  <2>3. CASE j # k
    <3>1. At(t, j) = At(s, j)
      BY <1>3, <2>1, <2>3 DEF At
    <3>2. CASE j = k - 1
      <4>1. j # Len(t) /\ t[j + 1] = by
        BY <1>2, <1>3, <2>1, <3>2
      <4>. QED  BY <1>7, <3>1, <3>2, <4>1
    <3>3. CASE j # k - 1
      <4>1. j # Len(t) => t[j + 1] = s[j + 1]
        BY <1>2, <1>3, <2>1, <3>3
      <4>. QED  BY <1>3, <1>5, <1>7, <2>1, <3>1, <3>3, <4>1
    <3>. QED  BY <3>2, <3>3
  <2>. QED  BY <2>2, <2>3
<1>. QED  BY <1>1, <1>3, <1>8, <1>9, <1>10 DEF Spells

(* What each macro does to the sequence that spells the links, and where.   *)
LEMMA MacroSpells ==
    ASSUME QueueInv, NEW s, Spells(s, first, queued), NEW e \in Elems
    PROVE  /\ TAILQ_INSERT_HEAD(e) => Spells(InsertAt(s, 1, e), first', queued')
           /\ TAILQ_INSERT_TAIL(e) => Spells(InsertAt(s, Len(s) + 1, e), first', queued')
           /\ TAILQ_REMOVE(e) =>
                \E k \in 1 .. Len(s) : s[k] = e /\ Spells(RemoveAt(s, k), first', queued')
           /\ \A f \in Elems :
                /\ TAILQ_INSERT_AFTER(f, e) =>
                     \E k \in 1 .. Len(s) :
                        s[k] = f /\ Spells(InsertAt(s, k + 1, e), first', queued')
                /\ TAILQ_INSERT_BEFORE(f, e) =>
                     \E k \in 1 .. Len(s) :
                        s[k] = f /\ Spells(InsertAt(s, k, e), first', queued')
                /\ TAILQ_REPLACE(f, e) =>
                     \E k \in 1 .. Len(s) :
                        s[k] = f /\ Spells(ReplaceAt(s, k, e), first', queued')
<1>0. /\ Len(s) \in Nat /\ 0 \in 0 .. Len(s) /\ Len(s) \in 0 .. Len(s) /\ At(s, 0) = Anchor
      /\ \A k \in 1 .. Len(s) : k \in 0 .. Len(s) /\ k - 1 \in 0 .. Len(s) /\ At(s, k) = s[k]
                                /\ last[s[k]] = At(s, k - 1) /\ (k - 1) + 1 = k /\ k - 1 # Len(s)
      /\ last[Anchor] = At(s, Len(s))
      /\ \A d \in queued : \E k \in 1 .. Len(s) : s[k] = d
      /\ \A k \in 0 .. Len(s) : first[At(s, k)] = IF k = Len(s) THEN Nil ELSE s[k + 1]
  BY PlacesOfSequence DEF At, Spells
<1>2. ASSUME TAILQ_INSERT_HEAD(e)  PROVE Spells(InsertAt(s, 1, e), first', queued')
  <2>1. Join(e) /\ first' = [first EXCEPT ![e] = first[At(s, 0)], ![At(s, 0)] = e]
    BY <1>0, <1>2 DEF TAILQ_INSERT_HEAD
  <2>2. Spells(InsertAt(s, 0 + 1, e), first', queued')
    BY <1>0, <2>1, SpellJoin
  <2>. QED  BY <2>2
<1>3. ASSUME TAILQ_INSERT_TAIL(e)  PROVE Spells(InsertAt(s, Len(s) + 1, e), first', queued')
  <2>1. first[At(s, Len(s))] = Nil
    BY <1>0
  <2>2. Join(e) /\ first' = [first EXCEPT ![e] = first[At(s, Len(s))], ![At(s, Len(s))] = e]
    BY <1>0, <1>3, <2>1 DEF TAILQ_INSERT_TAIL
  <2>. QED  BY <1>0, <2>2, SpellJoin
<1>4. ASSUME TAILQ_REMOVE(e)
      PROVE  \E k \in 1 .. Len(s) : s[k] = e /\ Spells(RemoveAt(s, k), first', queued')
  <2>1. PICK k \in 1 .. Len(s) : s[k] = e
    BY <1>0, <1>4 DEF TAILQ_REMOVE, Leave
  <2>2. queued' = queued \ {s[k]} /\ first' = [first EXCEPT ![At(s, k - 1)] = first[s[k]]]
    BY <1>0, <1>4, <2>1 DEF TAILQ_REMOVE, Leave
  <2>3. Spells(RemoveAt(s, k), first', queued')
    BY <2>2, SpellLeave
  <2>. QED  BY <2>1, <2>3
<1>5. ASSUME NEW f \in Elems, TAILQ_INSERT_AFTER(f, e)
      PROVE  \E k \in 1 .. Len(s) : s[k] = f /\ Spells(InsertAt(s, k + 1, e), first', queued')
  <2>1. PICK k \in 1 .. Len(s) : s[k] = f
    BY <1>0, <1>5 DEF TAILQ_INSERT_AFTER
  <2>2. Join(e) /\ first' = [first EXCEPT ![e] = first[At(s, k)], ![At(s, k)] = e] /\ k \in 0 .. Len(s)
    BY <1>0, <1>5, <2>1 DEF TAILQ_INSERT_AFTER
  <2>3. Spells(InsertAt(s, k + 1, e), first', queued')
    BY <2>2, SpellJoin
  <2>. QED  BY <2>1, <2>3
<1>6. ASSUME NEW f \in Elems, TAILQ_INSERT_BEFORE(f, e)
      PROVE  \E k \in 1 .. Len(s) : s[k] = f /\ Spells(InsertAt(s, k, e), first', queued')
  <2>1. PICK k \in 1 .. Len(s) : s[k] = f
    BY <1>0, <1>6 DEF TAILQ_INSERT_BEFORE
  <2>2. PICK i \in 0 .. Len(s) : i = k - 1
    BY <1>0
  <2>3. last[f] = At(s, i) /\ first[At(s, i)] = f /\ i + 1 = k
    BY <1>0, <2>1, <2>2
  <2>4. Join(e) /\ first' = [first EXCEPT ![e] = first[At(s, i)], ![At(s, i)] = e]
    BY <1>6, <2>3 DEF TAILQ_INSERT_BEFORE
  <2>5. Spells(InsertAt(s, i + 1, e), first', queued')
    BY <2>4, SpellJoin
  <2>. QED  BY <2>1, <2>3, <2>5
<1>7. ASSUME NEW f \in Elems, TAILQ_REPLACE(f, e)
      PROVE  \E k \in 1 .. Len(s) : s[k] = f /\ Spells(ReplaceAt(s, k, e), first', queued')
  <2>1. PICK k \in 1 .. Len(s) : s[k] = f
    BY <1>0, <1>7 DEF TAILQ_REPLACE
  <2>2. /\ e \notin queued /\ queued' = (queued \ {s[k]}) \cup {e}
        /\ first' = [first EXCEPT ![e] = first[s[k]], ![At(s, k - 1)] = e]
    BY <1>0, <1>7, <2>1 DEF TAILQ_REPLACE
  <2>3. Spells(ReplaceAt(s, k, e), first', queued')
    BY <2>2, SpellReplace
  <2>. QED  BY <2>1, <2>3
<1>. QED  BY <1>2, <1>3, <1>4, <1>5, <1>6, <1>7

LEMMA EditStep ==
    ASSUME QueueInv, NEW s, Spells(s, first, queued), Next
    PROVE  \E t : Spells(t, first', queued')
<1>1. PICK e \in Elems :
        \/ TAILQ_INSERT_HEAD(e)
        \/ TAILQ_INSERT_TAIL(e)
        \/ TAILQ_REMOVE(e)
        \/ \E f \in Elems :
             \/ TAILQ_INSERT_AFTER(f, e)
             \/ TAILQ_INSERT_BEFORE(f, e)
             \/ TAILQ_REPLACE(f, e)
  BY DEF Next
<1>. QED  BY <1>1, MacroSpells

-----------------------------------------------------------------------------
(* The walks.  What TAILQ_FOREACH visits is the sequence that spells the    *)
(* links, and what TAILQ_FOREACH_REVERSE visits is its reverse.             *)

\* Initial segments of a sequence.
LEMMA Segments ==
    ASSUME NEW X, NEW s \in Seq(X)
    PROVE  /\ Len(s) \in Nat /\ SubSeq(s, 1, 0) = <<>> /\ SubSeq(s, 1, Len(s)) = s
           /\ \A k \in 0 .. Len(s) : SubSeq(s, 1, k) \in Seq(X) /\ Len(SubSeq(s, 1, k)) = k
           /\ \A k \in 1 .. Len(s) : SubSeq(s, 1, k) # <<>> /\ Last(SubSeq(s, 1, k)) = s[k]
           /\ \A k \in 0 .. Len(s) - 1 :
                SubSeq(s, 1, k + 1) = Append(SubSeq(s, 1, k), s[k + 1])
<1>1. Len(s) \in Nat
  OBVIOUS
<1>2. SubSeq(s, 1, 0) = <<>>
  OBVIOUS
<1>3. SubSeq(s, 1, Len(s)) = s
  OBVIOUS
<1>4. ASSUME NEW k \in 0 .. Len(s)
      PROVE  SubSeq(s, 1, k) \in Seq(X) /\ Len(SubSeq(s, 1, k)) = k
  OBVIOUS
<1>5. ASSUME NEW k \in 1 .. Len(s)
      PROVE  SubSeq(s, 1, k) # <<>> /\ Last(SubSeq(s, 1, k)) = s[k]
  <2>1. Len(SubSeq(s, 1, k)) = k /\ SubSeq(s, 1, k)[k] = s[k] /\ k # 0 /\ Len(<<>>) = 0
    OBVIOUS
  <2>. QED  BY <2>1 DEF Last
<1>6. ASSUME NEW k \in 0 .. Len(s) - 1
      PROVE  SubSeq(s, 1, k + 1) = Append(SubSeq(s, 1, k), s[k + 1])
  OBVIOUS
<1>. QED  BY <1>1, <1>2, <1>3, <1>4, <1>5, <1>6

(* g[n] is what a walk has visited after n steps when nx gives the element  *)
(* to visit next, or Nil, and nx leads along s.                             *)
Walks(g, nx) ==
    \A n \in Nat :
        g[n] = IF n = 0 THEN <<>>
               ELSE IF Len(g[n - 1]) < n - 1 \/ nx[g[n - 1]] = Nil THEN g[n - 1]
               ELSE Append(g[n - 1], nx[g[n - 1]])

LeadsAlong(nx, s) ==
    \A k \in 0 .. Len(s) : nx[SubSeq(s, 1, k)] = IF k = Len(s) THEN Nil ELSE s[k + 1]

LEMMA WalkExists ==
    ASSUME NEW nx \in [Seq(Elems) -> Elems \cup {Nil}]
    PROVE  \E g \in [Nat -> Seq(Elems)] : Walks(g, nx)
<1> DEFINE B == [n \in Nat |-> <<>>]
           N == [n \in Nat |-> n - 1]
           mu == [n \in Nat |-> n]
           E == [x \in Nat \X Seq(Elems) |->
                   IF Len(x[2]) < x[1] - 1 \/ nx[x[2]] = Nil THEN x[2]
                   ELSE Append(x[2], nx[x[2]])]
           D == Nat
           R == Seq(Elems)
           base == {0}
<1>1. \A n \in D : mu[n] \in Nat
  OBVIOUS
<1>2. \A n \in D : n \in base => B[n] \in R
  OBVIOUS
<1>3. \A n \in D : n \notin base => N[n] \in D /\ mu[N[n]] < mu[n]
  OBVIOUS
<1>4. \A n \in D, r \in R : E[<<n, r>>] = IF Len(r) < n - 1 \/ nx[r] = Nil THEN r
                                         ELSE Append(r, nx[r])
  OBVIOUS
<1>5. ASSUME NEW n \in D, NEW r \in R  PROVE E[<<n, r>>] \in R
  <2>1. nx[r] # Nil => Append(r, nx[r]) \in R
    OBVIOUS
  <2> HIDE DEF E, R
  <2>. QED  BY <1>4, <2>1
<1>6. D = Nat /\ R = Seq(Elems) /\ base = {0} /\ N = [n \in Nat |-> n - 1] /\ B = [n \in Nat |-> <<>>]
  OBVIOUS
<1> HIDE DEF B, N, mu, E, D, R, base
<1>7. PICK g \in [D -> R] : Solves(g, D, base, B, N, E)
  BY <1>1, <1>2, <1>3, <1>5, RecursionExists
<1>8. ASSUME NEW n \in Nat
      PROVE  g[n] = IF n = 0 THEN <<>>
                    ELSE IF Len(g[n - 1]) < n - 1 \/ nx[g[n - 1]] = Nil THEN g[n - 1]
                    ELSE Append(g[n - 1], nx[g[n - 1]])
  <2>1. g[n] = IF n \in base THEN B[n] ELSE E[<<n, g[N[n]]>>]
    BY <1>6, <1>7 DEF Solves
  <2>2. CASE n = 0
    BY <1>6, <2>1, <2>2
  <2>3. CASE n # 0
    <3>1. N[n] = n - 1 /\ n - 1 \in D /\ g[n - 1] \in R /\ n \in D /\ n \notin base
      BY <1>6, <1>7, <2>3
    <3>2. E[<<n, g[n - 1]>>] = IF Len(g[n - 1]) < n - 1 \/ nx[g[n - 1]] = Nil THEN g[n - 1]
                               ELSE Append(g[n - 1], nx[g[n - 1]])
      BY <1>4, <3>1
    <3>. QED  BY <2>1, <2>3, <3>1, <3>2
  <2>. QED  BY <2>2, <2>3
<1>. QED  BY <1>6, <1>7, <1>8 DEF Walks

\* The walk visits s, and ends.
LEMMA WalkVisits ==
    ASSUME NEW nx, NEW s \in Seq(Elems), NEW go, Walks(go, nx), LeadsAlong(nx, s),
           NEW m \in Nat, m >= Len(s)
    PROVE  go[m] = s
<1> DEFINE T == {n \in Nat : go[n] = SubSeq(s, 1, IF n <= Len(s) THEN n ELSE Len(s))}
<1>0. /\ Len(s) \in Nat /\ SubSeq(s, 1, 0) = <<>> /\ SubSeq(s, 1, Len(s)) = s
      /\ \A k \in 0 .. Len(s) : SubSeq(s, 1, k) \in Seq(Elems) /\ Len(SubSeq(s, 1, k)) = k
      /\ \A k \in 0 .. Len(s) - 1 : SubSeq(s, 1, k + 1) = Append(SubSeq(s, 1, k), s[k + 1])
  BY Segments
<1>a. Len(s) \in Nat
  OBVIOUS
<1>1. 0 \in T
  <2>1. 0 <= Len(s) /\ go[0] = <<>>
    BY <1>a DEF Walks
  <2>. QED  BY <1>0, <2>1
<1>2. ASSUME NEW n \in Nat, n \in T  PROVE n + 1 \in T
  <2>0. n + 1 \in Nat /\ n + 1 # 0 /\ (n + 1) - 1 = n
    OBVIOUS
  <2>1. go[n + 1] = IF Len(go[n]) < n \/ nx[go[n]] = Nil THEN go[n] ELSE Append(go[n], nx[go[n]])
    BY <2>0 DEF Walks
  <2>2. CASE n < Len(s)
    <3>1. n \in 0 .. Len(s) /\ n # Len(s) /\ n \in 0 .. Len(s) - 1 /\ n + 1 <= Len(s) /\ n <= Len(s)
      BY ONLY n \in Nat, <1>a, <2>2
    <3>2. go[n] = SubSeq(s, 1, n)
      BY <1>2, <3>1
    <3>3. Len(go[n]) = n /\ nx[go[n]] = s[n + 1] /\ s[n + 1] # Nil
      <4>1. n + 1 \in 1 .. Len(s)
        BY ONLY n \in Nat, <1>a, <3>1
      <4>2. s[n + 1] \in Elems
        BY <4>1
      <4>. QED  BY <1>0, <3>1, <3>2, <4>2, NilAssumption DEF LeadsAlong
    <3>4. go[n + 1] = Append(go[n], s[n + 1])
      BY <2>1, <3>3
    <3>. QED  BY <1>0, <2>0, <3>1, <3>2, <3>4
  <2>3. CASE ~(n < Len(s))
    <3>0. ~(n + 1 <= Len(s)) /\ Len(s) \in 0 .. Len(s) /\ (n <= Len(s) => n = Len(s))
      BY ONLY n \in Nat, <1>a, <2>3
    <3>1. go[n] = SubSeq(s, 1, Len(s)) /\ ~(n + 1 <= Len(s)) /\ Len(s) \in 0 .. Len(s)
      BY <1>2, <3>0
    <3>2. nx[go[n]] = Nil
      BY <3>1 DEF LeadsAlong
    <3>3. go[n + 1] = go[n]
      BY <2>1, <3>2
    <3>. QED  BY <2>0, <3>1, <3>3
  <2>. QED  BY <2>2, <2>3
<1> HIDE DEF T
<1>3. m \in T
  BY <1>1, <1>2, SetInduction
<1>. QED  BY <1>0, <1>3 DEF T

\* A queue is no longer than there are elements.
LEMMA SpellLength ==
    ASSUME NEW s, NEW q, s \in Seq(Elems), Distinct(s), Range(s) = q
    PROVE  /\ Len(s) = Cardinality(q) /\ Cardinality(Elems) + 1 \in Nat
           /\ Cardinality(Elems) + 1 >= Len(s)
<1>1. Len(s) \in Nat /\ DOMAIN s = 1 .. Len(s) /\ s \in [1 .. Len(s) -> Elems]
  OBVIOUS
<1>2. IsFiniteSet(1 .. Len(s)) /\ Cardinality(1 .. Len(s)) = Len(s)
  <2>1. PICK n \in Nat : n = Len(s)
    BY <1>1
  <2>2. IsFiniteSet(1 .. n) /\ Cardinality(1 .. n) = n
    BY ONLY n \in Nat, FS_Interval
  <2>. QED  BY ONLY <2>1, <2>2
<1>3. s \in [1 .. Len(s) -> q]
  BY <1>1 DEF Range
<1>4. s \in Bijection(1 .. Len(s), q)
  <2>1. \A a, b \in 1 .. Len(s) : s[a] = s[b] => a = b
    BY DEF Distinct
  <2>2. \A d \in q : \E a \in 1 .. Len(s) : s[a] = d
    BY <1>1 DEF Range
  <2>. QED  BY <1>3, <2>1, <2>2 DEF Bijection, Injection, Surjection, IsInjective
<1>5. ExistsBijection(1 .. Len(s), q)
  BY <1>4 DEF ExistsBijection
<1>6. Cardinality(q) = Len(s)
  BY <1>2, <1>5, FS_Bijection
<1>7. q \subseteq Elems
  BY <1>1 DEF Range
<1>8. Cardinality(q) <= Cardinality(Elems) /\ Cardinality(Elems) \in Nat
  BY <1>7, ElemsAssumption, FS_Subset, FS_CardinalityType
<1>. QED  BY <1>1, <1>6, <1>8

\* ForEach on the links fst.
Forward(fst) ==
    LET go[n \in Nat] ==
          IF n = 0 THEN <<>>
          ELSE LET done == go[n - 1]
                   e == IF done = <<>> THEN fst[Anchor] ELSE fst[Last(done)]
               IN  IF Len(done) < n - 1 \/ e = Nil THEN done ELSE Append(done, e)
    IN  go[Cardinality(Elems) + 1]

LEMMA LastMember ==
    ASSUME NEW X, NEW d \in Seq(X), d # <<>>
    PROVE  Last(d) \in X
BY DEF Last

LEMMA ForwardSpells ==
    ASSUME NEW fst \in [Places -> Elems \cup {Nil}], NEW s, NEW q, Spells(s, fst, q)
    PROVE  Forward(fst) = s
<1> DEFINE Step(d) == IF d = <<>> THEN fst[Anchor] ELSE fst[Last(d)]
           nx == [d \in Seq(Elems) |-> Step(d)]
           Eqn(g) == g = [n \in Nat |->
                            IF n = 0 THEN <<>>
                            ELSE LET done == g[n - 1]
                                     e == IF done = <<>> THEN fst[Anchor] ELSE fst[Last(done)]
                                 IN  IF Len(done) < n - 1 \/ e = Nil THEN done ELSE Append(done, e)]
           go == CHOOSE g : Eqn(g)
<1>1. ASSUME NEW d \in Seq(Elems)  PROVE Step(d) \in Elems \cup {Nil}
  <2>1. Anchor \in Places /\ Elems \subseteq Places
    BY DEF Places
  <2>2. d # <<>> => Last(d) \in Elems
    BY LastMember
  <2>. QED  BY <2>1, <2>2
<1> HIDE DEF Step
<1>2. nx \in [Seq(Elems) -> Elems \cup {Nil}] /\ \A d \in Seq(Elems) : nx[d] = Step(d)
  BY <1>1
<1> HIDE DEF nx
<1>3. PICK h \in [Nat -> Seq(Elems)] : Walks(h, nx)
  BY <1>2, WalkExists
<1>4. ASSUME NEW n \in Nat
      PROVE  h[n] = IF n = 0 THEN <<>>
                    ELSE IF Len(h[n - 1]) < n - 1 \/ Step(h[n - 1]) = Nil THEN h[n - 1]
                    ELSE Append(h[n - 1], Step(h[n - 1]))
  <2>1. CASE n = 0
    BY <1>3, <2>1 DEF Walks
  <2>2. CASE n # 0
    <3>1. n - 1 \in Nat
      BY <2>2
    <3>2. nx[h[n - 1]] = Step(h[n - 1])
      BY <1>2, <1>3, <3>1
    <3>. QED  BY <1>3, <2>2, <3>2 DEF Walks
  <2>. QED  BY <2>1, <2>2
<1>5. Eqn(h)
  <2>1. h = [n \in Nat |-> h[n]]
    BY <1>3
  <2>. QED  BY <1>4, <2>1 DEF Step
<1>6. Eqn(go)
  <2> HIDE DEF Eqn
  <2>. QED  BY <1>5, Zenon
<1>7. Forward(fst) = go[Cardinality(Elems) + 1]
  BY DEF Forward
<1> HIDE DEF go
<1>8. \A n \in Nat :
        go[n] = IF n = 0 THEN <<>>
                ELSE IF Len(go[n - 1]) < n - 1 \/ Step(go[n - 1]) = Nil THEN go[n - 1]
                ELSE Append(go[n - 1], Step(go[n - 1]))
  BY <1>6 DEF Step
<1>9. h = go
  <2> DEFINE T == {n \in Nat : h[n] = go[n]}
  <2>1. 0 \in T
    BY <1>4, <1>8
  <2>2. ASSUME NEW n \in Nat, n \in T  PROVE n + 1 \in T
    <3>1. n + 1 \in Nat /\ n + 1 # 0 /\ (n + 1) - 1 = n /\ h[n] = go[n]
      BY <2>2
    <3>. QED  BY <1>4, <1>8, <3>1
  <2> HIDE DEF T
  <2>3. Nat \subseteq T
    BY <2>1, <2>2, SetInduction
  <2>4. \A n \in Nat : h[n] = go[n]
    BY <2>3 DEF T
  <2>5. go = [n \in Nat |-> go[n]] /\ h = [n \in Nat |-> h[n]]
    BY <1>3, <1>6
  <2>. QED  BY <2>4, <2>5
<1> HIDE DEF Eqn
<1>10. s \in Seq(Elems) /\ \A k \in 0 .. Len(s) : fst[At(s, k)] = IF k = Len(s) THEN Nil ELSE s[k + 1]
  BY DEF Spells
<1>11. ASSUME NEW k \in 0 .. Len(s)
       PROVE  nx[SubSeq(s, 1, k)] = IF k = Len(s) THEN Nil ELSE s[k + 1]
  <2>1. nx[SubSeq(s, 1, k)] = Step(SubSeq(s, 1, k))
    BY <1>2, <1>10, Segments
  <2>2. Step(SubSeq(s, 1, k)) = fst[At(s, k)]
    <3>1. CASE k = 0
      BY <1>10, <3>1, Segments DEF Step, At
    <3>2. CASE k # 0
      <4>1. k \in 1 .. Len(s)
        BY <1>10, <3>2
      <4>2. SubSeq(s, 1, k) # <<>> /\ Last(SubSeq(s, 1, k)) = s[k]
        BY <1>10, <4>1, Segments
      <4>. QED  BY <3>2, <4>2 DEF Step, At
    <3>. QED  BY <3>1, <3>2
  <2>. QED  BY <1>10, <2>1, <2>2
<1>l. LeadsAlong(nx, s)
  BY <1>11 DEF LeadsAlong
<1>12. Cardinality(Elems) + 1 \in Nat /\ Cardinality(Elems) + 1 >= Len(s)
  BY SpellLength DEF Spells
<1>13. h[Cardinality(Elems) + 1] = s
  <2>1. PICK m \in Nat : m = Cardinality(Elems) + 1
    BY <1>12
  <2>2. m >= Len(s)
    BY <1>12, <2>1
  <2>3. h[m] = s
    BY ONLY <1>3, <1>10, <1>l, <2>2, WalkVisits
  <2>. QED  BY <2>1, <2>3
<1>. QED  BY <1>7, <1>9, <1>13

LEMMA BackwardSpells ==
    ASSUME QueueInv, NEW s, Spells(s, first, queued)
    PROVE  ForEachReverse = Reverse(s)
<1> DEFINE Step(d) == IF d = <<>> THEN TAILQ_LAST ELSE BackFrom(Last(d))
           nx == [d \in Seq(Elems) |-> Step(d)]
           Eqn(g) == g = [n \in Nat |->
                            IF n = 0 THEN <<>>
                            ELSE LET done == g[n - 1]
                                     e == IF done = <<>> THEN TAILQ_LAST ELSE BackFrom(Last(done))
                                 IN  IF Len(done) < n - 1 \/ e = Nil THEN done ELSE Append(done, e)]
           go == CHOOSE g : Eqn(g)
<1>0. /\ first \in [Places -> Elems \cup {Nil}] /\ last \in [Places -> Places]
      /\ Anchor \in Places /\ Elems \subseteq Places
  BY Facts DEF Places
<1>1. ASSUME NEW d \in Seq(Elems)  PROVE Step(d) \in Elems \cup {Nil}
  <2>1. TAILQ_LAST \in Elems \cup {Nil}
    BY <1>0 DEF TAILQ_LAST
  <2>2. d # <<>> => Last(d) \in Places
    BY <1>0, LastMember
  <2>3. d # <<>> => BackFrom(Last(d)) \in Elems \cup {Nil}
    BY <1>0, <2>2 DEF BackFrom, TAILQ_PREV
  <2>. QED  BY <2>1, <2>3
<1> HIDE DEF Step
<1>2. nx \in [Seq(Elems) -> Elems \cup {Nil}] /\ \A d \in Seq(Elems) : nx[d] = Step(d)
  BY <1>1
<1> HIDE DEF nx
<1>3. PICK h \in [Nat -> Seq(Elems)] : Walks(h, nx)
  <2>1. PICK n2 \in [Seq(Elems) -> Elems \cup {Nil}] : n2 = nx
    BY <1>2
  <2>. QED  BY <2>1, WalkExists
<1>4. ASSUME NEW n \in Nat
      PROVE  h[n] = IF n = 0 THEN <<>>
                    ELSE IF Len(h[n - 1]) < n - 1 \/ Step(h[n - 1]) = Nil THEN h[n - 1]
                    ELSE Append(h[n - 1], Step(h[n - 1]))
  <2>1. CASE n = 0
    BY <1>3, <2>1 DEF Walks
  <2>2. CASE n # 0
    <3>1. n - 1 \in Nat
      BY <2>2
    <3>2. nx[h[n - 1]] = Step(h[n - 1])
      BY <1>2, <1>3, <3>1
    <3>. QED  BY <1>3, <2>2, <3>2 DEF Walks
  <2>. QED  BY <2>1, <2>2
<1>5. Eqn(h)
  <2>1. h = [n \in Nat |-> h[n]]
    BY <1>3
  <2>. QED  BY <1>4, <2>1 DEF Step
<1>6. Eqn(go)
  <2> HIDE DEF Eqn
  <2>. QED  BY <1>5, Zenon
<1>7. ForEachReverse = go[Cardinality(Elems) + 1]
  BY DEF ForEachReverse
<1> HIDE DEF go
<1>8. \A n \in Nat :
        go[n] = IF n = 0 THEN <<>>
                ELSE IF Len(go[n - 1]) < n - 1 \/ Step(go[n - 1]) = Nil THEN go[n - 1]
                ELSE Append(go[n - 1], Step(go[n - 1]))
  BY <1>6 DEF Step
<1>9. h = go
  <2> DEFINE T == {n \in Nat : h[n] = go[n]}
  <2>1. 0 \in T
    BY <1>4, <1>8
  <2>2. ASSUME NEW n \in Nat, n \in T  PROVE n + 1 \in T
    <3>1. n + 1 \in Nat /\ n + 1 # 0 /\ (n + 1) - 1 = n /\ h[n] = go[n]
      BY <2>2
    <3>. QED  BY <1>4, <1>8, <3>1
  <2> HIDE DEF T
  <2>3. Nat \subseteq T
    BY <2>1, <2>2, SetInduction
  <2>4. \A n \in Nat : h[n] = go[n]
    BY <2>3 DEF T
  <2>5. go = [n \in Nat |-> go[n]] /\ h = [n \in Nat |-> h[n]]
    BY <1>3, <1>6
  <2>. QED  BY <2>4, <2>5
<1> HIDE DEF Eqn
<1>10. /\ s \in Seq(Elems) /\ Len(s) \in Nat
       /\ \A k \in 1 .. Len(s) : s[k] \in queued /\ s[k] \in Elems /\ last[s[k]] = At(s, k - 1)
       /\ last[Anchor] = At(s, Len(s))
  BY PlacesOfSequence
<1>11. PICK r : r = Reverse(s)
  OBVIOUS
<1>12. /\ r \in Seq(Elems) /\ Len(r) = Len(s)
       /\ \A k \in 1 .. Len(s) : r[k] = s[(Len(s) - k) + 1]
  <2>1. r = [k \in 1 .. Len(s) |-> s[(Len(s) - k) + 1]]
    BY <1>11 DEF Reverse
  <2>a. Len(s) \in Nat
    BY <1>10
  <2>2. \A k \in 1 .. Len(s) : (Len(s) - k) + 1 \in 1 .. Len(s)
    BY ONLY <2>a
  <2>. QED  BY <1>10, <2>1, <2>2
<1>13. ASSUME NEW k \in 0 .. Len(r)
       PROVE  nx[SubSeq(r, 1, k)] = IF k = Len(r) THEN Nil ELSE r[k + 1]
  <2>1. nx[SubSeq(r, 1, k)] = Step(SubSeq(r, 1, k))
    BY <1>2, <1>12, Segments
  <2>2. k \in Nat /\ k <= Len(s) /\ Len(s) - k \in 0 .. Len(s) /\ Len(s) - k \in Nat
    BY <1>10, <1>12
  <2>3. Step(SubSeq(r, 1, k)) = LET p == At(s, Len(s) - k) IN IF p = Anchor THEN Nil ELSE p
    <3>0. /\ \A e \in queued : TAILQ_PREV(e) = IF last[e] = Anchor THEN Nil ELSE last[e]
          /\ TAILQ_LAST = IF last[Anchor] = Anchor THEN Nil ELSE last[Anchor]
      BY BackLinks
    <3>1. CASE k = 0
      <4>1. SubSeq(r, 1, k) = <<>> /\ Len(s) - k = Len(s)
        BY <1>10, <1>12, <3>1, Segments
      <4>. QED  BY <1>10, <3>0, <4>1 DEF Step
    <3>2. CASE k # 0
      <4>1. k \in 1 .. Len(s) /\ (Len(s) - k) + 1 \in 1 .. Len(s) /\ ((Len(s) - k) + 1) - 1 = Len(s) - k
        <5>1. Len(s) \in Nat
          BY <1>10
        <5>. QED  BY ONLY <2>2, <3>2, <5>1
      <4>2. SubSeq(r, 1, k) # <<>> /\ Last(SubSeq(r, 1, k)) = r[k]
        BY <1>12, <4>1, Segments
      <4>3. r[k] \in queued /\ last[r[k]] = At(s, Len(s) - k)
        BY <1>10, <1>12, <4>1
      <4>. QED  BY <3>0, <4>2, <4>3 DEF Step, BackFrom
    <3>. QED  BY <3>1, <3>2
  <2>4. CASE k = Len(r)
    <3>1. Len(s) - k = 0
      BY <1>10, <1>12, <2>4
    <3>. QED  BY <2>1, <2>3, <2>4, <3>1 DEF At
  <2>5. CASE k # Len(r)
    <3>1. /\ Len(s) - k \in 1 .. Len(s) /\ Len(s) - k # 0 /\ k + 1 \in 1 .. Len(s)
          /\ (Len(s) - (k + 1)) + 1 = Len(s) - k
      BY <1>10, <1>12, <2>2, <2>5
    <3>2. r[k + 1] = At(s, Len(s) - k) /\ At(s, Len(s) - k) # Anchor
      BY <1>10, <1>12, <3>1, AnchorAssumption DEF At
    <3>. QED  BY <2>1, <2>3, <2>5, <3>2
  <2>. QED  BY <2>4, <2>5
<1>14. LeadsAlong(nx, r)
  BY <1>13 DEF LeadsAlong
<1>15. Cardinality(Elems) + 1 \in Nat /\ Cardinality(Elems) + 1 >= Len(r)
  BY <1>12, SpellLength DEF Spells
<1>16. h[Cardinality(Elems) + 1] = r
  <2>1. PICK m \in Nat : m = Cardinality(Elems) + 1
    BY <1>15
  <2>2. PICK n2 : n2 = nx
    OBVIOUS
  <2>3. m >= Len(r) /\ Walks(h, n2) /\ LeadsAlong(n2, r) /\ r \in Seq(Elems)
    BY <1>3, <1>12, <1>14, <1>15, <2>1, <2>2
  <2>4. h[m] = r
    BY ONLY <2>3, WalkVisits
  <2>. QED  BY <2>1, <2>4
<1>. QED  BY <1>7, <1>9, <1>11, <1>16

-----------------------------------------------------------------------------

OrderInv == IInv /\ Spelled

LEMMA OrderInit == Init => OrderInv
<1> SUFFICES ASSUME Init  PROVE Spelled
  BY EmptyQueue DEF OrderInv
<1>1. Spells(<<>>, first, queued)
  BY DEF Init, Spells, Distinct, Range, At, Places
<1>. QED  BY <1>1 DEF Spelled

LEMMA OrderStep == OrderInv /\ [Next]_vars => OrderInv'
<1> SUFFICES ASSUME OrderInv, [Next]_vars  PROVE OrderInv'
  OBVIOUS
<1>1. IInv'
  BY InvStep DEF OrderInv
<1>2. PICK s : Spells(s, first, queued)
  BY DEF OrderInv, Spelled
<1>3. Spelled'
  <2>1. CASE Next
    BY <1>2, <2>1, EditStep DEF OrderInv, IInv, Spelled
  <2>2. CASE UNCHANGED vars
    BY <1>2, <2>2 DEF vars, Spelled
  <2>. QED  BY <2>1, <2>2
<1>. QED  BY <1>1, <1>3 DEF OrderInv

(* Whatever macros are used, in whatever order, TAILQ_FOREACH visits every  *)
(* queued element once, and TAILQ_FOREACH_REVERSE visits them in the        *)
(* reverse order.                                                           *)
THEOREM QueueReverse == Spec => []ReverseAgrees
<1>1. OrderInv => ReverseAgrees
  <2> SUFFICES ASSUME OrderInv  PROVE ReverseAgrees
    OBVIOUS
  <2>1. PICK s : Spells(s, first, queued)
    BY DEF OrderInv, Spelled
  <2>2. QueueInv /\ first \in [Places -> Elems \cup {Nil}]
    BY DEF OrderInv, IInv, QueueInv, TypeOK
  <2>3. ForEach = Forward(first)
    BY DEF ForEach, Forward
  <2>4. ForEach = s
    BY <2>1, <2>2, <2>3, ForwardSpells
  <2>5. ForEachReverse = Reverse(s)
    BY <2>1, <2>2, BackwardSpells
  <2>6. Range(s) = queued /\ Len(s) = Cardinality(queued)
    BY <2>1, SpellLength DEF Spells
  <2>. QED  BY <2>4, <2>5, <2>6 DEF ReverseAgrees
<1>. QED  BY <1>1, OrderInit, OrderStep, PTL DEF Spec

\* What OneChange says of a step that changes the order from s to t.
AsNamed(s, t) ==
    \A e \in Elems :
      /\ TAILQ_INSERT_HEAD(e) => t = InsertAt(s, 1, e)
      /\ TAILQ_INSERT_TAIL(e) => t = InsertAt(s, Len(s) + 1, e)
      /\ TAILQ_REMOVE(e) => \E k \in 1 .. Len(s) : s[k] = e /\ t = RemoveAt(s, k)
      /\ \A f \in Elems :
           /\ TAILQ_INSERT_AFTER(f, e) =>
                \E k \in 1 .. Len(s) : s[k] = f /\ t = InsertAt(s, k + 1, e)
           /\ TAILQ_INSERT_BEFORE(f, e) =>
                \E k \in 1 .. Len(s) : s[k] = f /\ t = InsertAt(s, k, e)
           /\ TAILQ_REPLACE(f, e) =>
                \E k \in 1 .. Len(s) : s[k] = f /\ t = ReplaceAt(s, k, e)

(* Every macro changes the order at the place its name says: first, last,   *)
(* after or before the element named, or in its place; the order of the     *)
(* others stays as it was.                                                  *)
THEOREM QueueOneChange == Spec => OneChange
<1>1. OrderInv /\ [Next]_vars => [AsNamed(ForEach, ForEach')]_vars
  <2> SUFFICES ASSUME OrderInv, Next
               PROVE  AsNamed(ForEach, ForEach')
    OBVIOUS
  <2>1. PICK s : Spells(s, first, queued)
    BY DEF OrderInv, Spelled
  <2>2. QueueInv /\ first \in [Places -> Elems \cup {Nil}]
    BY DEF OrderInv, IInv, QueueInv, TypeOK
  <2>4. first' \in [Places -> Elems \cup {Nil}]
    BY OrderStep DEF OrderInv, IInv, QueueInv, TypeOK
  <2>5. ForEach = Forward(first) /\ ForEach' = Forward(first')
    BY DEF ForEach, Forward
  <2>6. ForEach = s
    BY <2>1, <2>2, <2>5, ForwardSpells
  <2>7. \A t : Spells(t, first', queued') => ForEach' = t
    BY <2>4, <2>5, ForwardSpells
  <2>8. ASSUME NEW e \in Elems
        PROVE  /\ TAILQ_INSERT_HEAD(e) => ForEach' = InsertAt(s, 1, e)
               /\ TAILQ_INSERT_TAIL(e) => ForEach' = InsertAt(s, Len(s) + 1, e)
               /\ TAILQ_REMOVE(e) =>
                    \E k \in 1 .. Len(s) : s[k] = e /\ ForEach' = RemoveAt(s, k)
               /\ \A f \in Elems :
                    /\ TAILQ_INSERT_AFTER(f, e) =>
                         \E k \in 1 .. Len(s) : s[k] = f /\ ForEach' = InsertAt(s, k + 1, e)
                    /\ TAILQ_INSERT_BEFORE(f, e) =>
                         \E k \in 1 .. Len(s) : s[k] = f /\ ForEach' = InsertAt(s, k, e)
                    /\ TAILQ_REPLACE(f, e) =>
                         \E k \in 1 .. Len(s) : s[k] = f /\ ForEach' = ReplaceAt(s, k, e)
    BY <2>1, <2>2, <2>7, MacroSpells
  <2>. QED  BY <2>6, <2>8 DEF AsNamed
<1>. QED  BY <1>1, OrderInit, OrderStep, PTL DEF Spec, OneChange, AsNamed

-----------------------------------------------------------------------------
(* The allocator.  Its properties speak of sums and of the number of bytes  *)
(* covered, which no single step can be read off from.  The invariant says  *)
(* where every piece of memory is: the blocks and the objects on the lists  *)
(* lie apart from each other and from the pool, below what malloc has given *)
(* out, every address is in one place, the pool has whole objects only, and *)
(* what malloc gave the pool is worth what the pieces add up to (Good and   *)
(* KeptMemory).  Each way in which a piece moves keeps that; a call is two  *)
(* or three such moves.                                                     *)
(*                                                                          *)
(* First, sizes.                                                            *)

Multiple(x) == \E k \in Nat : x = k * ALIGN

\* The size of the objects of list l.
SizeOf(l) == (l + 1) * ALIGN

LEMMA ListsAre ==
    /\ ALIGN \in Nat /\ ALIGN > 0 /\ MAX_BYTES \in Nat /\ Requests \subseteq Nat \ {0}
    /\ Lists \subseteq Nat /\ IsFiniteSet(Lists)
    /\ MAX_BYTES \div ALIGN \in Nat /\ MAX_BYTES = ALIGN * (MAX_BYTES \div ALIGN)
<1>1. ALIGN \in Nat /\ ALIGN > 0 /\ MAX_BYTES \in Nat /\ Requests \subseteq Nat \ {0}
  BY SizesAssumption DEF Requests
<1>2. MAX_BYTES % ALIGN = 0
  BY SizesAssumption
<1>3. MAX_BYTES \div ALIGN \in Nat /\ MAX_BYTES = ALIGN * (MAX_BYTES \div ALIGN)
  BY <1>1, <1>2
<1>4. IsFiniteSet(Lists)
  BY <1>3, FS_Interval DEF Lists
<1>. QED  BY <1>1, <1>3, <1>4 DEF Lists

\* Products, without the names that make them hard.
LEMMA ProductGrows ==
    ASSUME NEW a \in Nat, NEW i \in Nat, NEW j \in Nat, i <= j
    PROVE  i * a <= j * a /\ i * a \in Nat
OBVIOUS

LEMMA ProductOrder ==
    ASSUME NEW a \in Nat, a > 0, NEW i \in Nat, NEW j \in Nat, i * a < j * a
    PROVE  i < j
<1>1. CASE j <= i
  BY <1>1, ProductGrows
<1>. QED  BY <1>1

LEMMA Distributes ==
    ASSUME NEW a \in Int, NEW i \in Int, NEW j \in Int
    PROVE  (i + j) * a = i * a + j * a /\ (i - j) * a = i * a - j * a
OBVIOUS

LEMMA SizeIs ==
    ASSUME NEW l \in Lists
    PROVE  /\ l \in Nat /\ SizeOf(l) \in Nat /\ SizeOf(l) >= ALIGN /\ SizeOf(l) > 0
           /\ SizeOf(l) <= MAX_BYTES /\ Multiple(SizeOf(l))
<1>1. l \in Nat /\ l + 1 <= MAX_BYTES \div ALIGN
  BY ListsAre DEF Lists
<1>2. SizeOf(l) \in Nat /\ SizeOf(l) >= ALIGN /\ SizeOf(l) > 0
  BY <1>1, ListsAre DEF SizeOf
<1>3. SizeOf(l) <= MAX_BYTES
  <2>1. PICK q \in Nat : q = MAX_BYTES \div ALIGN
    BY ListsAre
  <2>2. (l + 1) * ALIGN <= q * ALIGN
    BY <1>1, <2>1, ListsAre, ProductGrows
  <2>. QED  BY <2>1, <2>2, ListsAre DEF SizeOf
<1>4. Multiple(SizeOf(l))
  BY <1>1 DEF SizeOf, Multiple
<1>. QED  BY <1>1, <1>2, <1>3, <1>4

\* Rounding up: n is in the list of the first size that is large enough.
LEMMA RoundedIs ==
    ASSUME NEW n \in Nat \ {0}
    PROVE  /\ _S_freelist_index(n) \in Nat /\ _S_round_up(n) = SizeOf(_S_freelist_index(n))
           /\ _S_round_up(n) \in Nat /\ _S_round_up(n) >= n /\ _S_round_up(n) - ALIGN < n
           /\ Multiple(_S_round_up(n))
<1>1. ALIGN \in Nat /\ ALIGN > 0
  BY ListsAre
<1>2. PICK k \in Int : k = (n + ALIGN - 1) \div ALIGN
  BY <1>1
<1>3. PICK r \in Int : r = (n + ALIGN - 1) % ALIGN
  BY <1>1
<1>4. n + ALIGN - 1 = ALIGN * k + r /\ 0 <= r /\ r < ALIGN
  BY <1>1, <1>2, <1>3
<1>5. k >= 1
  <2>1. CASE k <= 0
    <3>1. ALIGN * k <= 0
      BY <1>1, <2>1
    <3>. QED  BY <1>1, <1>4, <3>1
  <2>. QED  BY <2>1
<1>6. k * ALIGN = ALIGN * k /\ k \in Nat /\ k * ALIGN \in Nat
  BY <1>1, <1>5
<1>7. _S_round_up(n) = k * ALIGN /\ _S_freelist_index(n) = k - 1
  BY <1>2 DEF _S_round_up, _S_freelist_index
<1>8. k * ALIGN >= n /\ k * ALIGN - ALIGN < n
  BY <1>1, <1>4, <1>6
<1>9. (k - 1) + 1 = k /\ k - 1 \in Nat
  BY <1>5
<1>. QED  BY <1>6, <1>7, <1>8, <1>9 DEF SizeOf, Multiple

\* A multiple is the size of its list, and smaller ones have smaller lists.
LEMMA IndexIs ==
    ASSUME NEW x \in Nat \ {0}, Multiple(x)
    PROVE  SizeOf(_S_freelist_index(x)) = x /\ _S_round_up(x) = x
<1>1. PICK j \in Nat : x = j * ALIGN
  BY DEF Multiple
<1>2. PICK i \in Nat : i = _S_freelist_index(x)
  BY RoundedIs
<1>3. _S_round_up(x) = (i + 1) * ALIGN /\ (i + 1) * ALIGN >= x /\ (i + 1) * ALIGN - ALIGN < x
  BY <1>2, RoundedIs DEF SizeOf
<1>4. (i + 1) * ALIGN - ALIGN = i * ALIGN /\ ALIGN \in Nat /\ ALIGN > 0
  BY ListsAre, Distributes
<1>5. i < j
  BY <1>1, <1>3, <1>4, ProductOrder
<1>6. ~(j < i + 1)
  BY <1>5
<1>7. CASE i + 1 < j
  <2>1. (i + 2) * ALIGN <= j * ALIGN
    BY <1>4, <1>7, ProductGrows
  <2>2. (i + 2) * ALIGN = (i + 1) * ALIGN + ALIGN /\ (i + 1) * ALIGN \in Nat
    BY <1>4
  <2>. QED  BY <1>1, <1>3, <1>4, <2>1, <2>2
<1>8. CASE i + 1 = j
  BY <1>1, <1>2, <1>3, <1>8 DEF SizeOf
<1>. QED  BY <1>6, <1>7, <1>8

LEMMA SmallerIndex ==
    ASSUME NEW i \in Nat, NEW j \in Nat, SizeOf(i) < SizeOf(j)
    PROVE  i < j
<1>1. (i + 1) * ALIGN < (j + 1) * ALIGN
  BY DEF SizeOf
<1>2. i + 1 < j + 1
  BY <1>1, ListsAre, ProductOrder
<1>. QED  BY <1>2

LEMMA LargerSize ==
    ASSUME NEW i \in Nat, NEW j \in Nat, i <= j
    PROVE  SizeOf(i) <= SizeOf(j)
BY ListsAre, ProductGrows DEF SizeOf

\* What fits into the largest size has a list; what does not rounds up above it.
LEMMA SmallHasList ==
    ASSUME NEW n \in Nat \ {0}
    PROVE  /\ _S_freelist_index(n) \in Lists <=> n <= MAX_BYTES
           /\ n <= MAX_BYTES <=> _S_round_up(n) <= MAX_BYTES
<1>1. PICK i \in Nat : i = _S_freelist_index(n)
  BY RoundedIs
<1>2. PICK q \in Nat : q = MAX_BYTES \div ALIGN
  BY ListsAre
<1>3. ALIGN \in Nat /\ ALIGN > 0 /\ MAX_BYTES = q * ALIGN /\ Lists = 0 .. q - 1
  BY <1>2, ListsAre DEF Lists
<1>4. _S_round_up(n) = (i + 1) * ALIGN /\ (i + 1) * ALIGN >= n /\ (i + 1) * ALIGN - ALIGN < n
  BY <1>1, RoundedIs DEF SizeOf
<1>5. (i + 1) * ALIGN - ALIGN = i * ALIGN
  BY <1>3
<1>6. ASSUME n <= MAX_BYTES  PROVE i < q
  BY <1>3, <1>4, <1>5, <1>6, ProductOrder
<1>7. ASSUME i < q  PROVE (i + 1) * ALIGN <= MAX_BYTES
  BY <1>3, <1>7, ProductGrows
<1>. QED  BY <1>1, <1>3, <1>4, <1>6, <1>7

LEMMA MultipleSum ==
    ASSUME NEW x, NEW y, Multiple(x), Multiple(y)
    PROVE  x \in Nat /\ y \in Nat /\ Multiple(x + y) /\ (y <= x => Multiple(x - y))
<1>1. PICK i \in Nat : x = i * ALIGN
  BY DEF Multiple
<1>2. PICK j \in Nat : y = j * ALIGN
  BY DEF Multiple
<1>3. ALIGN \in Nat /\ ALIGN > 0
  BY ListsAre
<1>4. x \in Nat /\ y \in Nat /\ x + y = (i + j) * ALIGN /\ x - y = (i - j) * ALIGN
  BY <1>1, <1>2, <1>3, Distributes
<1>5. ASSUME y <= x  PROVE i - j \in Nat
  <2>1. CASE i < j
    <3>1. (i + 1) * ALIGN <= j * ALIGN /\ (i + 1) * ALIGN = i * ALIGN + ALIGN
      BY <1>3, <2>1, ProductGrows
    <3>. QED  BY <1>1, <1>2, <1>3, <1>4, <1>5, <3>1
  <2>. QED  BY <2>1
<1>6. i + j \in Nat
  OBVIOUS
<1>. QED  BY <1>4, <1>5, <1>6 DEF Multiple

LEMMA MultipleTimes ==
    ASSUME NEW x, Multiple(x), NEW n \in Nat
    PROVE  Multiple(x * n)
<1>1. PICK i \in Nat : x = i * ALIGN
  BY DEF Multiple
<1>2. x * n = (i * n) * ALIGN /\ i * n \in Nat
  BY <1>1, ListsAre
<1>. QED  BY <1>2 DEF Multiple

-----------------------------------------------------------------------------
(* Lists as stacks.                                                         *)

LEMMA PushedIs ==
    ASSUME NEW S, NEW q \in Seq(S), NEW a \in S
    PROVE  /\ <<a>> \o q \in Seq(S) /\ Len(<<a>> \o q) = Len(q) + 1
           /\ Range(<<a>> \o q) = Range(q) \cup {a}
           /\ Distinct(q) /\ a \notin Range(q) => Distinct(<<a>> \o q)
<1>1. <<a>> \in Seq(S) /\ Len(<<a>>) = 1 /\ <<a>>[1] = a
  OBVIOUS
<1>2. PICK p \in Seq(S) : p = <<a>>
  BY <1>1
<1>3. PICK r \in Seq(S) : r = p \o q
  BY ConcatInSeq
<1>4. /\ Len(r) = Len(q) + 1 /\ Len(q) \in Nat /\ r[1] = a
      /\ \A k \in 1 .. Len(q) + 1 : k # 1 => r[k] = q[k - 1] /\ k - 1 \in 1 .. Len(q)
  BY <1>1, <1>2, <1>3
<1>5. Range(p) = {a}
  BY <1>1, <1>2 DEF Range
<1>6. Range(r) = Range(q) \cup {a}
  BY <1>3, <1>5, RangeConcat
<1>7. ASSUME Distinct(q), a \notin Range(q)  PROVE Distinct(r)
  <2>1. \A k \in 1 .. Len(q) : q[k] # a
    BY <1>7 DEF Range
  <2>2. SUFFICES ASSUME NEW j \in 1 .. Len(r), NEW k \in 1 .. Len(r), r[j] = r[k]  PROVE j = k
    BY DEF Distinct
  <2>3. CASE j = 1
    BY <1>4, <2>1, <2>2, <2>3
  <2>4. CASE k = 1
    BY <1>4, <2>1, <2>2, <2>4
  <2>5. CASE j # 1 /\ k # 1
    <3>1. /\ j - 1 \in 1 .. Len(q) /\ k - 1 \in 1 .. Len(q) /\ q[j - 1] = q[k - 1]
          /\ j \in Nat /\ k \in Nat
      BY <1>4, <2>2, <2>5
    <3>2. j - 1 = k - 1
      BY <1>7, <3>1 DEF Distinct
    <3>. QED  BY <3>1, <3>2
  <2>. QED  BY <2>3, <2>4, <2>5
<1>. QED  BY <1>2, <1>3, <1>4, <1>6, <1>7

LEMMA PoppedIs ==
    ASSUME NEW S, NEW q \in Seq(S), q # <<>>, Distinct(q)
    PROVE  /\ Tail(q) \in Seq(S) /\ Len(Tail(q)) = Len(q) - 1 /\ Head(q) \in Range(q) /\ Head(q) \in S
           /\ Range(Tail(q)) = Range(q) \ {Head(q)} /\ Distinct(Tail(q))
<1>1. /\ Tail(q) \in Seq(S) /\ Len(Tail(q)) = Len(q) - 1 /\ Head(q) = q[1] /\ Head(q) \in S
      /\ Len(q) \in Nat /\ Len(q) >= 1
  OBVIOUS
<1>2. Range(q) = Range(Tail(q)) \cup {Head(q)}
  BY RangeTail
<1>3. Distinct(Tail(q)) /\ Head(q) \notin Range(Tail(q))
  BY DistinctTail
<1>. QED  BY <1>1, <1>2, <1>3

-----------------------------------------------------------------------------
(* Pieces of memory: blocks that clients hold, and objects on the lists.    *)

Blocks    == [addr : Nat \ {0}, size : Requests]
FreeLists == [Lists -> Seq(Nat \ {0})]

Piece(f, L, a, n) ==
    \/ \E x \in L : x.addr = a /\ _S_round_up(x.size) = n
    \/ \E l \in Lists : a \in Range(f[l]) /\ n = SizeOf(l)

\* Every address is in one place.
Placed(f, L) ==
    /\ \A x, y \in L : x.addr = y.addr => x = y
    /\ \A x \in L : \A l \in Lists : x.addr \notin Range(f[l])
    /\ \A l, k \in Lists : l # k => Range(f[l]) \cap Range(f[k]) = {}
    /\ \A l \in Lists : Distinct(f[l])

Beside(a, n, c, m) == a + n <= c \/ c + m <= a

Apart(f, L) ==
    \A a, n, c, m \in Nat :
        Piece(f, L, a, n) /\ Piece(f, L, c, m) => a = c \/ Beside(a, n, c, m)
Inside(f, L, b) ==
    \A a, n \in Nat : Piece(f, L, a, n) => ALIGN <= a /\ a + n <= b
Clear(f, L, s, e) ==
    \A a, n \in Nat : Piece(f, L, a, n) => a + n <= s \/ e <= a

\* All of memory below b: pieces, and the pool from s to e.
Good(f, L, s, e, b) ==
    /\ f \in FreeLists /\ L \in SUBSET Blocks /\ IsFiniteSet(L)
    /\ s \in Nat /\ e \in Nat /\ b \in Nat /\ ALIGN <= b /\ Multiple(e - s)
    /\ Placed(f, L) /\ Apart(f, L) /\ Inside(f, L, b)
    /\ s = e \/ (ALIGN <= s /\ e <= b /\ Clear(f, L, s, e))

LEMMA PieceIs ==
    ASSUME NEW f \in FreeLists, NEW L \in SUBSET Blocks, NEW a, NEW n, Piece(f, L, a, n)
    PROVE  a \in Nat \ {0} /\ n \in Nat \ {0}
<1>1. CASE \E x \in L : x.addr = a /\ _S_round_up(x.size) = n
  <2>1. PICK x \in L : x.addr = a /\ _S_round_up(x.size) = n
    BY <1>1
  <2>2. x.addr \in Nat \ {0} /\ x.size \in Nat \ {0}
    BY ListsAre DEF Blocks
  <2>. QED  BY <2>1, <2>2, RoundedIs
<1>2. CASE \E l \in Lists : a \in Range(f[l]) /\ n = SizeOf(l)
  <2>1. PICK l \in Lists : a \in Range(f[l]) /\ n = SizeOf(l)
    BY <1>2
  <2>2. f[l] \in Seq(Nat \ {0})
    BY DEF FreeLists
  <2>3. Range(f[l]) \subseteq Nat \ {0}
    BY <2>2, RangeType
  <2>. QED  BY <2>1, <2>3, SizeIs
<1>. QED  BY <1>1, <1>2 DEF Piece

\* Pieces may go, become smaller and change places.
LEMMA GoodShrinks ==
    ASSUME NEW f, NEW L, NEW s, NEW e, NEW b, Good(f, L, s, e, b),
           NEW g \in FreeLists, NEW M \in SUBSET Blocks, IsFiniteSet(M), Placed(g, M),
           \A a, n \in Nat : Piece(g, M, a, n) => \E m \in Nat : n <= m /\ Piece(f, L, a, m)
    PROVE  Good(g, M, s, e, b)
<1>1. /\ f \in FreeLists /\ L \in SUBSET Blocks /\ s \in Nat /\ e \in Nat /\ b \in Nat
      /\ Apart(f, L) /\ Inside(f, L, b)
  BY DEF Good
<1>2. Apart(g, M)
  <2>1. SUFFICES ASSUME NEW a \in Nat, NEW n \in Nat, NEW c \in Nat, NEW m \in Nat,
                        Piece(g, M, a, n), Piece(g, M, c, m), a # c
                 PROVE  Beside(a, n, c, m)
    BY DEF Apart
  <2>2. PICK i \in Nat : n <= i /\ Piece(f, L, a, i)
    BY <2>1
  <2>3. PICK j \in Nat : m <= j /\ Piece(f, L, c, j)
    BY <2>1
  <2>4. Beside(a, i, c, j)
    BY <1>1, <2>1, <2>2, <2>3 DEF Apart
  <2>. QED  BY <2>2, <2>3, <2>4 DEF Beside
<1>3. Inside(g, M, b)
  <2>1. SUFFICES ASSUME NEW a \in Nat, NEW n \in Nat, Piece(g, M, a, n)
                 PROVE  ALIGN <= a /\ a + n <= b
    BY DEF Inside
  <2>2. PICK i \in Nat : n <= i /\ Piece(f, L, a, i)
    BY <2>1
  <2>3. ALIGN <= a /\ a + i <= b
    BY <1>1, <2>2 DEF Inside
  <2>. QED  BY <1>1, <2>2, <2>3
<1>4. Clear(f, L, s, e) => Clear(g, M, s, e)
  <2>1. SUFFICES ASSUME Clear(f, L, s, e), NEW a \in Nat, NEW n \in Nat, Piece(g, M, a, n)
                 PROVE  a + n <= s \/ e <= a
    BY DEF Clear
  <2>2. PICK i \in Nat : n <= i /\ Piece(f, L, a, i)
    BY <2>1
  <2>3. a + i <= s \/ e <= a
    BY <2>1, <2>2 DEF Clear
  <2>. QED  BY <1>1, <2>2, <2>3
<1>. QED  BY <1>1, <1>2, <1>3, <1>4 DEF Good

\* The new pieces of g and M are between u and v and do not overlap.
GainsIn(f, L, g, M, u, v) ==
    /\ \A a, n \in Nat : Piece(g, M, a, n) => Piece(f, L, a, n) \/ (u <= a /\ a + n <= v)
    /\ \A a, n, i, j \in Nat :
           Piece(g, M, a, n) /\ Piece(g, M, i, j) /\ u <= a /\ a + n <= v /\ u <= i /\ i + j <= v
               => a = i \/ Beside(a, n, i, j)

\* What is between t and d is nobody's, nor between u and v.
PoolAt(f, L, t, d, c, u, v) ==
    /\ Multiple(d - t)
    /\ t = d \/ (ALIGN <= t /\ d <= c /\ Clear(f, L, t, d) /\ (d <= u \/ v <= t))

\* Memory from u to v that is nobody's becomes pieces.
LEMMA GoodGains ==
    ASSUME NEW f, NEW L, NEW s, NEW e, NEW b, Good(f, L, s, e, b),
           NEW g \in FreeLists, NEW M \in SUBSET Blocks, IsFiniteSet(M), Placed(g, M),
           NEW t \in Nat, NEW d \in Nat, NEW c \in Nat, NEW u \in Nat, NEW v \in Nat,
           b <= c, ALIGN <= u, v <= c, Clear(f, L, u, v),
           PoolAt(f, L, t, d, c, u, v), GainsIn(f, L, g, M, u, v)
    PROVE  Good(g, M, t, d, c)
<1>1. /\ f \in FreeLists /\ L \in SUBSET Blocks /\ s \in Nat /\ e \in Nat /\ b \in Nat
      /\ Apart(f, L) /\ Inside(f, L, b) /\ ALIGN <= b /\ ALIGN \in Nat
  BY ListsAre DEF Good
<1>2. Apart(g, M)
  <2>1. SUFFICES ASSUME NEW a \in Nat, NEW n \in Nat, NEW i \in Nat, NEW j \in Nat,
                        Piece(g, M, a, n), Piece(g, M, i, j), a # i
                 PROVE  Beside(a, n, i, j)
    BY DEF Apart
  <2>2. CASE Piece(f, L, a, n) /\ Piece(f, L, i, j)
    BY <1>1, <2>1, <2>2 DEF Apart
  <2>3. CASE Piece(f, L, a, n) /\ u <= i /\ i + j <= v
    <3>1. a + n <= u \/ v <= a
      BY <2>3 DEF Clear
    <3>. QED  BY <2>3, <3>1 DEF Beside
  <2>4. CASE Piece(f, L, i, j) /\ u <= a /\ a + n <= v
    <3>1. i + j <= u \/ v <= i
      BY <2>4 DEF Clear
    <3>. QED  BY <2>4, <3>1 DEF Beside
  <2>5. CASE u <= a /\ a + n <= v /\ u <= i /\ i + j <= v
    BY <2>1, <2>5 DEF GainsIn
  <2>. QED  BY <2>1, <2>2, <2>3, <2>4, <2>5 DEF GainsIn
<1>3. Inside(g, M, c)
  <2>1. SUFFICES ASSUME NEW a \in Nat, NEW n \in Nat, Piece(g, M, a, n)
                 PROVE  ALIGN <= a /\ a + n <= c
    BY DEF Inside
  <2>2. CASE Piece(f, L, a, n)
    <3>1. ALIGN <= a /\ a + n <= b
      BY <1>1, <2>2 DEF Inside
    <3>. QED  BY <1>1, <3>1
  <2>3. CASE u <= a /\ a + n <= v
    BY <1>1, <2>3
  <2>. QED  BY <2>1, <2>2, <2>3 DEF GainsIn
<1>4. ASSUME Clear(f, L, t, d), d <= u \/ v <= t  PROVE Clear(g, M, t, d)
  <2>1. SUFFICES ASSUME NEW a \in Nat, NEW n \in Nat, Piece(g, M, a, n)
                 PROVE  a + n <= t \/ d <= a
    BY DEF Clear
  <2>2. CASE Piece(f, L, a, n)
    BY <1>4, <2>2 DEF Clear
  <2>3. CASE u <= a /\ a + n <= v
    BY <1>4, <2>3
  <2>. QED  BY <2>1, <2>2, <2>3 DEF GainsIn
<1>5. ALIGN <= c
  BY <1>1
<1>. QED  BY <1>1, <1>2, <1>3, <1>4, <1>5 DEF Good, PoolAt

\* The pool may be replaced by what is nobody's.
LEMMA GoodArea ==
    ASSUME NEW f, NEW L, NEW s, NEW e, NEW b, Good(f, L, s, e, b),
           NEW t \in Nat, NEW d \in Nat, NEW c \in Nat, b <= c, Multiple(d - t),
           t = d \/ (ALIGN <= t /\ d <= c /\ Clear(f, L, t, d))
    PROVE  Good(f, L, t, d, c)
<1>1. /\ f \in FreeLists /\ L \in SUBSET Blocks /\ b \in Nat
      /\ Inside(f, L, b) /\ ALIGN <= b /\ ALIGN \in Nat
  BY ListsAre DEF Good
<1>2. Inside(f, L, c) /\ ALIGN <= c
  BY <1>1 DEF Inside
<1>. QED  BY <1>1, <1>2 DEF Good

-----------------------------------------------------------------------------
(* How pieces move.                                                         *)

Block(a, n)   == [addr |-> a, size |-> n]
Shorter(f, l)   == [f EXCEPT ![l] = Tail(@)]
Longer(f, l, a) == [f EXCEPT ![l] = <<a>> \o @]
Refilled(f, l, q) == [f EXCEPT ![l] = q]

LEMMA PopLists ==
    ASSUME NEW f \in FreeLists, NEW l \in Lists, f[l] # <<>>, Distinct(f[l]),
           NEW g, g = Shorter(f, l), NEW h, h = Head(f[l])
    PROVE  /\ g \in FreeLists /\ h \in Range(f[l]) /\ h \in Nat \ {0}
           /\ Range(g[l]) = Range(f[l]) \ {h} /\ Distinct(g[l])
           /\ Len(g[l]) = Len(f[l]) - 1
           /\ \A k \in Lists : k # l => g[k] = f[k]
<1>1. f[l] \in Seq(Nat \ {0})
  BY DEF FreeLists
<1>2. /\ Tail(f[l]) \in Seq(Nat \ {0}) /\ Len(Tail(f[l])) = Len(f[l]) - 1
      /\ Head(f[l]) \in Range(f[l]) /\ Head(f[l]) \in Nat \ {0}
      /\ Range(Tail(f[l])) = Range(f[l]) \ {Head(f[l])} /\ Distinct(Tail(f[l]))
  BY <1>1, PoppedIs
<1>3. g[l] = Tail(f[l]) /\ g \in FreeLists /\ \A k \in Lists : k # l => g[k] = f[k]
  BY <1>2 DEF FreeLists, Shorter
<1>. QED  BY <1>2, <1>3

LEMMA PushLists ==
    ASSUME NEW f \in FreeLists, NEW l \in Lists, NEW a \in Nat \ {0},
           NEW g, g = Longer(f, l, a)
    PROVE  /\ g \in FreeLists /\ Range(g[l]) = Range(f[l]) \cup {a}
           /\ Distinct(f[l]) /\ a \notin Range(f[l]) => Distinct(g[l])
           /\ Len(g[l]) = Len(f[l]) + 1
           /\ \A k \in Lists : k # l => g[k] = f[k]
<1>1. f[l] \in Seq(Nat \ {0})
  BY DEF FreeLists
<1>2. PICK q : q = <<a>> \o f[l]
  OBVIOUS
<1>3. /\ q \in Seq(Nat \ {0}) /\ Len(q) = Len(f[l]) + 1 /\ Range(q) = Range(f[l]) \cup {a}
      /\ Distinct(f[l]) /\ a \notin Range(f[l]) => Distinct(q)
  <2>1. PICK V : V = Nat \ {0}
    OBVIOUS
  <2>2. PICK r \in Seq(V) : r = f[l]
    BY <1>1, <2>1
  <2>3. /\ <<a>> \o r \in Seq(V) /\ Len(<<a>> \o r) = Len(r) + 1
        /\ Range(<<a>> \o r) = Range(r) \cup {a}
        /\ Distinct(r) /\ a \notin Range(r) => Distinct(<<a>> \o r)
    <3>1. a \in V
      BY <2>1
    <3>. QED  BY ONLY <3>1, r \in Seq(V), PushedIs
  <2>. QED  BY <1>2, <2>1, <2>2, <2>3, Zenon
<1>4. g[l] = q /\ g \in FreeLists /\ \A k \in Lists : k # l => g[k] = f[k]
  BY <1>2, <1>3 DEF FreeLists, Longer
<1>. QED  BY <1>3, <1>4

LEMMA NewBlock ==
    ASSUME NEW a \in Nat \ {0}, NEW n \in Requests, NEW L \in SUBSET Blocks, IsFiniteSet(L),
           NEW y, y = Block(a, n)
    PROVE  y \in Blocks /\ y.addr = a /\ y.size = n /\ L \cup {y} \in SUBSET Blocks /\ IsFiniteSet(L \cup {y})
<1>1. y \in Blocks /\ y.addr = a /\ y.size = n
  BY DEF Blocks, Block
<1>2. IsFiniteSet(L \cup {y})
  BY FS_AddElement
<1>. QED  BY <1>1, <1>2

\* An object of list l becomes a block.
LEMMA PopGood ==
    ASSUME NEW f, NEW L, NEW s, NEW e, NEW b, Good(f, L, s, e, b),
           NEW n \in Requests, NEW l \in Lists, l = _S_freelist_index(n), f[l] # <<>>,
           NEW g, g = Shorter(f, l),
           NEW h, h = Head(f[l]), NEW y, y = Block(h, n)
    PROVE  Good(g, L \cup {y}, s, e, b) /\ y \notin L /\ h \in Nat \ {0}
<1>1. f \in FreeLists /\ L \in SUBSET Blocks /\ IsFiniteSet(L) /\ Placed(f, L)
  BY DEF Good
<1>3. /\ g \in FreeLists /\ h \in Range(f[l]) /\ h \in Nat \ {0}
      /\ Range(g[l]) = Range(f[l]) \ {h} /\ Distinct(g[l])
      /\ \A k \in Lists : k # l => g[k] = f[k]
  <2>1. Distinct(f[l])
    BY <1>1 DEF Placed
  <2>. QED  BY <1>1, <2>1, PopLists, SMTT(30)
<1>4. PICK M \in SUBSET Blocks : M = L \cup {y} /\ IsFiniteSet(M) /\ y.addr = h /\ y.size = n
  <2>2. /\ y.addr = h /\ y.size = n /\ L \cup {y} \in SUBSET Blocks
        /\ IsFiniteSet(L \cup {y})
    BY ONLY <1>1, <1>3, y = Block(h, n), n \in Requests, NewBlock
  <2>. QED  BY <2>2
<1>5. y \notin L
  BY <1>1, <1>3, <1>4 DEF Placed
<1>6. Placed(g, M)
  <2>1. \A x \in L : x.addr # h
    BY <1>1, <1>3 DEF Placed
  <2>2. \A x, z \in M : x.addr = z.addr => x = z
    BY <1>1, <1>4, <2>1 DEF Placed
  <2>3. \A k \in Lists : Range(g[k]) \subseteq Range(f[k]) /\ h \notin Range(g[k])
    BY <1>1, <1>3 DEF Placed
  <2>4. \A x \in M : \A k \in Lists : x.addr \notin Range(g[k])
    BY <1>1, <1>4, <2>3 DEF Placed
  <2>5. \A j, k \in Lists : j # k => Range(g[j]) \cap Range(g[k]) = {}
    <3>1. \A j, k \in Lists : j # k => Range(f[j]) \cap Range(f[k]) = {}
      BY <1>1 DEF Placed
    <3>. QED  BY <2>3, <3>1
  <2>6. \A k \in Lists : Distinct(g[k])
    BY <1>1, <1>3 DEF Placed
  <2>. QED  BY <2>2, <2>4, <2>5, <2>6 DEF Placed
<1>7. ASSUME NEW a \in Nat, NEW m \in Nat, Piece(g, M, a, m)  PROVE Piece(f, L, a, m)
  <2>1. CASE \E x \in M : x.addr = a /\ _S_round_up(x.size) = m
    <3>1. PICK x \in M : x.addr = a /\ _S_round_up(x.size) = m
      BY <2>1
    <3>2. CASE x = y
      <4>1. _S_round_up(n) = SizeOf(l)
        BY ListsAre, RoundedIs
      <4>. QED  BY <1>3, <1>4, <3>1, <3>2, <4>1 DEF Piece
    <3>3. CASE x # y
      BY <1>4, <3>1, <3>3 DEF Piece
    <3>. QED  BY <3>2, <3>3
  <2>2. CASE \E k \in Lists : a \in Range(g[k]) /\ m = SizeOf(k)
    BY <1>3, <2>2 DEF Piece
  <2>. QED  BY <1>7, <2>1, <2>2 DEF Piece
<1>8. \A a, m \in Nat : Piece(g, M, a, m) => \E i \in Nat : m <= i /\ Piece(f, L, a, i)
  BY <1>7
<1>9. Good(g, M, s, e, b)
  BY <1>3, <1>4, <1>6, <1>8, GoodShrinks
<1>. QED  BY <1>3, <1>4, <1>5, <1>9

\* An object of list l becomes the pool.
LEMMA TakeGood ==
    ASSUME NEW f, NEW L, NEW s, NEW e, NEW b, Good(f, L, s, e, b),
           NEW l \in Lists, f[l] # <<>>, NEW g, g = Shorter(f, l),
           NEW h, h = Head(f[l])
    PROVE  Good(g, L, h, h + SizeOf(l), b) /\ h \in Nat \ {0}
<1>1. /\ f \in FreeLists /\ L \in SUBSET Blocks /\ IsFiniteSet(L) /\ Placed(f, L)
      /\ Apart(f, L) /\ Inside(f, L, b) /\ b \in Nat
  BY DEF Good
<1>2. /\ g \in FreeLists /\ h \in Range(f[l]) /\ h \in Nat \ {0}
      /\ Range(g[l]) = Range(f[l]) \ {h} /\ Distinct(g[l])
      /\ \A k \in Lists : k # l => g[k] = f[k]
  <2>1. Distinct(f[l])
    BY <1>1 DEF Placed
  <2>. QED  BY <1>1, <2>1, PopLists, SMTT(30)
<1>3. \A k \in Lists : Range(g[k]) \subseteq Range(f[k]) /\ h \notin Range(g[k])
  BY <1>1, <1>2 DEF Placed
<1>4. Placed(g, L)
  <2>1. \A k \in Lists : Distinct(g[k])
    BY <1>1, <1>2 DEF Placed
  <2>2. \A j, k \in Lists : j # k => Range(g[j]) \cap Range(g[k]) = {}
    <3>1. \A j, k \in Lists : j # k => Range(f[j]) \cap Range(f[k]) = {}
      BY <1>1 DEF Placed
    <3>. QED  BY <1>3, <3>1
  <2>. QED  BY <1>1, <1>3, <2>1, <2>2 DEF Placed
<1>5. ASSUME NEW a \in Nat, NEW m \in Nat, Piece(g, L, a, m)  PROVE Piece(f, L, a, m) /\ a # h
  <2>1. CASE \E x \in L : x.addr = a /\ _S_round_up(x.size) = m
    BY <1>1, <1>2, <2>1 DEF Piece, Placed
  <2>2. CASE \E k \in Lists : a \in Range(g[k]) /\ m = SizeOf(k)
    BY <1>3, <2>2 DEF Piece
  <2>. QED  BY <1>5, <2>1, <2>2 DEF Piece
<1>6. \A a, m \in Nat : Piece(g, L, a, m) => \E i \in Nat : m <= i /\ Piece(f, L, a, i)
  BY <1>5
<1>7. Good(g, L, s, e, b)
  BY <1>1, <1>2, <1>4, <1>6, GoodShrinks
<1>8. PICK z \in Nat : z = SizeOf(l) /\ Multiple(z) /\ Piece(f, L, h, z)
  BY <1>2, SizeIs DEF Piece
<1>9. ALIGN <= h /\ h + z <= b
  BY <1>1, <1>2, <1>8 DEF Inside
<1>10. Clear(g, L, h, h + z)
  <2>1. SUFFICES ASSUME NEW a \in Nat, NEW m \in Nat, Piece(g, L, a, m)
                 PROVE  a + m <= h \/ h + z <= a
    BY DEF Clear
  <2>2. Beside(a, m, h, z)
    BY <1>1, <1>2, <1>5, <1>8, <2>1 DEF Apart
  <2>. QED  BY <2>2 DEF Beside
<1>11. h + z \in Nat /\ (h + z) - h = z
  BY <1>2, <1>8
<1>12. Good(g, L, h, h + z, b)
  BY <1>1, <1>2, <1>7, <1>8, <1>9, <1>10, <1>11, GoodArea
<1>. QED  BY <1>2, <1>8, <1>12

\* A block becomes an object of its list.
LEMMA PushGood ==
    ASSUME NEW f, NEW L, NEW s, NEW e, NEW b, Good(f, L, s, e, b),
           NEW x \in L, NEW l \in Lists, l = _S_freelist_index(x.size),
           NEW g, g = Longer(f, l, x.addr)
    PROVE  Good(g, L \ {x}, s, e, b)
<1>1. f \in FreeLists /\ L \in SUBSET Blocks /\ IsFiniteSet(L) /\ Placed(f, L)
  BY DEF Good
<1>2. PICK h \in Nat \ {0} : h = x.addr /\ x.size \in Requests
  BY <1>1 DEF Blocks
<1>3. h \notin Range(f[l]) /\ Distinct(f[l])
  BY <1>1, <1>2 DEF Placed
<1>4. /\ g \in FreeLists /\ Range(g[l]) = Range(f[l]) \cup {h} /\ Distinct(g[l])
      /\ \A k \in Lists : k # l => g[k] = f[k]
  <2>1. g = Longer(f, l, h)
    BY <1>2
  <2>. QED  BY <1>1, <1>3, <2>1, PushLists
<1>5. PICK M \in SUBSET Blocks : M = L \ {x} /\ IsFiniteSet(M)
  <2>1. L \ {x} \in SUBSET L /\ L \ {x} \in SUBSET Blocks
    BY <1>1
  <2>2. IsFiniteSet(L \ {x})
    BY <1>1, <2>1, FS_Subset
  <2>. QED  BY <2>1, <2>2
<1>6. Placed(g, M)
  <2>1. \A z \in M : z \in L /\ z.addr # h
    BY <1>1, <1>2, <1>5 DEF Placed
  <2>2. \A k \in Lists : k # l => h \notin Range(f[k])
    BY <1>1, <1>2 DEF Placed
  <2>3. \A z, w \in M : z.addr = w.addr => z = w
    BY <1>1, <2>1 DEF Placed
  <2>4. \A z \in M : \A k \in Lists : z.addr \notin Range(g[k])
    BY <1>1, <1>4, <2>1 DEF Placed
  <2>5. \A j, k \in Lists : j # k => Range(f[j]) \cap Range(f[k]) = {} /\ (h \notin Range(f[k]) \/ k = l)
    BY <1>1, <1>2 DEF Placed
  <2>6. ASSUME NEW j \in Lists, NEW k \in Lists, j # k  PROVE Range(g[j]) \cap Range(g[k]) = {}
    <3>1. Range(f[j]) \cap Range(f[k]) = {}
      BY <2>5, <2>6
    <3>2. CASE j = l
      <4>1. Range(g[j]) = Range(f[j]) \cup {h} /\ g[k] = f[k] /\ h \notin Range(f[k])
        BY <1>1, <1>2, <1>4, <2>6, <3>2 DEF Placed
      <4>. QED  BY <3>1, <4>1
    <3>3. CASE k = l
      <4>1. Range(g[k]) = Range(f[k]) \cup {h} /\ g[j] = f[j] /\ h \notin Range(f[j])
        BY <1>1, <1>2, <1>4, <2>6, <3>3 DEF Placed
      <4>. QED  BY <3>1, <4>1
    <3>4. CASE j # l /\ k # l
      BY <1>4, <3>1, <3>4
    <3>. QED  BY <3>2, <3>3, <3>4
  <2>7. \A k \in Lists : Distinct(g[k])
    BY <1>1, <1>4 DEF Placed
  <2>. QED  BY <2>3, <2>4, <2>6, <2>7 DEF Placed
<1>7. ASSUME NEW a \in Nat, NEW m \in Nat, Piece(g, M, a, m)  PROVE Piece(f, L, a, m)
  <2>1. CASE \E z \in M : z.addr = a /\ _S_round_up(z.size) = m
    BY <1>5, <2>1 DEF Piece
  <2>2. CASE \E k \in Lists : a \in Range(g[k]) /\ m = SizeOf(k)
    <3>1. PICK k \in Lists : a \in Range(g[k]) /\ m = SizeOf(k)
      BY <2>2
    <3>2. CASE k = l /\ a = h
      <4>1. _S_round_up(x.size) = SizeOf(l)
        BY <1>2, ListsAre, RoundedIs
      <4>. QED  BY <1>2, <3>1, <3>2, <4>1 DEF Piece
    <3>3. CASE ~(k = l /\ a = h)
      BY <1>4, <3>1, <3>3 DEF Piece
    <3>. QED  BY <3>2, <3>3
  <2>. QED  BY <1>7, <2>1, <2>2 DEF Piece
<1>8. \A a, m \in Nat : Piece(g, M, a, m) => \E i \in Nat : m <= i /\ Piece(f, L, a, i)
  BY <1>7
<1>9. Good(g, M, s, e, b)
  BY <1>4, <1>5, <1>6, <1>8, GoodShrinks
<1>. QED  BY <1>5, <1>9

\* A block goes back to malloc.
LEMMA DropGood ==
    ASSUME NEW f, NEW L, NEW s, NEW e, NEW b, Good(f, L, s, e, b), NEW M \in SUBSET L
    PROVE  Good(f, M, s, e, b)
<1>1. f \in FreeLists /\ L \in SUBSET Blocks /\ IsFiniteSet(L) /\ Placed(f, L)
  BY DEF Good
<1>2. M \in SUBSET Blocks /\ IsFiniteSet(M) /\ Placed(f, M)
  BY <1>1, FS_Subset DEF Placed
<1>3. \A a, m \in Nat : Piece(f, M, a, m) => Piece(f, L, a, m)
  BY DEF Piece
<1>4. \A a, m \in Nat : Piece(f, M, a, m) => \E i \in Nat : m <= i /\ Piece(f, L, a, i)
  BY <1>3
<1>. QED  BY <1>1, <1>2, <1>4, GoodShrinks

\* A block keeps its place with another size.
LEMMA ResizeGood ==
    ASSUME NEW f, NEW L, NEW s, NEW e, NEW b, Good(f, L, s, e, b),
           NEW x \in L, NEW n \in Requests, _S_round_up(n) <= _S_round_up(x.size),
           NEW y, y = Block(x.addr, n)
    PROVE  Good(f, (L \ {x}) \cup {y}, s, e, b) /\ y \notin L \ {x}
<1>1. f \in FreeLists /\ L \in SUBSET Blocks /\ IsFiniteSet(L) /\ Placed(f, L)
  BY DEF Good
<1>2. PICK h \in Nat \ {0} : h = x.addr /\ x.size \in Requests
  BY <1>1 DEF Blocks
<1>3. PICK K \in SUBSET Blocks : K = L \ {x} /\ IsFiniteSet(K)
  <2>1. L \ {x} \in SUBSET L /\ L \ {x} \in SUBSET Blocks
    BY <1>1
  <2>2. IsFiniteSet(L \ {x})
    BY <1>1, <2>1, FS_Subset
  <2>. QED  BY <2>1, <2>2
<1>4. PICK M \in SUBSET Blocks : M = K \cup {y} /\ IsFiniteSet(M) /\ y.addr = h /\ y.size = n
  <2>1. y = Block(h, n)
    BY <1>2
  <2>2. y \in Blocks /\ y.addr = h /\ y.size = n
    BY <2>1 DEF Block, Blocks
  <2>3. IsFiniteSet(K \cup {y})
    BY <1>3, FS_AddElement
  <2>. QED  BY <2>2, <2>3
<1>5. \A z \in K : z \in L /\ z.addr # h
  BY <1>1, <1>2, <1>3 DEF Placed
<1>6. Placed(f, M)
  BY <1>1, <1>2, <1>4, <1>5 DEF Placed
<1>7. ASSUME NEW a \in Nat, NEW m \in Nat, Piece(f, M, a, m)
      PROVE  \E i \in Nat : m <= i /\ Piece(f, L, a, i)
  <2>1. CASE a = h /\ m = _S_round_up(n)
    <3>1. _S_round_up(x.size) \in Nat
      BY <1>2, ListsAre, RoundedIs
    <3>2. Piece(f, L, h, _S_round_up(x.size))
      BY <1>2 DEF Piece
    <3>. QED  BY <2>1, <3>1, <3>2
  <2>2. CASE ~(a = h /\ m = _S_round_up(n))
    <3>1. Piece(f, L, a, m)
      BY <1>4, <1>5, <1>7, <2>2 DEF Piece
    <3>. QED  BY <3>1
  <2>. QED  BY <2>1, <2>2
<1>8. Good(f, M, s, e, b)
  BY <1>1, <1>4, <1>6, <1>7, GoodShrinks
<1>. QED  BY <1>3, <1>4, <1>5, <1>8

LEMMA FreshAddr ==
    ASSUME NEW f \in FreeLists, NEW L \in SUBSET Blocks, NEW u \in Nat, NEW v \in Nat,
           Clear(f, L, u, v), NEW a \in Nat, u <= a, a < v
    PROVE  (\A x \in L : x.addr # a) /\ \A l \in Lists : a \notin Range(f[l])
<1>1. ASSUME NEW n, Piece(f, L, a, n)  PROVE FALSE
  <2>1. n \in Nat \ {0}
    BY <1>1, PieceIs
  <2>2. a + n <= u \/ v <= a
    BY <1>1, <2>1 DEF Clear
  <2>. QED  BY <2>1, <2>2
<1>2. ASSUME NEW x \in L, x.addr = a  PROVE FALSE
  BY <1>1, <1>2 DEF Piece
<1>3. ASSUME NEW l \in Lists, a \in Range(f[l])  PROVE FALSE
  BY <1>1, <1>3 DEF Piece
<1>. QED  BY <1>2, <1>3

\* Memory that is nobody's becomes a block; the pool may change.
LEMMA BlockGood ==
    ASSUME NEW f, NEW L, NEW s, NEW e, NEW b, Good(f, L, s, e, b),
           NEW n \in Requests, NEW u \in Nat, NEW v \in Nat, v = u + _S_round_up(n),
           NEW t \in Nat, NEW d \in Nat, NEW c \in Nat,
           b <= c, ALIGN <= u, v <= c, Clear(f, L, u, v), PoolAt(f, L, t, d, c, u, v),
           NEW y, y = Block(u, n)
    PROVE  Good(f, L \cup {y}, t, d, c) /\ y \notin L
<1>1. f \in FreeLists /\ L \in SUBSET Blocks /\ IsFiniteSet(L) /\ Placed(f, L)
  BY DEF Good
<1>2. _S_round_up(n) \in Nat /\ _S_round_up(n) > 0 /\ ALIGN > 0 /\ ALIGN \in Nat
  <2>1. n \in Nat \ {0}
    BY ListsAre
  <2>. QED  BY <2>1, ListsAre, RoundedIs
<1>3. u \in Nat \ {0} /\ u < v
  BY <1>2
<1>4. PICK M \in SUBSET Blocks : M = L \cup {y} /\ IsFiniteSet(M) /\ y.addr = u /\ y.size = n
  <2>1. y \in Blocks /\ y.addr = u /\ y.size = n
    BY <1>3 DEF Block, Blocks
  <2>2. IsFiniteSet(L \cup {y})
    BY <1>1, FS_AddElement
  <2>. QED  BY <1>1, <2>1, <2>2
<1>5. (\A x \in L : x.addr # u) /\ \A l \in Lists : u \notin Range(f[l])
  BY <1>1, <1>3, FreshAddr
<1>6. Placed(f, M) /\ y \notin L
  BY <1>1, <1>4, <1>5 DEF Placed
<1>7. ASSUME NEW a \in Nat, NEW m \in Nat, Piece(f, M, a, m)
      PROVE  Piece(f, L, a, m) \/ (a = u /\ m = _S_round_up(n))
  BY <1>4, <1>7 DEF Piece
<1>8. \A a, m \in Nat : Piece(f, M, a, m) => Piece(f, L, a, m) \/ (u <= a /\ a + m <= v)
  BY <1>2, <1>7
<1>9. ASSUME NEW a \in Nat, NEW m \in Nat, NEW i \in Nat, NEW j \in Nat,
             Piece(f, M, a, m), Piece(f, M, i, j), u <= a, a + m <= v, u <= i, i + j <= v
      PROVE  a = i \/ Beside(a, m, i, j)
  <2>1. ASSUME NEW k \in Nat, NEW w \in Nat, Piece(f, M, k, w), u <= k, k + w <= v  PROVE k = u
    <3>1. CASE Piece(f, L, k, w)
      <4>1. w \in Nat \ {0}
        BY <1>1, <3>1, PieceIs
      <4>2. k + w <= u \/ v <= k
        BY <3>1 DEF Clear
      <4>. QED  BY <2>1, <4>1, <4>2
    <3>. QED  BY <1>7, <2>1, <3>1
  <2>. QED  BY <1>9, <2>1
<1>10. Good(f, M, t, d, c)
  <2>1. GainsIn(f, L, f, M, u, v)
    BY <1>8, <1>9 DEF GainsIn
  <2>. QED  BY <1>1, <1>4, <1>6, <2>1, GoodGains
<1>. QED  BY <1>4, <1>6, <1>10

\* The rest of the pool becomes an object.
LEMMA PutGood ==
    ASSUME NEW f, NEW L, NEW s, NEW e, NEW b, Good(f, L, s, e, b), s # e,
           NEW l \in Lists, e - s = SizeOf(l), NEW g, g = Longer(f, l, s), NEW z \in Nat
    PROVE  Good(g, L, z, z, b)
<1>1. /\ f \in FreeLists /\ L \in SUBSET Blocks /\ IsFiniteSet(L) /\ Placed(f, L)
      /\ s \in Nat /\ e \in Nat /\ b \in Nat /\ ALIGN <= s /\ e <= b /\ Clear(f, L, s, e)
  BY DEF Good
<1>2. PICK k \in Nat \ {0} : k = SizeOf(l) /\ ALIGN \in Nat /\ ALIGN > 0
  BY ListsAre, SizeIs
<1>3. s \in Nat \ {0} /\ s < e /\ e = s + k
  BY <1>1, <1>2
<1>4. (\A x \in L : x.addr # s) /\ \A j \in Lists : s \notin Range(f[j])
  BY <1>1, <1>3, FreshAddr
<1>5. /\ g \in FreeLists /\ Range(g[l]) = Range(f[l]) \cup {s} /\ Distinct(g[l])
      /\ \A j \in Lists : j # l => g[j] = f[j]
  <2>1. Distinct(f[l]) /\ s \notin Range(f[l])
    BY <1>1, <1>4 DEF Placed
  <2>. QED  BY <1>1, <1>3, <2>1, PushLists
<1>6. Placed(g, L)
  <2>1. \A x \in L : \A j \in Lists : x.addr \notin Range(g[j])
    BY <1>1, <1>4, <1>5 DEF Placed
  <2>2. ASSUME NEW i \in Lists, NEW j \in Lists, i # j  PROVE Range(g[i]) \cap Range(g[j]) = {}
    <3>1. Range(f[i]) \cap Range(f[j]) = {} /\ s \notin Range(f[i]) /\ s \notin Range(f[j])
      BY <1>1, <1>4, <2>2 DEF Placed
    <3>2. CASE i = l
      <4>1. Range(g[i]) = Range(f[i]) \cup {s} /\ g[j] = f[j]
        BY <1>5, <2>2, <3>2
      <4>. QED  BY <3>1, <4>1
    <3>3. CASE j = l
      <4>1. Range(g[j]) = Range(f[j]) \cup {s} /\ g[i] = f[i]
        BY <1>5, <2>2, <3>3
      <4>. QED  BY <3>1, <4>1
    <3>4. CASE i # l /\ j # l
      BY <1>5, <3>1, <3>4
    <3>. QED  BY <3>2, <3>3, <3>4
  <2>3. \A j \in Lists : Distinct(g[j])
    BY <1>1, <1>5 DEF Placed
  <2>. QED  BY <1>1, <2>1, <2>2, <2>3 DEF Placed
<1>7. ASSUME NEW a \in Nat, NEW m \in Nat, Piece(g, L, a, m)
      PROVE  Piece(f, L, a, m) \/ (a = s /\ m = k)
  <2>1. CASE \E x \in L : x.addr = a /\ _S_round_up(x.size) = m
    BY <2>1 DEF Piece
  <2>2. CASE \E j \in Lists : a \in Range(g[j]) /\ m = SizeOf(j)
    <3>1. PICK j \in Lists : a \in Range(g[j]) /\ m = SizeOf(j)
      BY <2>2
    <3>2. CASE a \in Range(f[j])
      BY <3>1, <3>2 DEF Piece
    <3>3. CASE a \notin Range(f[j])
      BY <1>2, <1>5, <3>1, <3>3
    <3>. QED  BY <3>2, <3>3
  <2>. QED  BY <1>7, <2>1, <2>2 DEF Piece
<1>8. \A a, m \in Nat : Piece(g, L, a, m) => Piece(f, L, a, m) \/ (s <= a /\ a + m <= e)
  BY <1>3, <1>7
<1>9. ASSUME NEW a \in Nat, NEW m \in Nat, NEW i \in Nat, NEW j \in Nat,
             Piece(g, L, a, m), Piece(g, L, i, j), s <= a, a + m <= e, s <= i, i + j <= e
      PROVE  a = i \/ Beside(a, m, i, j)
  <2>1. ASSUME NEW q \in Nat, NEW w \in Nat, Piece(g, L, q, w), s <= q, q + w <= e  PROVE q = s
    <3>1. CASE Piece(f, L, q, w)
      <4>1. w \in Nat \ {0}
        BY <1>1, <3>1, PieceIs
      <4>2. q + w <= s \/ e <= q
        BY <1>1, <3>1 DEF Clear
      <4>. QED  BY <1>1, <2>1, <4>1, <4>2
    <3>. QED  BY <1>7, <2>1, <3>1
  <2>. QED  BY <1>9, <2>1
<1>10. z - z = 0 /\ Multiple(0)
  BY <1>2 DEF Multiple
<1>11. GainsIn(f, L, g, L, s, e) /\ PoolAt(f, L, z, z, b, s, e)
  BY <1>8, <1>9, <1>10 DEF GainsIn, PoolAt
<1>. QED  BY <1>1, <1>5, <1>6, <1>11, GoodGains

\* The front of the pool becomes the objects of an empty list.
LEMMA ListGood ==
    ASSUME NEW f, NEW L, NEW s, NEW e, NEW b, Good(f, L, s, e, b),
           NEW l \in Lists, f[l] = <<>>, NEW z, z = SizeOf(l), NEW k \in Nat \ {0},
           NEW t, t = s + k * z, t <= e,
           NEW q, q \in Seq(Int), Len(q) = k, \A i \in 1 .. k : q[i] = s + (i - 1) * z,
           NEW g, g = Refilled(f, l, q)
    PROVE  Good(g, L, t, e, b)
<1>1. /\ f \in FreeLists /\ L \in SUBSET Blocks /\ IsFiniteSet(L) /\ Placed(f, L)
      /\ s \in Nat /\ e \in Nat /\ b \in Nat /\ Multiple(e - s)
  BY DEF Good
<1>2. z \in Nat /\ z > 0 /\ Multiple(z) /\ ALIGN \in Nat /\ ALIGN > 0
  BY ListsAre, SizeIs
<1>3. Multiple(k * z) /\ k * z \in Nat /\ k * z >= z
  <2>1. Multiple(z * k) /\ z * k = k * z
    BY <1>2, MultipleTimes
  <2>2. 1 * z <= k * z /\ k * z \in Nat
    <3>1. k \in Nat /\ 1 <= k /\ k <= k
      OBVIOUS
    <3>2. 1 * z <= k * z
      BY ONLY <1>2, <3>1, ProductGrows
    <3>3. k * z \in Nat
      BY ONLY <1>2, <3>1, ProductGrows
    <3>. QED  BY <3>2, <3>3
  <2>. QED  BY <1>2, <2>1, <2>2
<1>4. t \in Nat /\ s < t /\ s # e /\ Multiple(e - t)
  <2>1. t \in Nat /\ s < t /\ s # e
    <3>1. PICK w \in Nat : w = k * z /\ w >= z
      BY <1>3
    <3>2. t = s + w
      BY <3>1
    <3>. QED  BY ONLY <1>1, <1>2, <3>1, <3>2, t <= e
  <2>2. k * z <= e - s /\ (e - s) - k * z = e - t
    BY <1>1, <1>3
  <2>3. Multiple((e - s) - k * z)
    BY <1>1, <1>3, <2>2, MultipleSum
  <2>. QED  BY <2>1, <2>2, <2>3
<1>5. ALIGN <= s /\ e <= b /\ Clear(f, L, s, e)
  BY <1>4 DEF Good
<1>6. Clear(f, L, s, t) /\ Clear(f, L, t, e)
  <2>1. ASSUME NEW a \in Nat, NEW n \in Nat, Piece(f, L, a, n)
        PROVE  (a + n <= s \/ t <= a) /\ (a + n <= t \/ e <= a)
    <3>1. a + n <= s \/ e <= a
      BY <1>5, <2>1 DEF Clear
    <3>. QED  BY <1>1, <1>4, <3>1
  <2>. QED  BY <2>1 DEF Clear
<1>7. ASSUME NEW i \in 1 .. k
      PROVE  q[i] \in Nat \ {0} /\ s <= q[i] /\ q[i] + z = s + i * z /\ q[i] + z <= t /\ q[i] < t
  <2>1. (i - 1) * z \in Nat /\ i * z <= k * z /\ (i - 1) * z + z = i * z
    <3>1. i \in Nat /\ i - 1 \in Nat /\ i <= k
      OBVIOUS
    <3>2. (i - 1) * z \in Nat /\ i * z <= k * z
      <4>1. (i - 1) * z \in Nat
        BY ONLY <1>2, <3>1, ProductGrows
      <4>2. k \in Nat
        OBVIOUS
      <4>3. i * z <= k * z
        BY ONLY <1>2, <3>1, <4>2, ProductGrows
      <4>. QED  BY <4>1, <4>3
    <3>3. (i - 1) * z = i * z - 1 * z
      BY <1>2, <3>1, Distributes
    <3>4. i * z \in Nat
      BY <1>2, <3>1
    <3>5. PICK w \in Nat : w = (i - 1) * z
      BY <3>2
    <3>6. PICK x \in Nat : x = i * z
      BY <3>4
    <3>7. w = x - z
      BY <1>2, <3>3, <3>5, <3>6
    <3>8. w + z = x
      BY ONLY <1>2, <3>5, <3>6, <3>7
    <3>. QED  BY <3>2, <3>5, <3>6, <3>8
  <2>2. q[i] = s + (i - 1) * z
    BY <1>7
  <2>3. PICK w \in Nat : w = (i - 1) * z
    BY <2>1
  <2>4. PICK x \in Nat : x = i * z /\ x = w + z
    BY <1>2, <2>1, <2>3
  <2>5. PICK y \in Nat : y = k * z /\ x <= y
    BY <1>3, <2>1, <2>4
  <2>6. q[i] = s + w /\ t = s + y /\ s > 0
    BY <1>1, <1>2, <1>5, <2>2, <2>3, <2>5
  <2>7. q[i] \in Nat \ {0} /\ s <= q[i] /\ q[i] + z = s + x /\ q[i] + z <= t /\ q[i] < t
    BY ONLY <1>1, <1>2, <2>4, <2>5, <2>6, w \in Nat
  <2>. QED  BY <2>4, <2>7
<1>8. ASSUME NEW i \in 1 .. k, NEW j \in 1 .. k, i < j  PROVE q[i] + z <= q[j]
  <2>1. q[i] + z = s + i * z /\ q[j] = s + (j - 1) * z
    BY <1>7
  <2>2. i * z <= (j - 1) * z /\ i * z \in Nat
    <3>1. i \in Nat /\ j - 1 \in Nat /\ i <= j - 1
      BY <1>8
    <3>. QED  BY <1>2, <3>1, ProductGrows
  <2>3. (j - 1) * z \in Nat
    <3>1. j - 1 \in Nat
      OBVIOUS
    <3>. QED  BY ONLY <1>2, <3>1, ProductGrows
  <2>4. PICK x \in Nat : x = i * z
    BY <2>2
  <2>5. PICK w \in Nat : w = (j - 1) * z
    BY <2>3
  <2>6. x <= w
    BY <2>2, <2>4, <2>5
  <2>. QED  BY ONLY <1>1, <2>1, <2>4, <2>5, <2>6
<1>9. Distinct(q)
  <2>1. SUFFICES ASSUME NEW i \in 1 .. k, NEW j \in 1 .. k, q[i] = q[j], i # j  PROVE FALSE
    BY DEF Distinct
  <2>2. q[i] \in Nat /\ q[j] \in Nat
    BY <1>7
  <2>3. i < j \/ j < i
    BY <2>1
  <2>4. q[i] + z <= q[j] \/ q[j] + z <= q[i]
    BY <1>8, <2>3
  <2>. QED  BY ONLY <1>2, <2>1, <2>2, <2>4
<1>10. Range(q) = {q[i] : i \in 1 .. k}
  <2>1. DOMAIN q = 1 .. k
    OBVIOUS
  <2>. QED  BY <2>1, Zenon DEF Range
<1>11. /\ g \in FreeLists /\ g[l] = q /\ \A j \in Lists : j # l => g[j] = f[j]
  <2>1. q \in Seq(Nat \ {0})
    <3>1. \A i \in 1 .. Len(q) : q[i] \in Nat \ {0}
      BY <1>7
    <3>. QED  BY ONLY q \in Seq(Int), <3>1
  <2>. QED  BY <1>1, <2>1 DEF FreeLists, Refilled
<1>12. ASSUME NEW i \in 1 .. k
       PROVE  (\A x \in L : x.addr # q[i]) /\ \A j \in Lists : q[i] \notin Range(f[j])
  <2>1. q[i] \in Nat /\ s <= q[i] /\ q[i] < t
    BY <1>7
  <2>. QED  BY <1>1, <1>4, <1>6, <2>1, FreshAddr
<1>13. Placed(g, L)
  <2>1. \A x \in L : \A j \in Lists : x.addr \notin Range(g[j])
    <3>1. \A x \in L : \A i \in 1 .. k : x.addr # q[i]
      BY <1>12
    <3>2. \A x \in L : x.addr \notin Range(q)
      BY <1>10, <3>1
    <3>3. \A x \in L : \A j \in Lists : x.addr \notin Range(f[j])
      BY <1>1 DEF Placed
    <3>. QED  BY <1>11, <3>2, <3>3
  <2>2. ASSUME NEW i \in Lists, NEW j \in Lists, i # j  PROVE Range(g[i]) \cap Range(g[j]) = {}
    <3>1. Range(f[i]) \cap Range(f[j]) = {}
      BY <1>1, <2>2 DEF Placed
    <3>2. Range(f[i]) \cap Range(q) = {} /\ Range(f[j]) \cap Range(q) = {}
      BY <1>10, <1>12
    <3>. QED  BY <1>11, <2>2, <3>1, <3>2
  <2>3. \A j \in Lists : Distinct(g[j])
    BY <1>1, <1>9, <1>11 DEF Placed
  <2>. QED  BY <1>1, <2>1, <2>2, <2>3 DEF Placed
<1>14. ASSUME NEW a \in Nat, NEW m \in Nat, Piece(g, L, a, m)
       PROVE  Piece(f, L, a, m) \/ (m = z /\ \E i \in 1 .. k : a = q[i])
  <2>1. CASE \E x \in L : x.addr = a /\ _S_round_up(x.size) = m
    BY <2>1 DEF Piece
  <2>2. CASE \E j \in Lists : a \in Range(g[j]) /\ m = SizeOf(j)
    <3>1. PICK j \in Lists : a \in Range(g[j]) /\ m = SizeOf(j)
      BY <2>2
    <3>2. CASE j = l
      BY <1>10, <1>11, <3>1, <3>2
    <3>3. CASE j # l
      BY <1>11, <3>1, <3>3 DEF Piece
    <3>. QED  BY <3>2, <3>3
  <2>. QED  BY <1>14, <2>1, <2>2 DEF Piece
<1>15. ASSUME NEW a \in Nat, NEW m \in Nat, Piece(g, L, a, m)
       PROVE  Piece(f, L, a, m) \/ (s <= a /\ a + m <= t)
  <2>1. CASE ~Piece(f, L, a, m)
    <3>1. PICK i \in 1 .. k : a = q[i] /\ m = z
      BY <1>14, <1>15, <2>1
    <3>. QED  BY <1>7, <3>1
  <2>. QED  BY <2>1
<1>16. ASSUME NEW a \in Nat, NEW m \in Nat, NEW i \in Nat, NEW j \in Nat,
              Piece(g, L, a, m), Piece(g, L, i, j), s <= a, a + m <= t, s <= i, i + j <= t
       PROVE  a = i \/ Beside(a, m, i, j)
  <2>1. ASSUME NEW x \in Nat, NEW w \in Nat, Piece(g, L, x, w), s <= x, x + w <= t
        PROVE  w = z /\ \E n \in 1 .. k : x = q[n]
    <3>1. CASE Piece(f, L, x, w)
      <4>1. w \in Nat \ {0}
        BY <1>1, <3>1, PieceIs
      <4>2. x + w <= s \/ t <= x
        BY <1>6, <3>1 DEF Clear
      <4>. QED  BY <1>1, <1>4, <2>1, <4>1, <4>2
    <3>. QED  BY <1>14, <2>1, <3>1
  <2>2. PICK n \in 1 .. k : a = q[n] /\ m = z
    BY <1>16, <2>1
  <2>3. PICK o \in 1 .. k : i = q[o] /\ j = z
    BY <1>16, <2>1
  <2>4. n = o \/ n < o \/ o < n
    OBVIOUS
  <2>5. CASE n < o
    BY <1>8, <2>2, <2>3, <2>5 DEF Beside
  <2>6. CASE o < n
    BY <1>8, <2>2, <2>3, <2>6 DEF Beside
  <2>. QED  BY <2>2, <2>3, <2>4, <2>5, <2>6
<1>17. GainsIn(f, L, g, L, s, t) /\ PoolAt(f, L, t, e, b, s, t)
  <2>1. ALIGN <= t
    BY <1>1, <1>2, <1>4, <1>5
  <2>2. t <= t
    BY <1>4
  <2>. QED  BY <1>4, <1>5, <1>6, <1>15, <1>16, <2>1, <2>2 DEF GainsIn, PoolAt
<1>18. b <= b /\ t <= b
  BY <1>1, <1>4, <1>5
<1>. QED  BY <1>1, <1>4, <1>5, <1>6, <1>11, <1>13, <1>17, <1>18, GoodGains

-----------------------------------------------------------------------------
(* What the pieces amount to.                                               *)

HeldOf    == [x \in Blocks |-> _S_round_up(x.size)]
FreeOf(f) == [l \in Lists |-> Len(f[l]) * SizeOf(l)]
Small(L)  == {x \in L : x.size <= MAX_BYTES}
Worth(f, L) == Total(HeldOf, Small(L)) + Total(FreeOf(f), Lists)

LEMMA HeldIsNat ==
    ASSUME NEW x \in Blocks
    PROVE  HeldOf[x] = _S_round_up(x.size) /\ HeldOf[x] \in Nat
<1>1. x.size \in Nat \ {0}
  BY ListsAre DEF Blocks
<1>. QED  BY <1>1, RoundedIs DEF HeldOf

LEMMA FreeIsNat ==
    ASSUME NEW f \in FreeLists, NEW l \in Lists
    PROVE  FreeOf(f)[l] = Len(f[l]) * SizeOf(l) /\ FreeOf(f)[l] \in Nat /\ Len(f[l]) \in Nat
<1>1. FreeOf(f)[l] = Len(f[l]) * SizeOf(l)
  BY DEF FreeOf
<1>2. Len(f[l]) \in Nat
  <2>1. f[l] \in Seq(Nat \ {0})
    BY DEF FreeLists
  <2>. QED  BY <2>1
<1>3. PICK n \in Nat : n = Len(f[l])
  BY <1>2
<1>4. n * SizeOf(l) \in Nat
  BY SizeIs, ProductGrows
<1>. QED  BY <1>1, <1>2, <1>3, <1>4

LEMMA SmallIs ==
    ASSUME NEW L \in SUBSET Blocks, IsFiniteSet(L)
    PROVE  /\ Small(L) \in SUBSET Blocks /\ IsFiniteSet(Small(L))
           /\ \A x \in Small(L) : HeldOf[x] \in Int
           /\ Total(HeldOf, Small(L)) \in Int
<1>1. Small(L) \in SUBSET L /\ Small(L) \in SUBSET Blocks
  BY DEF Small
<1>2. IsFiniteSet(Small(L))
  BY <1>1, FS_Subset
<1>3. \A x \in Small(L) : HeldOf[x] \in Int
  BY <1>1, HeldIsNat
<1>. QED  BY <1>1, <1>2, <1>3, TotalUnfolds

LEMMA FreeTotal ==
    ASSUME NEW f \in FreeLists
    PROVE  /\ IsFiniteSet(Lists) /\ \A l \in Lists : FreeOf(f)[l] \in Int
           /\ Total(FreeOf(f), Lists) \in Int
<1>1. IsFiniteSet(Lists) /\ \A l \in Lists : FreeOf(f)[l] \in Int
  BY ListsAre, FreeIsNat
<1>. QED  BY <1>1, TotalUnfolds

\* A change of one list, of n objects more or less.
LEMMA FreeChanges ==
    ASSUME NEW f \in FreeLists, NEW g \in FreeLists, NEW l \in Lists,
           \A k \in Lists : k # l => g[k] = f[k],
           NEW n \in Int, Len(g[l]) = Len(f[l]) + n
    PROVE  Total(FreeOf(g), Lists) = Total(FreeOf(f), Lists) + n * SizeOf(l)
<1>1. PICK F : F = FreeOf(f)
  OBVIOUS
<1>2. PICK G : G = FreeOf(g)
  OBVIOUS
<1>3. IsFiniteSet(Lists) /\ \A k \in Lists : F[k] \in Int /\ G[k] \in Int
  BY <1>1, <1>2, FreeTotal
<1>4. \A k \in Lists : k # l => G[k] = F[k]
  BY <1>1, <1>2, FreeIsNat
<1>5. Total(G, Lists) = Total(F, Lists) - F[l] + G[l]
  BY <1>3, <1>4, TotalChanges
<1>6. PICK i \in Int : i = Len(f[l])
  BY FreeIsNat
<1>7. PICK z \in Int : z = SizeOf(l)
  BY SizeIs
<1>8. F[l] = i * z /\ G[l] = (i + n) * z
  BY <1>1, <1>2, <1>6, <1>7, FreeIsNat
<1>9. (i + n) * z = i * z + n * z
  BY Distributes
<1>10. PICK u \in Int : u = i * z
  OBVIOUS
<1>11. PICK w \in Int : w = n * z
  OBVIOUS
<1>12. PICK a \in Int : a = Total(F, Lists)
  BY <1>1, FreeTotal
<1>13. Total(G, Lists) = a - u + (u + w)
  BY <1>5, <1>8, <1>9, <1>10, <1>11, <1>12
<1>14. a - u + (u + w) = a + w
  OBVIOUS
<1>. QED  BY <1>1, <1>2, <1>7, <1>11, <1>12, <1>13, <1>14

\* A block more, and a block less.
LEMMA HeldGains ==
    ASSUME NEW L \in SUBSET Blocks, IsFiniteSet(L), NEW y \in Blocks, y \notin L
    PROVE  Total(HeldOf, Small(L \cup {y})) =
             Total(HeldOf, Small(L)) + (IF y.size <= MAX_BYTES THEN _S_round_up(y.size) ELSE 0)
<1>1. /\ Small(L) \in SUBSET Blocks /\ IsFiniteSet(Small(L))
      /\ \A x \in Small(L) : HeldOf[x] \in Int /\ Total(HeldOf, Small(L)) \in Int
      /\ Total(HeldOf, Small(L)) \in Int
  BY SmallIs
<1>2. HeldOf[y] = _S_round_up(y.size) /\ HeldOf[y] \in Int
  BY HeldIsNat
<1>3. CASE y.size <= MAX_BYTES
  <2>1. Small(L \cup {y}) = Small(L) \cup {y} /\ y \notin Small(L)
    BY <1>3 DEF Small
  <2>2. \A x \in Small(L) \cup {y} : HeldOf[x] \in Int
    BY <1>1, <1>2
  <2>3. Total(HeldOf, Small(L) \cup {y}) = HeldOf[y] + Total(HeldOf, Small(L))
    BY <1>1, <2>1, <2>2, TotalAdds
  <2>4. PICK u \in Int : u = _S_round_up(y.size) /\ u = HeldOf[y]
    BY <1>2
  <2>5. PICK a \in Int : a = Total(HeldOf, Small(L))
    BY <1>1
  <2>6. Total(HeldOf, Small(L \cup {y})) = u + a
    BY ONLY <2>1, <2>3, <2>4, <2>5, Zenon
  <2>. QED  BY <1>3, <2>4, <2>5, <2>6
<1>4. CASE ~(y.size <= MAX_BYTES)
  <2>1. Small(L \cup {y}) = Small(L)
    BY <1>4 DEF Small
  <2>. QED  BY <1>1, <1>4, <2>1
<1>. QED  BY <1>3, <1>4

LEMMA HeldLoses ==
    ASSUME NEW L \in SUBSET Blocks, IsFiniteSet(L), NEW x \in L
    PROVE  Total(HeldOf, Small(L)) =
             Total(HeldOf, Small(L \ {x})) + (IF x.size <= MAX_BYTES THEN _S_round_up(x.size) ELSE 0)
<1>1. PICK K \in SUBSET Blocks : K = L \ {x}
  OBVIOUS
<1>2. K \in SUBSET L /\ x \notin K /\ x \in Blocks /\ L = K \cup {x}
  BY <1>1
<1>3. IsFiniteSet(K)
  BY <1>2, FS_Subset
<1>. QED  BY <1>1, <1>2, <1>3, HeldGains

-----------------------------------------------------------------------------
(* Memory as the calls keep it: the pieces and the pool, and what malloc    *)
(* gave the pool.                                                           *)

KeptMemory(f, L, s, e, b, h, w) ==
    /\ Good(f, L, s, e, b) /\ h \in Nat
    /\ w = "no" => h = Worth(f, L) + (e - s)

LEMMA KeptFacts ==
    ASSUME NEW f, NEW L, NEW s, NEW e, NEW b, NEW h, NEW w, KeptMemory(f, L, s, e, b, h, w)
    PROVE  /\ Good(f, L, s, e, b) /\ f \in FreeLists /\ L \in SUBSET Blocks /\ IsFiniteSet(L)
           /\ s \in Nat /\ e \in Nat /\ b \in Nat /\ h \in Nat /\ Multiple(e - s) /\ e - s \in Nat
           /\ Total(HeldOf, Small(L)) \in Int /\ Total(FreeOf(f), Lists) \in Int
           /\ \A l \in Lists : Distinct(f[l])
<1>1. /\ Good(f, L, s, e, b) /\ f \in FreeLists /\ L \in SUBSET Blocks /\ IsFiniteSet(L)
      /\ s \in Nat /\ e \in Nat /\ b \in Nat /\ h \in Nat /\ Multiple(e - s)
      /\ \A l \in Lists : Distinct(f[l])
  BY DEF KeptMemory, Good, Placed
<1>2. e - s \in Nat
  <2>1. PICK k \in Nat : e - s = k * ALIGN
    BY <1>1 DEF Multiple
  <2>. QED  BY <2>1, ListsAre, ProductGrows
<1>. QED  BY <1>1, <1>2, SmallIs, FreeTotal

\* An object of list l becomes a block.
LEMMA PopKept ==
    ASSUME NEW f, NEW L, NEW s, NEW e, NEW b, NEW h, NEW w, KeptMemory(f, L, s, e, b, h, w),
           NEW n \in Requests, NEW l \in Lists, l = _S_freelist_index(n), f[l] # <<>>,
           NEW g, g = Shorter(f, l),
           NEW a, a = Head(f[l]), NEW y, y = Block(a, n)
    PROVE  KeptMemory(g, L \cup {y}, s, e, b, h, w) /\ y \notin L /\ a \in Nat \ {0}
<1>1. /\ Good(f, L, s, e, b) /\ f \in FreeLists /\ L \in SUBSET Blocks /\ IsFiniteSet(L) /\ h \in Nat
      /\ Total(HeldOf, Small(L)) \in Int /\ Total(FreeOf(f), Lists) \in Int
  BY KeptFacts
<1>2. Good(g, L \cup {y}, s, e, b) /\ y \notin L /\ a \in Nat \ {0}
  BY ONLY <1>1, PopGood, n \in Requests, l \in Lists, l = _S_freelist_index(n), f[l] # <<>>,
          g = Shorter(f, l), a = Head(f[l]), y = Block(a, n), SMTT(20)
<1>3. y \in Blocks /\ y.size = n
  BY <1>2 DEF Block, Blocks
<1>4. n \in Nat \ {0}
  BY ListsAre
<1>5. n <= MAX_BYTES /\ _S_round_up(n) = SizeOf(l) /\ SizeOf(l) \in Nat
  BY <1>4, SmallHasList, RoundedIs, SizeIs
<1>6. Total(HeldOf, Small(L \cup {y})) = Total(HeldOf, Small(L)) + SizeOf(l)
  BY <1>1, <1>2, <1>3, <1>5, HeldGains
<1>7. /\ g \in FreeLists /\ Len(g[l]) = Len(f[l]) + (-1)
      /\ \A k \in Lists : k # l => g[k] = f[k]
  <2>1. Distinct(f[l])
    BY KeptFacts
  <2>2. g \in FreeLists /\ Len(g[l]) = Len(f[l]) - 1 /\ \A k \in Lists : k # l => g[k] = f[k]
    BY <1>1, <2>1, PopLists
  <2>3. Len(f[l]) \in Nat
    BY <1>1, FreeIsNat
  <2>. QED  BY <2>2, <2>3
<1>8. Total(FreeOf(g), Lists) = Total(FreeOf(f), Lists) + (-1) * SizeOf(l)
  <2>1. -1 \in Int
    OBVIOUS
  <2>. QED  BY ONLY <1>1, <1>7, <2>1, l \in Lists, FreeChanges
<1>9. Worth(g, L \cup {y}) = Worth(f, L)
  BY <1>1, <1>5, <1>6, <1>8 DEF Worth
<1>. QED  BY <1>1, <1>2, <1>9 DEF KeptMemory

\* An object of list l becomes the pool, which was empty.
LEMMA TakeKept ==
    ASSUME NEW f, NEW L, NEW s, NEW b, NEW h, NEW w, KeptMemory(f, L, s, s, b, h, w),
           NEW l \in Lists, f[l] # <<>>, NEW g, g = Shorter(f, l),
           NEW a, a = Head(f[l])
    PROVE  KeptMemory(g, L, a, a + SizeOf(l), b, h, w) /\ a \in Nat \ {0}
<1>1. /\ Good(f, L, s, s, b) /\ f \in FreeLists /\ h \in Nat /\ s \in Nat
      /\ Total(HeldOf, Small(L)) \in Int /\ Total(FreeOf(f), Lists) \in Int
  BY KeptFacts
<1>2. Good(g, L, a, a + SizeOf(l), b) /\ a \in Nat \ {0}
  BY <1>1, TakeGood
<1>3. SizeOf(l) \in Nat
  BY SizeIs
<1>7. /\ g \in FreeLists /\ Len(g[l]) = Len(f[l]) + (-1)
      /\ \A k \in Lists : k # l => g[k] = f[k]
  <2>1. Distinct(f[l])
    BY KeptFacts
  <2>2. g \in FreeLists /\ Len(g[l]) = Len(f[l]) - 1 /\ \A k \in Lists : k # l => g[k] = f[k]
    BY <1>1, <2>1, PopLists
  <2>3. Len(f[l]) \in Nat
    BY <1>1, FreeIsNat
  <2>. QED  BY <2>2, <2>3
<1>8. Total(FreeOf(g), Lists) = Total(FreeOf(f), Lists) + (-1) * SizeOf(l)
  <2>1. -1 \in Int
    OBVIOUS
  <2>. QED  BY ONLY <1>1, <1>7, <2>1, l \in Lists, FreeChanges
<1>9. Worth(g, L) + ((a + SizeOf(l)) - a) = Worth(f, L) + (s - s)
  BY <1>1, <1>2, <1>3, <1>8 DEF Worth
<1>. QED  BY <1>1, <1>2, <1>9 DEF KeptMemory

\* A small block becomes an object of its list.
LEMMA PushKept ==
    ASSUME NEW f, NEW L, NEW s, NEW e, NEW b, NEW h, NEW w, KeptMemory(f, L, s, e, b, h, w),
           NEW x \in L, NEW l \in Lists, l = _S_freelist_index(x.size),
           NEW g, g = Longer(f, l, x.addr)
    PROVE  KeptMemory(g, L \ {x}, s, e, b, h, w)
<1>1. /\ Good(f, L, s, e, b) /\ f \in FreeLists /\ L \in SUBSET Blocks /\ IsFiniteSet(L) /\ h \in Nat
      /\ Total(HeldOf, Small(L)) \in Int /\ Total(FreeOf(f), Lists) \in Int
  BY KeptFacts
<1>2. Good(g, L \ {x}, s, e, b)
  BY <1>1, PushGood
<1>3. x.addr \in Nat \ {0} /\ x.size \in Nat \ {0}
  BY <1>1, ListsAre DEF Blocks
<1>4. x.size <= MAX_BYTES /\ _S_round_up(x.size) = SizeOf(l) /\ SizeOf(l) \in Nat
  BY <1>3, SmallHasList, RoundedIs, SizeIs
<1>5. Total(HeldOf, Small(L)) = Total(HeldOf, Small(L \ {x})) + SizeOf(l)
  BY <1>1, <1>4, HeldLoses
<1>6. Total(HeldOf, Small(L \ {x})) \in Int
  <2>1. L \ {x} \in SUBSET Blocks /\ L \ {x} \in SUBSET L
    BY <1>1
  <2>. QED  BY <1>1, <2>1, FS_Subset, SmallIs
<1>7. /\ g \in FreeLists /\ Len(g[l]) = Len(f[l]) + 1
      /\ \A k \in Lists : k # l => g[k] = f[k]
  BY <1>1, <1>3, PushLists
<1>8. Total(FreeOf(g), Lists) = Total(FreeOf(f), Lists) + 1 * SizeOf(l)
  BY <1>1, <1>7, FreeChanges
<1>9. Worth(g, L \ {x}) = Worth(f, L)
  BY <1>1, <1>4, <1>5, <1>6, <1>8 DEF Worth
<1>. QED  BY <1>1, <1>2, <1>9 DEF KeptMemory

\* A large block goes back to malloc.
LEMMA DropKept ==
    ASSUME NEW f, NEW L, NEW s, NEW e, NEW b, NEW h, NEW w, KeptMemory(f, L, s, e, b, h, w),
           NEW x \in L, x.size > MAX_BYTES
    PROVE  KeptMemory(f, L \ {x}, s, e, b, h, w)
<1>1. Good(f, L, s, e, b) /\ h \in Nat /\ x \in Blocks
  BY KeptFacts
<1>2. Good(f, L \ {x}, s, e, b)
  BY <1>1, DropGood
<1>3. x.size \in Nat /\ MAX_BYTES \in Nat
  BY <1>1, ListsAre DEF Blocks
<1>4. Small(L \ {x}) = Small(L)
  BY <1>3 DEF Small
<1>. QED  BY <1>1, <1>2, <1>4 DEF KeptMemory, Worth

LEMMA RoundGrows ==
    ASSUME NEW n \in Nat \ {0}, NEW m \in Nat \ {0}, n <= m
    PROVE  _S_round_up(n) <= _S_round_up(m)
<1>1. PICK i \in Nat : i = _S_freelist_index(n)
  BY RoundedIs
<1>2. PICK j \in Nat : j = _S_freelist_index(m)
  BY RoundedIs
<1>3. /\ _S_round_up(n) = SizeOf(i) /\ _S_round_up(m) = SizeOf(j) /\ SizeOf(j) >= m
      /\ SizeOf(i) - ALIGN < n /\ SizeOf(i) \in Nat /\ SizeOf(j) \in Nat
  BY <1>1, <1>2, RoundedIs
<1>4. CASE j < i
  <2>1. SizeOf(j) <= SizeOf(i - 1) /\ i - 1 \in Nat
    BY <1>4, LargerSize
  <2>2. SizeOf(i - 1) = SizeOf(i) - ALIGN
    <3>1. (i - 1) + 1 = i /\ ((i + 1) - 1) * ALIGN = (i + 1) * ALIGN - 1 * ALIGN
      BY ListsAre, Distributes
    <3>2. i * ALIGN = (i + 1) * ALIGN - ALIGN
      BY <3>1, ListsAre
    <3>. QED  BY <3>1, <3>2 DEF SizeOf
  <2>. QED  BY <1>3, <2>1, <2>2, ListsAre
<1>5. CASE i <= j
  BY <1>3, <1>5, LargerSize
<1>. QED  BY <1>4, <1>5

LEMMA RoundMultiple ==
    ASSUME NEW n \in Nat
    PROVE  Multiple(_S_round_up(n)) /\ _S_round_up(n) \in Nat
<1>1. CASE n = 0
  <2>1. (ALIGN - 1) \div ALIGN = 0
    <3>1. PICK a \in Nat \ {0} : a = ALIGN
      BY ListsAre
    <3>2. (a - 1) \div a = 0
      <4>1. PICK k \in Int : k = (a - 1) \div a
        OBVIOUS
      <4>2. PICK r \in Int : r = (a - 1) % a
        OBVIOUS
      <4>3. a - 1 = a * k + r /\ 0 <= r /\ r < a
        BY <4>1, <4>2
      <4>4. CASE k >= 1
        <5>1. a * k >= a
          BY <4>4
        <5>. QED  BY <4>3, <5>1
      <4>5. CASE k <= -1
        <5>1. a * k <= -a
          BY <4>5
        <5>. QED  BY <4>3, <5>1
      <4>. QED  BY <4>1, <4>4, <4>5
    <3>. QED  BY <3>1, <3>2
  <2>2. n + ALIGN - 1 = ALIGN - 1
    BY <1>1, ListsAre
  <2>3. _S_round_up(n) = 0 * ALIGN
    BY <2>1, <2>2 DEF _S_round_up
  <2>4. 0 * ALIGN = 0
    BY ListsAre
  <2>. QED  BY <2>3, <2>4 DEF Multiple
<1>2. CASE n # 0
  BY <1>2, RoundedIs
<1>. QED  BY <1>1, <1>2

\* A block keeps its place.
LEMMA ResizeKept ==
    ASSUME NEW f, NEW L, NEW s, NEW e, NEW b, NEW h, NEW w, KeptMemory(f, L, s, e, b, h, w),
           NEW x \in L, NEW n \in Requests, NEW y, y = Block(x.addr, n),
           \/ x.size > MAX_BYTES /\ n > MAX_BYTES /\ n <= x.size
           \/ _S_round_up(x.size) = _S_round_up(n)
    PROVE  KeptMemory(f, (L \ {x}) \cup {y}, s, e, b, h, w)
<1>1. /\ Good(f, L, s, e, b) /\ f \in FreeLists /\ L \in SUBSET Blocks /\ IsFiniteSet(L) /\ h \in Nat
  BY KeptFacts
<1>2. x.addr \in Nat \ {0} /\ x.size \in Nat \ {0} /\ n \in Nat \ {0} /\ MAX_BYTES \in Nat
  BY <1>1, ListsAre DEF Blocks
<1>3. PICK i \in Nat : i = _S_round_up(n)
  BY <1>2, RoundedIs
<1>4. PICK j \in Nat : j = _S_round_up(x.size)
  BY <1>2, RoundedIs
<1>5. i <= j
  BY <1>2, <1>3, <1>4, RoundGrows
<1>6. Good(f, (L \ {x}) \cup {y}, s, e, b) /\ y \notin L \ {x}
  <2>1. _S_round_up(n) <= _S_round_up(x.size)
    BY <1>3, <1>4, <1>5
  <2>. QED  BY <1>1, <2>1, ResizeGood
<1>7. y \in Blocks /\ y.size = n
  BY <1>2 DEF Block, Blocks
<1>8. PICK K \in SUBSET Blocks : K = L \ {x} /\ IsFiniteSet(K)
  <2>1. L \ {x} \in SUBSET L /\ L \ {x} \in SUBSET Blocks
    BY <1>1
  <2>2. IsFiniteSet(L \ {x})
    BY <1>1, <2>1, FS_Subset
  <2>. QED  BY <2>1, <2>2
<1>9. Total(HeldOf, Small(K \cup {y})) =
        Total(HeldOf, Small(K)) + (IF n <= MAX_BYTES THEN i ELSE 0)
  BY <1>3, <1>6, <1>7, <1>8, HeldGains
<1>10. Total(HeldOf, Small(L)) =
        Total(HeldOf, Small(K)) + (IF x.size <= MAX_BYTES THEN j ELSE 0)
  BY <1>1, <1>4, <1>8, HeldLoses
<1>11. (IF n <= MAX_BYTES THEN i ELSE 0) = (IF x.size <= MAX_BYTES THEN j ELSE 0)
  <2>1. CASE x.size > MAX_BYTES /\ n > MAX_BYTES
    BY <1>2, <2>1
  <2>2. CASE i = j
    <3>1. (n <= MAX_BYTES <=> i <= MAX_BYTES) /\ (x.size <= MAX_BYTES <=> j <= MAX_BYTES)
      BY <1>2, <1>3, <1>4, SmallHasList
    <3>. QED  BY <2>2, <3>1
  <2>. QED  BY <1>3, <1>4, <2>1, <2>2
<1>12. Total(HeldOf, Small(K \cup {y})) = Total(HeldOf, Small(L))
  BY <1>9, <1>10, <1>11, Zenon
<1>13. Worth(f, K \cup {y}) = Worth(f, L)
  BY <1>12, Zenon DEF Worth
<1>. QED  BY <1>1, <1>6, <1>8, <1>13 DEF KeptMemory

\* Clearance of a part, and of what malloc has not given out.
LEMMA ClearPart ==
    ASSUME NEW f, NEW L, NEW s \in Nat, NEW e \in Nat, Clear(f, L, s, e),
           NEW u \in Nat, NEW v \in Nat, s <= u, v <= e
    PROVE  Clear(f, L, u, v)
<1>1. SUFFICES ASSUME NEW a \in Nat, NEW n \in Nat, Piece(f, L, a, n)
               PROVE  a + n <= u \/ v <= a
  BY DEF Clear
<1>2. a + n <= s \/ e <= a
  BY <1>1 DEF Clear
<1>. QED  BY <1>2

LEMMA ClearAbove ==
    ASSUME NEW f, NEW L, NEW b \in Nat, Inside(f, L, b), NEW v \in Nat
    PROVE  Clear(f, L, b, v)
BY DEF Clear, Inside

\* The front of the pool becomes a block of n bytes.
LEMMA FrontKept ==
    ASSUME NEW f, NEW L, NEW s, NEW e, NEW b, NEW h, NEW w, KeptMemory(f, L, s, e, b, h, w),
           NEW n \in Requests, n <= MAX_BYTES, NEW t, t = s + _S_round_up(n), t <= e,
           NEW y, y = Block(s, n)
    PROVE  KeptMemory(f, L \cup {y}, t, e, b, h, w) /\ y \notin L /\ s \in Nat \ {0}
<1>1. /\ Good(f, L, s, e, b) /\ f \in FreeLists /\ L \in SUBSET Blocks /\ IsFiniteSet(L)
      /\ s \in Nat /\ e \in Nat /\ b \in Nat /\ h \in Nat /\ Multiple(e - s)
      /\ Total(HeldOf, Small(L)) \in Int /\ Total(FreeOf(f), Lists) \in Int
  BY KeptFacts
<1>2. PICK z \in Nat \ {0} : z = _S_round_up(n) /\ Multiple(z) /\ ALIGN \in Nat /\ ALIGN > 0
  <2>1. n \in Nat \ {0}
    BY ListsAre
  <2>2. _S_round_up(n) \in Nat /\ _S_round_up(n) >= n /\ Multiple(_S_round_up(n))
    BY <2>1, RoundedIs
  <2>. QED  BY <2>1, <2>2, ListsAre
<1>3. t = s + z /\ t \in Nat /\ s < e /\ s < t
  BY <1>1, <1>2
<1>4. ALIGN <= s /\ e <= b /\ Clear(f, L, s, e)
  BY <1>1, <1>3 DEF Good
<1>5. Clear(f, L, s, t) /\ Clear(f, L, t, e)
  <2>1. s <= s /\ s <= t /\ t <= e /\ e <= e
    BY <1>1, <1>3
  <2>. QED  BY <1>1, <1>3, <1>4, <2>1, ClearPart
<1>6. Multiple(e - t)
  <2>1. z <= e - s /\ (e - s) - z = e - t
    BY <1>1, <1>3
  <2>2. Multiple((e - s) - z)
    BY <1>1, <1>2, <2>1, MultipleSum
  <2>. QED  BY <2>1, <2>2
<1>7. PoolAt(f, L, t, e, b, s, t)
  <2>1. ALIGN <= t /\ t <= t
    BY <1>1, <1>2, <1>3, <1>4
  <2>. QED  BY <1>4, <1>5, <1>6, <2>1 DEF PoolAt
<1>8. Good(f, L \cup {y}, t, e, b) /\ y \notin L
  <2>1. t <= b /\ b <= b
    BY <1>1, <1>3, <1>4
  <2>2. t = s + _S_round_up(n)
    OBVIOUS
  <2>. QED  BY ONLY <1>1, <1>3, <1>4, <1>5, <1>7, <2>1, <2>2, BlockGood, n \in Requests, y = Block(s, n)
<1>9. y \in Blocks /\ y.size = n /\ s \in Nat \ {0}
  BY <1>1, <1>2, <1>4 DEF Block, Blocks
<1>10. Total(HeldOf, Small(L \cup {y})) = Total(HeldOf, Small(L)) + z
  BY <1>1, <1>2, <1>8, <1>9, HeldGains
<1>11. Worth(f, L \cup {y}) + (e - t) = Worth(f, L) + (e - s)
  <2>1. PICK i \in Int : i = Total(HeldOf, Small(L))
    BY <1>1
  <2>2. PICK j \in Int : j = Total(FreeOf(f), Lists)
    BY <1>1
  <2>3. Worth(f, L \cup {y}) = (i + z) + j /\ Worth(f, L) = i + j
    BY <1>10, <2>1, <2>2, Zenon DEF Worth
  <2>. QED  BY ONLY <1>1, <1>3, <2>3, i \in Int, j \in Int, z \in Nat
<1>12. KeptMemory(f, L \cup {y}, t, e, b, h, w)
  BY <1>1, <1>8, <1>11 DEF KeptMemory
<1>. QED  BY <1>8, <1>9, <1>12

\* Memory of malloc becomes a large block.
LEMMA MallocKept ==
    ASSUME NEW f, NEW L, NEW s, NEW e, NEW b, NEW h, NEW w, KeptMemory(f, L, s, e, b, h, w),
           NEW n \in Requests, n > MAX_BYTES, NEW c, c = b + _S_round_up(n),
           NEW y, y = Block(b, n)
    PROVE  KeptMemory(f, L \cup {y}, s, e, c, h, w) /\ y \notin L /\ b \in Nat \ {0} /\ c \in Nat /\ b < c
<1>1. /\ Good(f, L, s, e, b) /\ f \in FreeLists /\ L \in SUBSET Blocks /\ IsFiniteSet(L)
      /\ s \in Nat /\ e \in Nat /\ b \in Nat /\ h \in Nat /\ Multiple(e - s)
  BY KeptFacts
<1>2. PICK z \in Nat \ {0} : z = _S_round_up(n) /\ ALIGN \in Nat /\ ALIGN > 0 /\ n \in Nat /\ MAX_BYTES \in Nat
  <2>1. n \in Nat \ {0}
    BY ListsAre
  <2>2. _S_round_up(n) \in Nat /\ _S_round_up(n) >= n
    BY <2>1, RoundedIs
  <2>. QED  BY <2>1, <2>2, ListsAre
<1>3. c \in Nat /\ b < c /\ c = b + z /\ ALIGN <= b /\ Inside(f, L, b) /\ b # 0
  BY <1>1, <1>2 DEF Good
<1>4. Clear(f, L, b, c)
  BY <1>1, <1>3, ClearAbove
<1>5. PoolAt(f, L, s, e, c, b, c)
  <2>1. s = e \/ (ALIGN <= s /\ e <= b /\ Clear(f, L, s, e))
    BY <1>1 DEF Good
  <2>2. e <= b => e <= c
    BY <1>1, <1>3
  <2>. QED  BY <1>1, <2>1, <2>2 DEF PoolAt
<1>6. Good(f, L \cup {y}, s, e, c) /\ y \notin L
  <2>1. b <= c /\ c <= c
    BY <1>1, <1>3
  <2>2. c = b + _S_round_up(n)
    OBVIOUS
  <2>. QED  BY ONLY <1>1, <1>3, <1>4, <1>5, <2>1, <2>2, BlockGood, n \in Requests, y = Block(b, n)
<1>7. y.size = n
  BY DEF Block
<1>8. Small(L \cup {y}) = Small(L)
  BY <1>2, <1>7 DEF Small
<1>9. KeptMemory(f, L \cup {y}, s, e, c, h, w)
  BY <1>1, <1>6, <1>8 DEF KeptMemory, Worth
<1>. QED  BY <1>1, <1>3, <1>6, <1>9

\* The rest of the pool becomes an object; the pool is empty, wherever it is.
LEMMA PutKept ==
    ASSUME NEW f, NEW L, NEW s, NEW e, NEW b, NEW h, NEW w, KeptMemory(f, L, s, e, b, h, w), s # e,
           NEW l \in Lists, e - s = SizeOf(l), NEW g, g = Longer(f, l, s), NEW z \in Nat
    PROVE  KeptMemory(g, L, z, z, b, h, w)
<1>1. /\ Good(f, L, s, e, b) /\ f \in FreeLists /\ L \in SUBSET Blocks /\ IsFiniteSet(L)
      /\ s \in Nat /\ e \in Nat /\ b \in Nat /\ h \in Nat
      /\ Total(HeldOf, Small(L)) \in Int /\ Total(FreeOf(f), Lists) \in Int
  BY KeptFacts
<1>2. Good(g, L, z, z, b)
  BY <1>1, PutGood
<1>3. s \in Nat \ {0}
  BY <1>1, ListsAre DEF Good
<1>4. /\ g \in FreeLists /\ Len(g[l]) = Len(f[l]) + 1
      /\ \A k \in Lists : k # l => g[k] = f[k]
  BY <1>1, <1>3, PushLists
<1>5. Total(FreeOf(g), Lists) = Total(FreeOf(f), Lists) + 1 * SizeOf(l)
  BY ONLY <1>1, <1>4, l \in Lists, 1 \in Int, FreeChanges
<1>6. Worth(g, L) + (z - z) = Worth(f, L) + (e - s)
  <2>1. PICK i \in Int : i = Total(HeldOf, Small(L))
    BY <1>1
  <2>2. PICK j \in Int : j = Total(FreeOf(f), Lists)
    BY <1>1
  <2>3. PICK k \in Nat : k = SizeOf(l)
    BY SizeIs
  <2>4. Worth(g, L) = i + (j + 1 * k) /\ Worth(f, L) = i + j
    BY <1>5, <2>1, <2>2, <2>3, Zenon DEF Worth
  <2>5. e - s = k
    BY <2>3
  <2>. QED  BY ONLY <1>1, <2>4, <2>5, i \in Int, j \in Int, k \in Nat, z \in Nat
<1>. QED  BY <1>1, <1>2, <1>6 DEF KeptMemory

\* The front of the pool becomes the objects of an empty list.
LEMMA ListKept ==
    ASSUME NEW f, NEW L, NEW s, NEW e, NEW b, NEW h, NEW w, KeptMemory(f, L, s, e, b, h, w),
           NEW l \in Lists, f[l] = <<>>, NEW z, z = SizeOf(l), NEW k \in Nat \ {0},
           NEW t, t = s + k * z, t <= e,
           NEW q, q \in Seq(Int), Len(q) = k, \A i \in 1 .. k : q[i] = s + (i - 1) * z,
           NEW g, g = Refilled(f, l, q)
    PROVE  KeptMemory(g, L, t, e, b, h, w)
<1>1. /\ Good(f, L, s, e, b) /\ f \in FreeLists /\ L \in SUBSET Blocks /\ IsFiniteSet(L)
      /\ s \in Nat /\ e \in Nat /\ b \in Nat /\ h \in Nat
      /\ Total(HeldOf, Small(L)) \in Int /\ Total(FreeOf(f), Lists) \in Int
  BY KeptFacts
<1>2. Good(g, L, t, e, b)
  BY <1>1, ListGood
<1>3. g \in FreeLists /\ g[l] = q /\ \A j \in Lists : j # l => g[j] = f[j]
  BY <1>1, <1>2 DEF Good, Refilled, FreeLists
<1>4. Len(g[l]) = Len(f[l]) + k /\ k \in Int
  BY <1>3
<1>5. Total(FreeOf(g), Lists) = Total(FreeOf(f), Lists) + k * z
  <2>1. Total(FreeOf(g), Lists) = Total(FreeOf(f), Lists) + k * SizeOf(l)
    BY ONLY <1>1, <1>3, <1>4, l \in Lists, FreeChanges
  <2>. QED  BY <2>1, Zenon
<1>6. PICK x \in Nat : x = k * z
  BY SizeIs, ProductGrows
<1>7. Worth(g, L) + (e - t) = Worth(f, L) + (e - s)
  <2>1. PICK i \in Int : i = Total(HeldOf, Small(L))
    BY <1>1
  <2>2. PICK j \in Int : j = Total(FreeOf(f), Lists)
    BY <1>1
  <2>4. Worth(g, L) = i + (j + x) /\ Worth(f, L) = i + j
    BY <1>5, <1>6, <2>1, <2>2, Zenon DEF Worth
  <2>5. t = s + x
    BY <1>6
  <2>. QED  BY ONLY <1>1, <2>4, <2>5, i \in Int, j \in Int, x \in Nat
<1>. QED  BY <1>1, <1>2, <1>7 DEF KeptMemory

\* The same, with what is known of the new objects in one place.
Spaced(q, s, k, z, t) ==
    /\ k \in Nat \ {0} /\ q \in Seq(Int) /\ Len(q) = k
    /\ (\A i \in 1 .. k : q[i] = s + (i - 1) * z) /\ t = s + k * z

LEMMA SpacedKept ==
    ASSUME NEW f, NEW L, NEW s, NEW e, NEW b, NEW h, NEW w, KeptMemory(f, L, s, e, b, h, w),
           NEW l \in Lists, f[l] = <<>>, NEW k, NEW q, NEW t, Spaced(q, s, k, SizeOf(l), t), t <= e
    PROVE  KeptMemory(Refilled(f, l, q), L, t, e, b, h, w)
<1>1. PICK z : z = SizeOf(l)
  OBVIOUS
<1>2. PICK g : g = Refilled(f, l, q)
  OBVIOUS
<1>3. /\ k \in Nat \ {0} /\ q \in Seq(Int) /\ Len(q) = k /\ t = s + k * z
      /\ \A i \in 1 .. k : q[i] = s + (i - 1) * z
  BY <1>1 DEF Spaced
<1>4. KeptMemory(g, L, t, e, b, h, w)
  BY <1>1, <1>2, <1>3, ListKept, SMTT(30)
<1>. QED  BY <1>2, <1>4

\* The front of the pool is lost.
LEMMA LoseKept ==
    ASSUME NEW f, NEW L, NEW s, NEW e, NEW b, NEW h, NEW w, KeptMemory(f, L, s, e, b, h, w),
           NEW t \in Nat, s <= t, t <= e, Multiple(t - s), NEW v, v # "no"
    PROVE  KeptMemory(f, L, t, e, b, h, v)
<1>1. /\ Good(f, L, s, e, b) /\ s \in Nat /\ e \in Nat /\ b \in Nat /\ h \in Nat
      /\ Multiple(e - s) /\ ALIGN \in Nat
  BY KeptFacts, ListsAre
<1>2. Multiple(e - t)
  <2>1. t - s <= e - s /\ (e - s) - (t - s) = e - t
    BY <1>1
  <2>2. Multiple((e - s) - (t - s))
    BY <1>1, <2>1, MultipleSum
  <2>. QED  BY <2>1, <2>2
<1>3. t = e \/ (ALIGN <= t /\ e <= b /\ Clear(f, L, t, e))
  <2>1. CASE t # e
    <3>1. s # e
      BY <1>1, <2>1
    <3>2. ALIGN <= s /\ e <= b /\ Clear(f, L, s, e)
      BY <1>1, <3>1 DEF Good
    <3>3. ALIGN <= t /\ e <= e
      BY <1>1, <3>2
    <3>. QED  BY <1>1, <3>2, <3>3, ClearPart
  <2>. QED  BY <2>1
<1>4. Good(f, L, t, e, b)
  <2>1. b <= b
    BY <1>1
  <2>. QED  BY <1>1, <1>2, <1>3, <2>1, GoodArea
<1>. QED  BY <1>1, <1>4 DEF KeptMemory

\* malloc gives the empty pool get bytes.
LEMMA GrowKept ==
    ASSUME NEW f, NEW L, NEW s, NEW b, NEW h, NEW w, KeptMemory(f, L, s, s, b, h, w),
           NEW get, Multiple(get)
    PROVE  KeptMemory(f, L, b, b + get, b + get, h + get, w)
<1>1. /\ Good(f, L, s, s, b) /\ s \in Nat /\ b \in Nat /\ h \in Nat
      /\ Total(HeldOf, Small(L)) \in Int /\ Total(FreeOf(f), Lists) \in Int
  BY KeptFacts
<1>2. get \in Nat
  BY MultipleSum
<1>3. Inside(f, L, b) /\ ALIGN <= b
  BY <1>1 DEF Good
<1>4. Clear(f, L, b, b + get)
  <2>1. b + get \in Nat
    BY <1>1, <1>2
  <2>. QED  BY <1>1, <1>3, <2>1, ClearAbove
<1>5. PICK c \in Nat : c = b + get
  BY <1>1, <1>2
<1>6. Good(f, L, b, c, c)
  <2>1. c - b = get /\ b <= c /\ c <= c
    BY <1>1, <1>2, <1>5
  <2>. QED  BY <1>1, <1>3, <1>4, <1>5, <2>1, GoodArea
<1>7. Worth(f, L) \in Int
  BY <1>1 DEF Worth
<1>8. h = Worth(f, L) + (s - s) => h + get = Worth(f, L) + (c - b)
  BY <1>1, <1>2, <1>5, <1>7
<1>9. h + get \in Nat
  BY <1>1, <1>2
<1>. QED  BY <1>5, <1>6, <1>8, <1>9 DEF KeptMemory

\* The empty pool may be anywhere.
LEMMA EmptyKept ==
    ASSUME NEW f, NEW L, NEW s, NEW e, NEW b, NEW h, NEW w, KeptMemory(f, L, s, e, b, h, w), s = e, NEW z \in Nat
    PROVE  KeptMemory(f, L, z, z, b, h, w)
<1>1. Good(f, L, s, e, b) /\ s \in Nat /\ b \in Nat /\ h \in Nat /\ Multiple(e - s)
  BY KeptFacts
<1>2. e - s = z - z /\ b <= b
  BY <1>1
<1>3. Good(f, L, z, z, b)
  BY <1>1, <1>2, GoodArea
<1>. QED  BY <1>1, <1>2, <1>3 DEF KeptMemory

-----------------------------------------------------------------------------
(* The pool, and the ways a chunk is found.                                 *)

PoolType == [free : FreeLists, start : Nat, end : Nat, heap : Nat]

KeptPool(p, L, b, w) ==
    p \in PoolType /\ KeptMemory(p.free, L, p.start, p.end, b, p.heap, w)

\* A chunk cut from the front of a pool, for objects of list l.
CutFrom(p, l, c) ==
    /\ c.addr = p.start /\ c.nobjs \in Nat \ {0}
    /\ p.start + c.nobjs * SizeOf(l) <= p.end
    /\ c.pool = [p EXCEPT !.start = p.start + c.nobjs * SizeOf(l)]

LEMMA CarveIs ==
    ASSUME NEW p, NEW L, NEW b, NEW w, KeptPool(p, L, b, w), NEW l \in Lists,
           Left(p) >= SizeOf(l), NEW c, c = Carve(p, b, SizeOf(l))
    PROVE  CutFrom(p, l, c) /\ c.brk = b
<1>1. p \in PoolType /\ p.start \in Nat /\ p.end \in Nat
  BY DEF KeptPool, PoolType
<1>2. PICK z \in Nat \ {0} : z = SizeOf(l)
  BY SizeIs
<1>3. PICK d \in Int : d = Left(p) /\ d >= z
  BY <1>1, <1>2 DEF Left
<1>4. PICK n : n = IF d >= z * NOBJS THEN NOBJS ELSE d \div z
  OBVIOUS
<1>5. n \in Nat \ {0} /\ n * z <= d /\ z * n = n * z
  <2>1. NOBJS \in Nat \ {0}
    BY SizesAssumption
  <2>2. CASE d >= z * NOBJS
    <3>1. n = NOBJS
      BY <1>4, <2>2
    <3>2. z * n = n * z
      BY <2>1, <3>1
    <3>. QED  BY <2>1, <2>2, <3>1, <3>2
  <2>3. CASE ~(d >= z * NOBJS)
    <3>1. PICK k \in Int : k = d \div z
      BY <1>2
    <3>2. PICK r \in Int : r = d % z
      BY <1>2
    <3>3. d = z * k + r /\ 0 <= r /\ r < z
      BY <1>2, <1>3, <3>1, <3>2
    <3>4. k >= 1
      <4>1. CASE k <= 0
        <5>1. z * k <= 0
          BY <4>1
        <5>. QED  BY <1>3, <3>3, <5>1
      <4>. QED  BY <4>1
    <3>5. z * k = k * z /\ k * z \in Int
      OBVIOUS
    <3>6. k * z <= d
      BY <3>3, <3>5
    <3>7. n = k
      BY <1>4, <2>3, <3>1
    <3>. QED  BY <3>4, <3>5, <3>6, <3>7
  <2>. QED  BY <2>2, <2>3
<1>6. c = [pool |-> [p EXCEPT !.start = @ + z * n], brk |-> b, addr |-> p.start, nobjs |-> n]
  BY <1>2, <1>3, <1>4 DEF Carve
<1>7. c.brk = b /\ c.addr = p.start /\ c.nobjs = n /\ c.pool = [p EXCEPT !.start = p.start + n * z]
  <2>1. c.brk = b /\ c.addr = p.start /\ c.nobjs = n /\ c.pool = [p EXCEPT !.start = p.start + z * n]
    BY <1>6
  <2>. QED  BY <1>5, <2>1, Zenon
<1>8. PICK x \in Nat : x = n * z
  BY <1>5, ProductGrows
<1>9. p.start + x <= p.end
  BY <1>1, <1>3, <1>5, <1>8 DEF Left
<1>. QED  BY <1>2, <1>5, <1>7, <1>8, <1>9 DEF CutFrom

\* What is left goes to a smaller list, and the pool counts as empty.
LEMMA PutLeftIs ==
    ASSUME NEW p, NEW L, NEW b, NEW w, KeptPool(p, L, b, w), NEW l \in Lists,
           Left(p) < SizeOf(l), NEW q, q = PutLeft(p)
    PROVE  /\ q \in PoolType /\ q.heap = p.heap
           /\ \A k \in Lists : k >= l => q.free[k] = p.free[k]
           /\ \A z \in Nat : KeptMemory(q.free, L, z, z, b, q.heap, w)
<1>1. /\ p \in PoolType /\ p.start \in Nat /\ p.end \in Nat /\ p.free \in FreeLists
      /\ KeptMemory(p.free, L, p.start, p.end, b, p.heap, w)
  BY DEF KeptPool, PoolType
<1>2. PICK d \in Nat : d = Left(p) /\ d = p.end - p.start /\ Multiple(d)
  BY <1>1, KeptFacts DEF Left
<1>3. CASE d = 0
  <2>1. q = p /\ p.start = p.end
    BY <1>1, <1>2, <1>3 DEF PutLeft
  <2>. QED  BY <1>1, <2>1, EmptyKept
<1>4. CASE d # 0
  <2>1. PICK i \in Nat : i = _S_freelist_index(d)
    BY <1>4, RoundedIs
  <2>2. SizeOf(i) = d
    BY <1>2, <1>4, <2>1, IndexIs
  <2>3. i < l
    <3>1. SizeOf(i) < SizeOf(l) /\ l \in Nat
      BY <1>2, <2>2, SizeIs
    <3>. QED  BY <3>1, SmallerIndex
  <2>4. i \in Lists /\ l \in Nat
    BY <2>3, ListsAre DEF Lists
  <2>5. PICK g : g = Longer(p.free, i, p.start)
    OBVIOUS
  <2>6. q = [p EXCEPT !.free = g]
    <3>1. Left(p) > 0
      BY <1>2, <1>4
    <3>2. q = [p EXCEPT !.free[i] = <<p.start>> \o @]
      BY <1>2, <2>1, <3>1 DEF PutLeft
    <3>. QED  BY <1>1, <2>4, <2>5, <3>2 DEF Longer, PoolType
  <2>7. \A z \in Nat : KeptMemory(g, L, z, z, b, p.heap, w)
    <3>1. p.start # p.end
      BY <1>1, <1>2, <1>4
    <3>2. p.end - p.start = SizeOf(i)
      BY <1>2, <2>2
    <3>. QED  BY <1>1, <2>4, <2>5, <3>1, <3>2, PutKept
  <2>8. g \in FreeLists
    <3>1. KeptMemory(g, L, 0, 0, b, p.heap, w)
      BY <2>7
    <3>. QED  BY <3>1, KeptFacts
  <2>9. \A k \in Lists : k >= l => g[k] = p.free[k]
    <3>1. \A k \in Lists : k >= l => k # i
      BY <2>3, <2>4, ListsAre
    <3>. QED  BY <1>1, <2>5, <3>1 DEF Longer, FreeLists
  <2>10. q \in PoolType /\ q.free = g /\ q.heap = p.heap
    BY <1>1, <2>6, <2>8 DEF PoolType
  <2>. QED  BY <2>7, <2>9, <2>10
<1>. QED  BY <1>3, <1>4

LEMMA GetIs ==
    ASSUME NEW l \in Lists, NEW h \in Nat,
           NEW get, get = 2 * SizeOf(l) * NOBJS + _S_round_up(h \div HeapPart)
    PROVE  Multiple(get) /\ get \in Nat /\ get >= SizeOf(l)
<1>1. PICK z \in Nat \ {0} : z = SizeOf(l) /\ Multiple(z)
  BY SizeIs
<1>2. PICK n \in Nat \ {0} : n = NOBJS
  BY SizesAssumption
<1>3. h \div HeapPart \in Nat
  <2>1. PICK y \in Nat \ {0} : y = HeapPart
    BY SizesAssumption
  <2>2. h \div y \in Nat
    OBVIOUS
  <2>. QED  BY <2>1, <2>2
<1>4. PICK r \in Nat : r = _S_round_up(h \div HeapPart) /\ Multiple(r)
  BY <1>3, RoundMultiple
<1>5. PICK m \in Nat : m = 2 * n /\ m >= 1
  OBVIOUS
<1>6. 2 * z * n = z * m
  BY <1>5
<1>7. Multiple(z * m)
  BY <1>1, MultipleTimes
<1>8. 1 * z <= m * z /\ m * z \in Nat /\ m * z = z * m
  BY <1>5, ProductGrows
<1>9. PICK x \in Nat : x = z * m /\ x >= z
  BY <1>8
<1>10. get = x + r
  BY <1>1, <1>2, <1>4, <1>6, <1>9
<1>11. Multiple(x + r)
  BY <1>4, <1>7, <1>9, MultipleSum
<1>. QED  BY <1>1, <1>9, <1>10, <1>11

\* No list from l on has an object, and the pool has less than one.
Exhausted(p, l) ==
    Left(p) < SizeOf(l) /\ \A k \in Lists : k >= l => p.free[k] = <<>>

Served(c, L, l, w) ==
    \E p : KeptPool(p, L, c.brk, w) /\ p.free[l] = <<>> /\ CutFrom(p, l, c)

LEMMA OwnIndex ==
    ASSUME NEW l \in Lists
    PROVE  _S_freelist_index(SizeOf(l)) = l /\ _S_round_up(SizeOf(l)) = SizeOf(l)
<1>1. PICK z \in Nat \ {0} : z = SizeOf(l) /\ Multiple(z)
  BY SizeIs
<1>2. PICK i \in Nat : i = _S_freelist_index(z)
  BY RoundedIs
<1>3. SizeOf(i) = z /\ _S_round_up(z) = z
  BY <1>1, <1>2, IndexIs
<1>4. CASE i < l
  <2>1. i + 1 <= l /\ l \in Nat /\ i + 1 \in Nat
    BY <1>4, SizeIs
  <2>2. SizeOf(i + 1) <= SizeOf(l)
    BY <2>1, LargerSize
  <2>3. SizeOf(i + 1) = SizeOf(i) + ALIGN
    <3>1. ((i + 1) + 1) * ALIGN = (i + 1) * ALIGN + 1 * ALIGN
      BY ListsAre, Distributes
    <3>2. 1 * ALIGN = ALIGN
      BY ListsAre
    <3>. QED  BY <3>1, <3>2 DEF SizeOf
  <2>. QED  BY <1>1, <1>3, <2>2, <2>3, ListsAre
<1>5. CASE l < i
  <2>1. l + 1 <= i /\ l \in Nat /\ l + 1 \in Nat
    BY <1>5, SizeIs
  <2>2. SizeOf(l + 1) <= SizeOf(i)
    BY <2>1, LargerSize
  <2>3. SizeOf(l + 1) = SizeOf(l) + ALIGN
    <3>1. ((l + 1) + 1) * ALIGN = (l + 1) * ALIGN + 1 * ALIGN
      BY <2>1, ListsAre, Distributes
    <3>2. 1 * ALIGN = ALIGN
      BY ListsAre
    <3>. QED  BY <3>1, <3>2 DEF SizeOf
  <2>. QED  BY <1>1, <1>3, <2>2, <2>3, ListsAre
<1>6. CASE i = l
  BY <1>1, <1>2, <1>3, <1>6
<1>7. l \in Nat
  BY SizeIs
<1>. QED  BY <1>4, <1>5, <1>6, <1>7

LEMMA GrowIs ==
    ASSUME KeptPool(pool, live, brk, wild), NEW l \in Lists, pool.free[l] = <<>>,
           Left(pool) < SizeOf(l), NEW c \in Grow(pool, SizeOf(l))
    PROVE  c.brk \in brk .. MaxMemory /\ Served(c, live, l, wild)
<1>1. /\ pool \in PoolType /\ pool.heap \in Nat /\ l >= l /\ brk \in Nat
  <2>1. KeptMemory(pool.free, live, pool.start, pool.end, brk, pool.heap, wild)
    BY DEF KeptPool
  <2>2. brk \in Nat
    BY <2>1, KeptFacts
  <2>. QED  BY <2>2, ListsAre DEF KeptPool, PoolType
<1>2. PICK q : q = PutLeft(pool)
  OBVIOUS
<1>3. /\ q \in PoolType /\ q.heap = pool.heap /\ q.free[l] = <<>>
      /\ KeptMemory(q.free, live, 0, 0, brk, q.heap, wild)
  BY <1>1, <1>2, PutLeftIs
<1>4. PICK get : get = 2 * SizeOf(l) * NOBJS + _S_round_up(pool.heap \div HeapPart)
  OBVIOUS
<1>5. Multiple(get) /\ get \in Nat /\ get >= SizeOf(l)
  BY <1>1, <1>4, GetIs
<1>6. PICK p : p = [q EXCEPT !.start = brk, !.end = brk + get, !.heap = @ + get]
  OBVIOUS
<1>7. c = Carve(p, brk + get, SizeOf(l)) /\ brk + get <= MaxMemory
  <2>1. Grow(pool, SizeOf(l)) =
          IF brk + get > MaxMemory THEN {} ELSE {Carve(p, brk + get, SizeOf(l))}
    BY <1>2, <1>4, <1>6, Zenon DEF Grow
  <2>2. MaxMemory \in Nat
    BY SizesAssumption
  <2>. QED  BY <1>1, <1>5, <2>1, <2>2
<1>8. /\ p \in PoolType /\ p.free = q.free /\ p.start = brk /\ p.end = brk + get
      /\ p.heap = q.heap + get
  <2>1. q.heap + get \in Nat /\ brk + get \in Nat
    BY <1>1, <1>3, <1>5
  <2>. QED  BY <1>1, <1>3, <1>6, <2>1 DEF PoolType
<1>9. KeptPool(p, live, brk + get, wild)
  BY <1>3, <1>5, <1>8, GrowKept DEF KeptPool
<1>10. Left(p) >= SizeOf(l)
  BY <1>1, <1>5, <1>8 DEF Left
<1>11. CutFrom(p, l, c) /\ c.brk = brk + get
  BY <1>7, <1>9, <1>10, CarveIs
<1>12. c.brk \in brk .. MaxMemory
  BY <1>1, <1>5, <1>7, <1>11, SizesAssumption
<1>. QED  BY <1>3, <1>8, <1>9, <1>11, <1>12 DEF Served

LEMMA LeastIs ==
    ASSUME NEW S \in SUBSET Nat, S # {}
    PROVE  Min(S) \in S
<1>1. \E i \in S : \A j \in S : i <= j
  BY LeastNatural
<1>. QED  BY <1>1 DEF Min

LEMMA ScavengeIs ==
    ASSUME KeptPool(pool, live, brk, wild), NEW l \in Lists, pool.free[l] = <<>>,
           Left(pool) < SizeOf(l), NEW q, q = PutLeft(pool), NEW c \in Scavenge(q, SizeOf(l))
    PROVE  c.brk = brk /\ Served(c, live, l, wild)
<1>1. l \in Nat /\ l >= l
  BY SizeIs
<1>2. /\ q \in PoolType /\ q.free[l] = <<>> /\ q.free \in FreeLists
      /\ KeptMemory(q.free, live, 0, 0, brk, q.heap, wild)
  <2>1. /\ q \in PoolType /\ q.free[l] = <<>> /\ KeptMemory(q.free, live, 0, 0, brk, q.heap, wild)
    <3>1. /\ q \in PoolType /\ \A k \in Lists : k >= l => q.free[k] = pool.free[k]
          /\ \A z \in Nat : KeptMemory(q.free, live, z, z, brk, q.heap, wild)
      BY ONLY KeptPool(pool, live, brk, wild), l \in Lists, Left(pool) < SizeOf(l),
              q = PutLeft(pool), PutLeftIs, SMTT(30)
    <3>. QED  BY ONLY <1>1, <3>1, l \in Lists, pool.free[l] = <<>>
  <2>. QED  BY <2>1, KeptFacts
<1>3. PICK S : S = Larger(q, SizeOf(l))
  OBVIOUS
<1>4. PICK k : k = Min(S)
  OBVIOUS
<1>5. PICK a : a = Head(q.free[k])
  OBVIOUS
<1>6. PICK p : p = [q EXCEPT !.free[k] = Tail(@), !.start = a, !.end = a + (k + 1) * ALIGN]
  OBVIOUS
<1>7. S # {} /\ c = Carve(p, brk, SizeOf(l))
  <2>1. Scavenge(q, SizeOf(l)) = IF S = {} THEN {} ELSE {Carve(p, brk, SizeOf(l))}
    BY <1>3, <1>4, <1>5, <1>6, Zenon DEF Scavenge
  <2>. QED  BY <2>1
<1>8. k \in S
  <2>1. S \in SUBSET Nat
    BY <1>3, ListsAre DEF Larger
  <2>. QED  BY <1>4, <1>7, <2>1, LeastIs
<1>9. k \in Lists /\ k >= l /\ q.free[k] # <<>> /\ k # l
  BY <1>2, <1>3, <1>8, OwnIndex DEF Larger
<1>10. PICK g : g = Shorter(q.free, k)
  OBVIOUS
<1>11. KeptMemory(g, live, a, a + SizeOf(k), brk, q.heap, wild) /\ a \in Nat \ {0}
  BY <1>2, <1>5, <1>9, <1>10, TakeKept
<1>12. g \in FreeLists /\ a + SizeOf(k) \in Nat
  BY <1>11, KeptFacts
<1>13. /\ p \in PoolType /\ p.free = g /\ p.start = a /\ p.end = a + SizeOf(k)
       /\ p.heap = q.heap
  BY <1>2, <1>6, <1>9, <1>10, <1>11, <1>12 DEF PoolType, Shorter, SizeOf
<1>14. KeptPool(p, live, brk, wild)
  BY <1>11, <1>13 DEF KeptPool
<1>15. p.free[l] = <<>>
  BY <1>2, <1>9, <1>10, <1>13 DEF Shorter, FreeLists
<1>16. Left(p) >= SizeOf(l)
  <2>1. SizeOf(l) <= SizeOf(k) /\ SizeOf(k) \in Nat /\ SizeOf(l) \in Nat
    BY <1>1, <1>9, SizeIs, LargerSize
  <2>. QED  BY <1>11, <1>13, <2>1 DEF Left
<1>17. CutFrom(p, l, c) /\ c.brk = brk
  BY <1>7, <1>14, <1>16, CarveIs
<1>. QED  BY <1>14, <1>15, <1>17 DEF Served

\* _S_chunk_alloc cuts a chunk, or gives up with an empty pool.
LEMMA ChunkIs ==
    ASSUME KeptPool(pool, live, brk, wild), brk \in ALIGN .. MaxMemory,
           NEW l \in Lists, pool.free[l] = <<>>, NEW c \in _S_chunk_alloc(SizeOf(l))
    PROVE  /\ c.brk \in brk .. MaxMemory
           /\ \/ Served(c, live, l, wild)
              \/ /\ c.nobjs = 0 /\ c.addr = 0 /\ Exhausted(pool, l)
                 /\ KeptPool(c.pool, live, c.brk, wild)
<1>0. brk \in Int /\ brk <= MaxMemory /\ MaxMemory \in Nat
  BY SizesAssumption
<1>1. CASE Left(pool) >= SizeOf(l)
  <2>1. c = Carve(pool, brk, SizeOf(l))
    BY <1>1 DEF _S_chunk_alloc
  <2>2. CutFrom(pool, l, c) /\ c.brk = brk
    BY <1>1, <2>1, CarveIs
  <2>. QED  BY <1>0, <2>2 DEF Served
<1>2. CASE ~(Left(pool) >= SizeOf(l))
  <2>1. Left(pool) < SizeOf(l)
    BY <1>2, SizeIs DEF Left, KeptPool, PoolType
  <2>2. PICK q : q = PutLeft(pool)
    OBVIOUS
  <2>3. \/ c \in Grow(pool, SizeOf(l))
        \/ Larger(q, SizeOf(l)) = {} /\ c = GiveUp(q)
        \/ c \in Scavenge(q, SizeOf(l))
    BY <1>2, <2>2 DEF _S_chunk_alloc
  <2>4. CASE c \in Grow(pool, SizeOf(l))
    BY <2>1, <2>4, GrowIs
  <2>5. CASE c \in Scavenge(q, SizeOf(l))
    BY <1>0, <2>1, <2>2, <2>5, ScavengeIs
  <2>6. CASE Larger(q, SizeOf(l)) = {} /\ c = GiveUp(q)
    <3>1. /\ q \in PoolType /\ q.heap = pool.heap
          /\ \A k \in Lists : k >= l => q.free[k] = pool.free[k]
          /\ KeptMemory(q.free, live, 0, 0, brk, q.heap, wild)
      BY <2>1, <2>2, PutLeftIs
    <3>2. PICK p : p = [q EXCEPT !.start = 0, !.end = 0]
      OBVIOUS
    <3>3. c.pool = p /\ c.brk = brk /\ c.addr = 0 /\ c.nobjs = 0
      BY <2>6, <3>2 DEF GiveUp, Null
    <3>4. p \in PoolType /\ p.free = q.free /\ p.start = 0 /\ p.end = 0 /\ p.heap = q.heap
      BY <3>1, <3>2 DEF PoolType
    <3>5. KeptPool(c.pool, live, c.brk, wild)
      BY <3>1, <3>3, <3>4 DEF KeptPool
    <3>6. \A k \in Lists : k >= l => q.free[k] = <<>>
      BY <2>6, OwnIndex DEF Larger
    <3>7. Exhausted(pool, l)
      BY <2>1, <3>1, <3>6 DEF Exhausted
    <3>. QED  BY <1>0, <3>3, <3>5, <3>7
  <2>. QED  BY <2>3, <2>4, <2>5, <2>6
<1>. QED  BY <1>1, <1>2

-----------------------------------------------------------------------------
(* allocate.                                                                *)

\* The other objects of a chunk, as a list.
LEMMA OthersIs ==
    ASSUME NEW c, NEW z \in Nat, c.addr \in Nat, c.nobjs \in Nat \ {0}, NEW q, q = Others(c, z)
    PROVE  /\ q \in Seq(Int) /\ Len(q) = c.nobjs - 1
           /\ \A k \in 1 .. c.nobjs - 1 : q[k] = (c.addr + z) + (k - 1) * z
           /\ c.addr > 0 => q \in Seq(Nat \ {0})
<1>1. PICK n \in Nat : n = c.nobjs - 1
  OBVIOUS
<1>2. PICK a \in Nat : a = c.addr
  OBVIOUS
<1>3. q = [k \in 1 .. n |-> a + k * z]
  BY <1>1, <1>2 DEF Others
<1>4. \A k \in 1 .. n : k * z \in Nat
  BY ProductGrows
<1>5. q \in Seq(Int) /\ Len(q) = n
  BY <1>3, <1>4
<1>6. ASSUME NEW k \in 1 .. n  PROVE q[k] = (a + z) + (k - 1) * z
  <2>1. (k - 1) * z = k * z - 1 * z /\ k * z \in Nat
    BY <1>4, Distributes
  <2>2. PICK x \in Nat : x = k * z
    BY <2>1
  <2>3. PICK y \in Int : y = (k - 1) * z
    OBVIOUS
  <2>4. y = x - z
    BY <2>1, <2>2, <2>3
  <2>5. a + x = (a + z) + y
    BY <2>4
  <2>. QED  BY <1>3, <2>2, <2>3, <2>5
<1>7. ASSUME a > 0  PROVE q \in Seq(Nat \ {0})
  <2>1. ASSUME NEW k \in 1 .. n  PROVE q[k] \in Nat \ {0}
    <3>1. PICK x \in Nat : x = k * z
      BY <1>4
    <3>2. q[k] = a + x
      BY <1>3, <3>1
    <3>. QED  BY <1>7, <3>2
  <2>. QED  BY <1>5, <2>1
<1>. QED  BY <1>1, <1>2, <1>5, <1>6, <1>7

\* Neither the pool nor a list has what a request for n bytes needs.
NothingFor(n) ==
    /\ Left(pool) < _S_round_up(n)
    /\ \A l \in Lists : l >= _S_freelist_index(n) => pool.free[l] = <<>>

\* What a call that asked for n bytes makes of the allocator: nothing to hand
\* out, or a new block; nothing is said of a list that got another's objects.
Result(o, n) ==
    /\ o.pool \in PoolType /\ o.brk \in brk .. MaxMemory /\ o.wild \in {wild, "lost", "crossed"}
    /\ o.addr = 0 => o.wild = wild /\ KeptPool(o.pool, live, o.brk, wild)
    /\ o.addr # 0 =>
         /\ o.addr \in Nat \ {0}
         /\ o.wild # "crossed" =>
              /\ Block(o.addr, n) \notin live
              /\ KeptPool(o.pool, live \cup {Block(o.addr, n)}, o.brk, o.wild)
    /\ pool.start # 0 /\ o.pool.start = 0 => NothingFor(n)

LEMMA RefillIs ==
    ASSUME KeptPool(pool, live, brk, wild), brk \in ALIGN .. MaxMemory, wild # "crossed",
           NEW n \in Requests, n <= MAX_BYTES, NEW l \in Lists, l = _S_freelist_index(n),
           pool.free[l] = <<>>, NEW o \in _S_refill(_S_round_up(n))
    PROVE  Result(o, n)
<1>1. PICK z \in Nat \ {0} : z = SizeOf(l) /\ z = _S_round_up(n) /\ Multiple(z)
  <2>1. n \in Nat \ {0}
    BY ListsAre
  <2>. QED  BY <2>1, SizeIs, RoundedIs
<1>2. PICK c \in _S_chunk_alloc(z) :
        o \in IF c.nobjs <= 1
              THEN {[pool |-> c.pool, brk |-> c.brk, addr |-> c.addr, wild |-> wild]}
              ELSE {Stored(c, z, to) : to \in Lists \cup {Elsewhere}}
  BY <1>1 DEF _S_refill
<1>3. /\ c.brk \in brk .. MaxMemory
      /\ \/ Served(c, live, l, wild)
         \/ /\ c.nobjs = 0 /\ c.addr = 0 /\ Exhausted(pool, l)
            /\ KeptPool(c.pool, live, c.brk, wild)
  BY <1>1, <1>2, ChunkIs
<1>4. CASE /\ c.nobjs = 0 /\ c.addr = 0 /\ Exhausted(pool, l)
           /\ KeptPool(c.pool, live, c.brk, wild)
  <2>1. o = [pool |-> c.pool, brk |-> c.brk, addr |-> c.addr, wild |-> wild]
    BY <1>2, <1>4
  <2>2. o.pool = c.pool /\ o.brk = c.brk /\ o.addr = 0 /\ o.wild = wild
    BY <1>4, <2>1
  <2>3. c.pool \in PoolType
    BY <1>4 DEF KeptPool
  <2>4. NothingFor(n)
    BY <1>1, <1>4 DEF NothingFor, Exhausted
  <2>. QED  BY <1>3, <1>4, <2>2, <2>3, <2>4 DEF Result
<1>5. CASE Served(c, live, l, wild)
  <2>1. PICK p : KeptPool(p, live, c.brk, wild) /\ p.free[l] = <<>> /\ CutFrom(p, l, c)
    BY <1>5 DEF Served
  <2>2. /\ p \in PoolType /\ p.start \in Nat /\ p.end \in Nat /\ p.free \in FreeLists /\ p.heap \in Nat
        /\ KeptMemory(p.free, live, p.start, p.end, c.brk, p.heap, wild)
    BY <2>1 DEF KeptPool, PoolType
  <2>3. PICK m \in Nat \ {0} : m = c.nobjs /\ p.start + m * z <= p.end
                             /\ c.pool = [p EXCEPT !.start = p.start + m * z] /\ c.addr = p.start
    BY <1>1, <2>1 DEF CutFrom
  <2>4. PICK x \in Nat : x = m * z /\ x >= z /\ Multiple(x)
    <3>1. 1 * z <= m * z /\ m * z \in Nat /\ z * m = m * z
      BY ProductGrows
    <3>2. Multiple(z * m)
      BY <1>1, MultipleTimes
    <3>. QED  BY <3>1, <3>2
  <2>5. PICK t \in Nat : t = p.start + x /\ t > 0 /\ t <= p.end
    BY <2>2, <2>3, <2>4
  <2>6. /\ c.pool \in PoolType /\ c.pool.free = p.free /\ c.pool.start = t /\ c.pool.end = p.end
        /\ c.pool.heap = p.heap
    BY <2>2, <2>3, <2>4, <2>5 DEF PoolType
  <2>7. PICK y : y = Block(p.start, n)
    OBVIOUS
  <2>8. PICK u \in Nat : u = p.start + z /\ u <= p.end /\ u <= t
    BY <2>2, <2>4, <2>5
  <2>9. /\ KeptMemory(p.free, live \cup {y}, u, p.end, c.brk, p.heap, wild)
        /\ y \notin live /\ p.start \in Nat \ {0}
    <3>1. u = p.start + _S_round_up(n)
      BY <1>1, <2>8
    <3>2. u <= p.end
      BY <2>8
    <3>. QED  BY ONLY <2>2, <2>7, <3>1, <3>2, n \in Requests, n <= MAX_BYTES, FrontKept
  <2>10. CASE m = 1
    <3>1. o = [pool |-> c.pool, brk |-> c.brk, addr |-> c.addr, wild |-> wild]
      BY <1>2, <2>3, <2>10
    <3>2. o.pool = c.pool /\ o.brk = c.brk /\ o.addr = p.start /\ o.wild = wild
      BY <2>3, <3>1
    <3>3. x = z /\ t = u
      BY <2>4, <2>5, <2>8, <2>10
    <3>4. KeptPool(o.pool, live \cup {y}, o.brk, o.wild)
      BY <2>6, <2>9, <3>2, <3>3 DEF KeptPool
    <3>5. o.pool.start # 0
      BY <2>5, <2>6, <3>2
    <3>. QED  BY <1>3, <2>6, <2>7, <2>9, <3>2, <3>4, <3>5 DEF Result
  <2>11. CASE m # 1
    <3>1. PICK to \in Lists \cup {Elsewhere} : o = Stored(c, z, to)
      BY <1>2, <2>3, <2>11
    <3>2. PICK q : q = Others(c, z)
      OBVIOUS
    <3>3. PICK k \in Nat \ {0} : k = m - 1
      BY <2>11
    <3>4. /\ q \in Seq(Int) /\ Len(q) = k /\ q \in Seq(Nat \ {0})
          /\ \A i \in 1 .. k : q[i] = u + (i - 1) * z
      <4>1. c.addr \in Nat /\ c.nobjs \in Nat \ {0} /\ c.addr > 0 /\ c.nobjs - 1 = k
        BY <2>3, <2>9, <3>3
      <4>2. /\ q \in Seq(Int) /\ Len(q) = c.nobjs - 1
            /\ \A i \in 1 .. c.nobjs - 1 : q[i] = (c.addr + z) + (i - 1) * z
            /\ c.addr > 0 => q \in Seq(Nat \ {0})
        BY <3>2, <4>1, OthersIs
      <4>3. c.addr + z = u
        BY <2>3, <2>8
      <4>. QED  BY <4>1, <4>2, <4>3
    <3>5. t = u + k * z
      <4>1. k * z = m * z - 1 * z
        BY <3>3, Distributes
      <4>2. PICK v \in Nat : v = k * z
        BY ProductGrows
      <4>3. v = x - z
        BY <2>4, <4>1, <4>2
      <4>4. t = u + v
        BY <2>2, <2>5, <2>8, <4>3
      <4>. QED  BY <4>2, <4>4
    <3>6. /\ o.pool = IF to \in Lists THEN [c.pool EXCEPT !.free[to] = q] ELSE c.pool
          /\ o.brk = c.brk /\ o.addr = p.start
          /\ o.wild = IF to = _S_freelist_index(z) THEN wild
                      ELSE IF to \in Lists THEN "crossed" ELSE "lost"
      BY <2>3, <3>1, <3>2 DEF Stored
    <3>7. _S_freelist_index(z) = l
      BY <1>1, OwnIndex
    <3>8. PICK g : g = IF to \in Lists THEN Refilled(p.free, to, q) ELSE p.free
      OBVIOUS
    <3>9. /\ o.pool \in PoolType /\ o.pool.free = g /\ o.pool.start = t /\ o.pool.end = p.end
          /\ o.pool.heap = p.heap
      <4>1. g \in FreeLists
        BY <2>2, <3>4, <3>8 DEF FreeLists, Refilled
      <4>2. CASE to \in Lists
        <5>1. o.pool = [c.pool EXCEPT !.free = g]
          BY <2>6, <3>6, <3>8, <4>2 DEF PoolType, Refilled
        <5>. QED  BY <2>6, <4>1, <5>1 DEF PoolType
      <4>3. CASE to \notin Lists
        BY <2>6, <3>6, <3>8, <4>3
      <4>. QED  BY <4>2, <4>3
    <3>10. o.pool.start # 0 /\ o.addr \in Nat \ {0} /\ o.addr # 0
      BY <2>5, <2>9, <3>6, <3>9
    <3>11. o.wild # "crossed" => KeptPool(o.pool, live \cup {y}, o.brk, o.wild)
      <4>1. CASE to = l
        <5>1. KeptMemory(g, live \cup {y}, t, p.end, c.brk, p.heap, wild)
          <6>1. g = Refilled(p.free, l, q)
            BY <3>8, <4>1
          <6>2. /\ KeptMemory(p.free, live \cup {y}, u, p.end, c.brk, p.heap, wild)
                /\ p.free[l] = <<>> /\ Spaced(q, u, k, SizeOf(l), t) /\ t <= p.end
            BY <1>1, <2>1, <2>5, <2>9, <3>4, <3>5 DEF Spaced
          <6>. QED  BY ONLY <6>1, <6>2, l \in Lists, SpacedKept, Zenon
        <5>. QED  BY <3>6, <3>7, <3>9, <4>1, <5>1 DEF KeptPool
      <4>2. CASE to # l /\ to \in Lists
        BY <3>6, <3>7, <4>2
      <4>3. CASE to # l /\ to \notin Lists
        <5>1. g = p.free /\ o.wild = "lost"
          BY <3>6, <3>7, <3>8, <4>3
        <5>2. Multiple(t - u)
          <6>1. x - z = t - u
            BY <2>2, <2>5, <2>8
          <6>. QED  BY <1>1, <2>4, <6>1, MultipleSum
        <5>3. KeptMemory(p.free, live \cup {y}, t, p.end, c.brk, p.heap, "lost")
          BY <2>5, <2>8, <2>9, <5>2, LoseKept
        <5>. QED  BY <3>6, <3>9, <5>1, <5>3 DEF KeptPool
      <4>. QED  BY <4>1, <4>2, <4>3
    <3>12. o.brk \in brk .. MaxMemory /\ o.wild \in {wild, "lost", "crossed"}
      BY <1>3, <3>6
    <3>. QED  BY <2>7, <2>9, <3>6, <3>9, <3>10, <3>11, <3>12 DEF Result
  <2>. QED  BY <2>10, <2>11
<1>. QED  BY <1>3, <1>4, <1>5

LEMMA MallocIs ==
    ASSUME KeptPool(pool, live, brk, wild), brk \in ALIGN .. MaxMemory, wild # "crossed",
           NEW n \in Requests, n > MAX_BYTES, NEW o \in FromMalloc(n)
    PROVE  Result(o, n)
<1>1. PICK b \in {brk} \cup {x \in {brk + _S_round_up(n)} : x <= MaxMemory} :
        o = [pool |-> pool, brk |-> b, addr |-> IF b = brk THEN Null ELSE brk, wild |-> wild]
  BY DEF FromMalloc
<1>2. /\ o.pool = pool /\ o.brk = b /\ o.wild = wild /\ o.addr = IF b = brk THEN 0 ELSE brk
      /\ pool \in PoolType
  BY <1>1 DEF Null, KeptPool
<1>3. PICK c : c = brk + _S_round_up(n)
  OBVIOUS
<1>4. PICK y : y = Block(brk, n)
  OBVIOUS
<1>5. /\ KeptMemory(pool.free, live \cup {y}, pool.start, pool.end, c, pool.heap, wild)
      /\ y \notin live /\ brk \in Nat \ {0} /\ c \in Nat /\ brk < c
  <2>1. KeptMemory(pool.free, live, pool.start, pool.end, brk, pool.heap, wild)
    BY DEF KeptPool
  <2>. QED  BY ONLY <1>3, <1>4, <2>1, n \in Requests, n > MAX_BYTES, MallocKept
<1>6. MaxMemory \in Nat /\ brk <= MaxMemory
  BY SizesAssumption, <1>5
<1>7. CASE b = brk
  BY <1>2, <1>5, <1>6, <1>7 DEF Result
<1>8. CASE b # brk
  <2>1. b = c /\ c <= MaxMemory /\ o.addr = brk
    BY <1>1, <1>2, <1>3, <1>8
  <2>2. KeptPool(o.pool, live \cup {y}, o.brk, o.wild)
    BY <1>2, <1>5, <2>1 DEF KeptPool
  <2>3. o.brk \in brk .. MaxMemory
    BY <1>2, <1>5, <1>6, <2>1
  <2>. QED  BY <1>2, <1>4, <1>5, <2>1, <2>2, <2>3 DEF Result
<1>. QED  BY <1>7, <1>8

LEMMA PoppedResult ==
    ASSUME KeptPool(pool, live, brk, wild), brk \in ALIGN .. MaxMemory, wild # "crossed",
           NEW n \in Requests, NEW l \in Lists, l = _S_freelist_index(n), pool.free[l] # <<>>
    PROVE  Result(Popped(l), n)
<1>1. PICK o : o = Popped(l)
  OBVIOUS
<1>2. PICK g : g = Shorter(pool.free, l)
  OBVIOUS
<1>3. PICK a : a = Head(pool.free[l])
  OBVIOUS
<1>4. PICK y : y = Block(a, n)
  OBVIOUS
<1>5. /\ KeptMemory(g, live \cup {y}, pool.start, pool.end, brk, pool.heap, wild)
      /\ y \notin live /\ a \in Nat \ {0}
  <2>1. KeptMemory(pool.free, live, pool.start, pool.end, brk, pool.heap, wild)
    BY DEF KeptPool
  <2>2. PICK f : f = pool.free
    OBVIOUS
  <2>3. f[l] # <<>> /\ g = Shorter(f, l) /\ a = Head(f[l])
    BY <1>2, <1>3, <2>2
  <2>4. KeptMemory(f, live, pool.start, pool.end, brk, pool.heap, wild)
    BY <2>1, <2>2
  <2>. QED  BY ONLY <1>4, <2>3, <2>4, n \in Requests, l \in Lists,
                    l = _S_freelist_index(n), PopKept, SMTT(30)
<1>6. g \in FreeLists /\ brk \in Nat
  BY <1>5, KeptFacts
<1>7. pool \in PoolType
  BY DEF KeptPool
<1>8. /\ o.pool = [pool EXCEPT !.free = g] /\ o.brk = brk /\ o.addr = a /\ o.wild = wild
  BY <1>1, <1>2, <1>3, <1>7 DEF Popped, Shorter, PoolType
<1>9. /\ o.pool \in PoolType /\ o.pool.free = g /\ o.pool.start = pool.start
      /\ o.pool.end = pool.end /\ o.pool.heap = pool.heap
  BY <1>6, <1>7, <1>8 DEF PoolType
<1>10. KeptPool(o.pool, live \cup {y}, o.brk, o.wild)
  BY <1>5, <1>8, <1>9 DEF KeptPool
<1>11. o.brk \in brk .. MaxMemory
  BY <1>6, <1>8, SizesAssumption
<1>. QED  BY <1>1, <1>4, <1>5, <1>8, <1>9, <1>10, <1>11 DEF Result

LEMMA AllocatedIs ==
    ASSUME KeptPool(pool, live, brk, wild), brk \in ALIGN .. MaxMemory, wild # "crossed",
           NEW n \in Requests, NEW o \in Allocated(n)
    PROVE  Result(o, n)
<1>1. n \in Nat \ {0} /\ MAX_BYTES \in Nat
  BY ListsAre
<1>2. CASE n > MAX_BYTES
  <2>1. o \in FromMalloc(n)
    BY <1>2 DEF Allocated
  <2>. QED  BY <1>2, <2>1, MallocIs
<1>3. CASE ~(n > MAX_BYTES)
  <2>1. PICK l : l = _S_freelist_index(n)
    OBVIOUS
  <2>2. n <= MAX_BYTES /\ l \in Lists
    BY <1>1, <1>3, <2>1, SmallHasList
  <2>3. CASE pool.free[l] = <<>>
    <3>1. o \in _S_refill(_S_round_up(n))
      BY <1>3, <2>1, <2>3 DEF Allocated
    <3>. QED  BY <2>1, <2>2, <2>3, <3>1, RefillIs
  <2>4. CASE pool.free[l] # <<>>
    <3>1. o = Popped(l)
      BY <1>3, <2>1, <2>4 DEF Allocated
    <3>. QED  BY <2>1, <2>2, <2>4, <3>1, PoppedResult
  <2>. QED  BY <2>3, <2>4
<1>. QED  BY <1>2, <1>3

\* deallocate, of a pool that was kept and of any pool.
LEMMA DeallocatedIs ==
    ASSUME NEW p \in PoolType, NEW x \in Blocks, NEW q, q = Deallocated(p, x)
    PROVE  /\ q \in PoolType /\ q.start = p.start
           /\ \A L, b, w : KeptPool(p, L, b, w) /\ x \in L => KeptPool(q, L \ {x}, b, w)
<1>1. x.addr \in Nat \ {0} /\ x.size \in Nat \ {0} /\ MAX_BYTES \in Nat
  BY ListsAre DEF Blocks
<1>2. CASE x.size > MAX_BYTES
  <2>1. q = p
    BY <1>2 DEF Deallocated
  <2>2. ASSUME NEW L, NEW b, NEW w, KeptPool(p, L, b, w), x \in L
        PROVE  KeptMemory(p.free, L \ {x}, p.start, p.end, b, p.heap, w)
    <3>1. KeptMemory(p.free, L, p.start, p.end, b, p.heap, w)
      BY <2>2 DEF KeptPool
    <3>. QED  BY ONLY <1>2, <2>2, <3>1, DropKept
  <2>. QED  BY <2>1, <2>2 DEF KeptPool
<1>3. CASE ~(x.size > MAX_BYTES)
  <2>1. PICK l \in Lists : l = _S_freelist_index(x.size)
    BY <1>1, <1>3, SmallHasList
  <2>2. p.free \in FreeLists
    BY DEF PoolType
  <2>3. PICK g : g = Longer(p.free, l, x.addr)
    OBVIOUS
  <2>4. g \in FreeLists
    BY <1>1, <2>2, <2>3, PushLists
  <2>5. q = [p EXCEPT !.free = g]
    <3>1. q = [p EXCEPT !.free[l] = <<x.addr>> \o @]
      BY <1>3, <2>1 DEF Deallocated
    <3>. QED  BY <2>3, <3>1 DEF Longer, PoolType
  <2>6. q \in PoolType /\ q.free = g /\ q.start = p.start /\ q.end = p.end /\ q.heap = p.heap
    BY <2>4, <2>5 DEF PoolType
  <2>7. ASSUME NEW L, NEW b, NEW w, KeptPool(p, L, b, w), x \in L
        PROVE  KeptMemory(g, L \ {x}, p.start, p.end, b, p.heap, w)
    <3>1. KeptMemory(p.free, L, p.start, p.end, b, p.heap, w)
      BY <2>7 DEF KeptPool
    <3>. QED  BY ONLY <2>1, <2>3, <2>7, <3>1, PushKept
  <2>. QED  BY <2>6, <2>7 DEF KeptPool
<1>. QED  BY <1>2, <1>3

-----------------------------------------------------------------------------
(* The inductive invariant.                                                 *)

Wilds == {"no", "lost", "crossed"}

AllocInv ==
    /\ pool \in PoolType /\ live \in SUBSET Blocks /\ brk \in ALIGN .. MaxMemory /\ wild \in Wilds
    /\ wild # "crossed" => KeptPool(pool, live, brk, wild)

LEMMA AllocStarts == AllocInit => AllocInv
<1> SUFFICES ASSUME AllocInit  PROVE AllocInv
  OBVIOUS
<1>1. PICK f : f = [l \in Lists |-> <<>>]
  OBVIOUS
<1>2. /\ pool = [free |-> f, start |-> 0, end |-> 0, heap |-> 0] /\ live = {} /\ brk = ALIGN
      /\ wild = "no"
  BY <1>1 DEF AllocInit, Null
<1>3. f \in FreeLists /\ \A l \in Lists : f[l] = <<>> /\ Range(f[l]) = {} /\ Len(f[l]) = 0 /\ Distinct(f[l])
  <2>1. <<>> \in Seq(Nat \ {0}) /\ Len(<<>>) = 0 /\ Range(<<>>) = {}
    BY EmptyInSeq, RangeEmpty
  <2>2. Distinct(<<>>)
    BY <2>1 DEF Distinct
  <2>. QED  BY <1>1, <2>1, <2>2 DEF FreeLists
<1>4. pool \in PoolType /\ pool.free = f /\ pool.start = 0 /\ pool.end = 0 /\ pool.heap = 0
  BY <1>2, <1>3 DEF PoolType
<1>5. \A a, n : ~Piece(f, {}, a, n)
  BY <1>3 DEF Piece
<1>6. ALIGN \in Nat /\ ALIGN <= MaxMemory /\ MaxMemory \in Nat /\ ALIGN > 0
  BY SizesAssumption
<1>7. Good(f, {}, 0, 0, ALIGN)
  <2>1. Placed(f, {})
    BY <1>3 DEF Placed
  <2>2. Apart(f, {}) /\ Inside(f, {}, ALIGN)
    BY <1>5 DEF Apart, Inside
  <2>3. 0 - 0 = 0 /\ Multiple(0)
    BY <1>6 DEF Multiple
  <2>4. IsFiniteSet({}) /\ {} \in SUBSET Blocks
    BY FS_EmptySet
  <2>. QED  BY <1>3, <1>6, <2>1, <2>2, <2>3, <2>4 DEF Good
<1>8. Worth(f, {}) = 0
  <2>1. Small({}) = {} /\ IsFiniteSet({})
    BY FS_EmptySet DEF Small
  <2>2. Total(HeldOf, Small({})) = 0
    BY <2>1, TotalZero
  <2>3. \A l \in Lists : FreeOf(f)[l] = 0
    BY <1>3, SizeIs DEF FreeOf
  <2>4. Total(FreeOf(f), Lists) = 0
    BY <2>3, ListsAre, TotalZero
  <2>. QED  BY <2>2, <2>4 DEF Worth
<1>9. KeptMemory(f, {}, 0, 0, ALIGN, 0, "no")
  BY <1>7, <1>8 DEF KeptMemory
<1>10. KeptPool(pool, live, brk, wild)
  BY <1>2, <1>4, <1>9 DEF KeptPool
<1>. QED  BY <1>2, <1>4, <1>6, <1>10 DEF AllocInv, Wilds

\* What giving up says of the n bytes that were asked for.
LastFor(n) == pool.start # Null /\ pool'.start = Null => NothingFor(n)

LEMMA AllocateSteps ==
    ASSUME AllocInv, NEW n \in Requests, allocate(n)
    PROVE  AllocInv' /\ LastFor(n)
<1>1. /\ wild # "crossed" /\ KeptPool(pool, live, brk, wild) /\ brk \in ALIGN .. MaxMemory
      /\ live \in SUBSET Blocks /\ wild \in Wilds
  BY DEF AllocInv, allocate
<1>2. PICK o \in Allocated(n) :
         /\ pool' = o.pool /\ brk' = o.brk /\ wild' = o.wild
         /\ live' = IF o.addr = Null THEN live ELSE live \cup {[addr |-> o.addr, size |-> n]}
  BY DEF allocate
<1>3. Result(o, n)
  BY <1>1, <1>2, AllocatedIs
<1>4. /\ o.pool \in PoolType /\ o.wild \in Wilds /\ o.brk \in ALIGN .. MaxMemory
  BY <1>1, <1>3, SizesAssumption DEF Result, Wilds
<1>5. LastFor(n)
  BY <1>2, <1>3 DEF Result, LastFor, Null
<1>6. CASE o.addr = 0
  <2>1. live' = live
    BY <1>2, <1>6 DEF Null
  <2>. QED  BY <1>1, <1>2, <1>3, <1>4, <1>5, <1>6, <2>1 DEF AllocInv, Result
<1>7. CASE o.addr # 0
  <2>1. PICK y : y = Block(o.addr, n)
    OBVIOUS
  <2>2. live' = live \cup {y}
    BY <1>2, <1>7, <2>1 DEF Null, Block
  <2>3. o.addr \in Nat \ {0} /\ (o.wild # "crossed" => KeptPool(o.pool, live \cup {y}, o.brk, o.wild))
    BY <1>3, <1>7, <2>1 DEF Result
  <2>4. y \in Blocks
    BY <2>1, <2>3 DEF Block, Blocks
  <2>. QED  BY <1>1, <1>2, <1>4, <1>5, <2>2, <2>3, <2>4 DEF AllocInv
<1>. QED  BY <1>6, <1>7

LEMMA DeallocateSteps ==
    ASSUME AllocInv, NEW x \in live, deallocate(x)
    PROVE  AllocInv'
<1>1. /\ wild # "crossed" /\ KeptPool(pool, live, brk, wild) /\ brk \in ALIGN .. MaxMemory
      /\ live \in SUBSET Blocks /\ wild \in Wilds /\ pool \in PoolType
  BY DEF AllocInv, deallocate
<1>2. pool' = Deallocated(pool, x) /\ live' = live \ {x} /\ brk' = brk /\ wild' = wild
  BY DEF deallocate
<1>3. PICK q : q = Deallocated(pool, x)
  OBVIOUS
<1>4. q \in PoolType /\ q.start = pool.start /\ KeptPool(q, live \ {x}, brk, wild)
  <2>1. x \in Blocks
    BY <1>1
  <2>. QED  BY <1>1, <1>3, <2>1, DeallocatedIs
<1>. QED  BY <1>1, <1>2, <1>3, <1>4 DEF AllocInv

LEMMA ReallocateSteps ==
    ASSUME AllocInv, NEW x \in live, NEW n \in Requests, reallocate(x, n)
    PROVE  AllocInv' /\ LastFor(n)
<1>1. /\ wild # "crossed" /\ KeptPool(pool, live, brk, wild) /\ brk \in ALIGN .. MaxMemory
      /\ live \in SUBSET Blocks /\ wild \in Wilds /\ pool \in PoolType /\ x \in Blocks
  BY DEF AllocInv, reallocate
<1>2. CASE /\ IF Large(x, n) THEN n <= x.size ELSE SameList(x, n)
           /\ live' = (live \ {x}) \cup {[x EXCEPT !.size = n]}
           /\ UNCHANGED <<pool, brk, wild>>
  <2>1. PICK y : y = Block(x.addr, n)
    OBVIOUS
  <2>2. y = [x EXCEPT !.size = n] /\ y \in Blocks
    BY <1>1, <2>1 DEF Block, Blocks
  <2>3. \/ x.size > MAX_BYTES /\ n > MAX_BYTES /\ n <= x.size
        \/ _S_round_up(x.size) = _S_round_up(n)
    BY <1>2 DEF Large, SameList
  <2>4. KeptMemory(pool.free, (live \ {x}) \cup {y}, pool.start, pool.end, brk, pool.heap, wild)
    <3>1. KeptMemory(pool.free, live, pool.start, pool.end, brk, pool.heap, wild)
      BY <1>1 DEF KeptPool
    <3>. QED  BY ONLY <2>1, <2>3, <3>1, x \in live, n \in Requests, ResizeKept
  <2>5. KeptPool(pool, (live \ {x}) \cup {y}, brk, wild)
    BY <1>1, <2>4 DEF KeptPool
  <2>6. pool' = pool /\ brk' = brk /\ wild' = wild /\ live' = (live \ {x}) \cup {y}
    BY <1>2, <2>2
  <2>7. live' \in SUBSET Blocks
    BY <1>1, <2>2, <2>6
  <2>. QED  BY <1>1, <2>5, <2>6, <2>7 DEF AllocInv, LastFor
<1>3. CASE \E o \in Allocated(n) :
               /\ brk' = o.brk /\ wild' = o.wild
               /\ IF o.addr = Null
                  THEN pool' = o.pool /\ UNCHANGED live
                  ELSE /\ pool' = Deallocated(o.pool, x)
                       /\ live' = (live \ {x}) \cup {[addr |-> o.addr, size |-> n]}
  <2>1. PICK o \in Allocated(n) :
               /\ brk' = o.brk /\ wild' = o.wild
               /\ IF o.addr = Null
                  THEN pool' = o.pool /\ UNCHANGED live
                  ELSE /\ pool' = Deallocated(o.pool, x)
                       /\ live' = (live \ {x}) \cup {[addr |-> o.addr, size |-> n]}
    BY <1>3
  <2>2. Result(o, n)
    BY <1>1, <2>1, AllocatedIs
  <2>3. /\ o.pool \in PoolType /\ o.wild \in Wilds /\ o.brk \in ALIGN .. MaxMemory
    BY <1>1, <2>2, SizesAssumption DEF Result, Wilds
  <2>4. ASSUME pool'.start = o.pool.start  PROVE LastFor(n)
    BY <2>2, <2>4 DEF Result, LastFor, Null
  <2>5. CASE o.addr = 0
    <3>1. live' = live /\ pool' = o.pool
      BY <2>1, <2>5 DEF Null
    <3>. QED  BY <1>1, <2>1, <2>2, <2>3, <2>4, <2>5, <3>1 DEF AllocInv, Result
  <2>6. CASE o.addr # 0
    <3>1. PICK y : y = Block(o.addr, n)
      OBVIOUS
    <3>2. PICK q : q = Deallocated(o.pool, x)
      OBVIOUS
    <3>3. live' = (live \ {x}) \cup {y} /\ pool' = q
      BY <2>1, <2>6, <3>1, <3>2 DEF Null, Block
    <3>4. /\ o.addr \in Nat \ {0}
          /\ o.wild # "crossed" => y \notin live /\ KeptPool(o.pool, live \cup {y}, o.brk, o.wild)
      BY <2>2, <2>6, <3>1 DEF Result
    <3>5. y \in Blocks
      BY <3>1, <3>4 DEF Block, Blocks
    <3>6. /\ q \in PoolType /\ q.start = o.pool.start
          /\ \A L, b, w : KeptPool(o.pool, L, b, w) /\ x \in L => KeptPool(q, L \ {x}, b, w)
      BY <1>1, <2>3, <3>2, DeallocatedIs
    <3>7. ASSUME o.wild # "crossed"  PROVE KeptPool(q, live', o.brk, o.wild)
      <4>1. KeptPool(q, (live \cup {y}) \ {x}, o.brk, o.wild)
        BY <3>4, <3>6, <3>7
      <4>2. (live \cup {y}) \ {x} = live'
        BY <3>3, <3>4, <3>7
      <4>. QED  BY <4>1, <4>2
    <3>8. live' \in SUBSET Blocks
      BY <1>1, <3>3, <3>5
    <3>. QED  BY <2>1, <2>3, <2>4, <3>3, <3>6, <3>7, <3>8 DEF AllocInv
  <2>. QED  BY <2>5, <2>6
<1>. QED  BY <1>2, <1>3 DEF reallocate

LEMMA AllocSteps ==
    ASSUME AllocInv, AllocNext
    PROVE  AllocInv'
BY AllocateSteps, DeallocateSteps, ReallocateSteps DEF AllocNext

LEMMA AllocStutters ==
    ASSUME AllocInv, UNCHANGED allocVars
    PROVE  AllocInv'
BY DEF AllocInv, allocVars, KeptPool

\* Memory is kept as AllocInv says, through every order of calls and every
\* failure of malloc, until a refill stores its objects in another list.
THEOREM AllocInvHolds == AllocSpec => []AllocInv
<1>1. AllocInv /\ [AllocNext]_allocVars => AllocInv'
  BY AllocSteps, AllocStutters
<1>. QED  BY <1>1, AllocStarts, PTL DEF AllocSpec

\* What GivesUpLast says of a step.
LastResort ==
    pool.start # Null /\ pool'.start = Null =>
        \A n \in Requests : allocate(n) \/ (\E b \in live : reallocate(b, n)) =>
            /\ Left(pool) < _S_round_up(n)
            /\ \A l \in Lists : l >= _S_freelist_index(n) => pool.free[l] = <<>>

\* GivesUpLast: _S_chunk_alloc empties the pool and gives up only when the pool
\* is smaller than the n bytes that were asked for, rounded up, and no list of
\* that size or a larger one has an object.
THEOREM AllocGivesUpLast == AllocSpec => GivesUpLast
<1>1. AllocInv /\ [AllocNext]_allocVars => [LastResort]_allocVars
  <2>1. ASSUME AllocInv, NEW n \in Requests, allocate(n) \/ (\E b \in live : reallocate(b, n))
        PROVE  LastFor(n)
    BY <2>1, AllocateSteps, ReallocateSteps
  <2>. QED  BY <2>1 DEF LastResort, LastFor, NothingFor
<1>2. AllocSpec => [][LastResort]_allocVars
  BY <1>1, AllocInvHolds, PTL DEF AllocSpec
<1>. QED  BY <1>2 DEF GivesUpLast, LastResort

-----------------------------------------------------------------------------
(* The sums of the properties.                                              *)

LEMMA HeldSum ==
    ASSUME NEW S \in SUBSET Blocks
    PROVE  Sum(LAMBDA b : _S_round_up(b.size), S) = Total(HeldOf, S)
<1>1. \A s \in SUBSET S : s # {} => HeldOf[AnyOf(s)] = _S_round_up(AnyOf(s).size)
  <2>1. \A s \in SUBSET S : s # {} => AnyOf(s) \in Blocks
    BY DEF AnyOf
  <2>. QED  BY <2>1, HeldIsNat
<1>2. ASSUME NEW g
      PROVE  g = [s \in SUBSET S |->
                    IF s = {} THEN 0
                    ELSE _S_round_up((CHOOSE x \in s : TRUE).size) + g[s \ {CHOOSE x \in s : TRUE}]]
             <=> SumsUp(g, HeldOf, S)
  BY <1>1 DEF SumsUp, AnyOf
<1>. QED  BY <1>2, Zenon DEF Sum, MapThenSumSet, MapThenFoldSet, Total

LEMMA FreeSum ==
    ASSUME NEW f \in FreeLists
    PROVE  Sum(LAMBDA l : Len(f[l]) * (l + 1) * ALIGN, Lists) = Total(FreeOf(f), Lists)
<1>1. \A l \in Lists : FreeOf(f)[l] = Len(f[l]) * (l + 1) * ALIGN
  <2>1. SUFFICES ASSUME NEW l \in Lists  PROVE FreeOf(f)[l] = Len(f[l]) * (l + 1) * ALIGN
    OBVIOUS
  <2>2. FreeOf(f)[l] = Len(f[l]) * SizeOf(l) /\ Len(f[l]) \in Nat
    BY FreeIsNat
  <2>3. \A i, j, k \in Nat : i * (j * k) = (i * j) * k
    OBVIOUS
  <2>4. l + 1 \in Nat /\ ALIGN \in Nat
    BY ListsAre, SizeIs
  <2>. QED  BY <2>2, <2>3, <2>4 DEF SizeOf
<1>2. \A s \in SUBSET Lists : s # {} =>
        FreeOf(f)[AnyOf(s)] = Len(f[AnyOf(s)]) * (AnyOf(s) + 1) * ALIGN
  <2>1. \A s \in SUBSET Lists : s # {} => AnyOf(s) \in Lists
    BY DEF AnyOf
  <2>. QED  BY <1>1, <2>1
<1>3. ASSUME NEW g
      PROVE  g = [s \in SUBSET Lists |->
                    IF s = {} THEN 0
                    ELSE Len(f[CHOOSE x \in s : TRUE]) * ((CHOOSE x \in s : TRUE) + 1) * ALIGN
                           + g[s \ {CHOOSE x \in s : TRUE}]]
             <=> SumsUp(g, FreeOf(f), Lists)
  BY <1>2 DEF SumsUp, AnyOf
<1>. QED  BY <1>3, Zenon DEF Sum, MapThenSumSet, MapThenFoldSet, Total

LEMMA FreeBytesIs ==
    ASSUME pool \in PoolType
    PROVE  FreeBytes = Total(FreeOf(pool.free), Lists)
<1>1. pool.free \in FreeLists
  BY DEF PoolType
<1>2. PICK f \in FreeLists : f = pool.free
  BY <1>1
<1>3. Sum(LAMBDA l : Len(f[l]) * (l + 1) * ALIGN, Lists) = Total(FreeOf(f), Lists)
  BY FreeSum
<1>. QED  BY <1>2, <1>3, ZenonT(60) DEF FreeBytes, Sum, MapThenSumSet, MapThenFoldSet

\* Accounted: _S_heap_size is the sum of the small blocks held, the objects on
\* the lists and the pool, unless a refill lost the objects it made.
THEOREM AllocAccounted == AllocSpec => []Accounted
<1>1. AllocInv => Accounted
  <2>1. SUFFICES ASSUME AllocInv, wild = "no"
                 PROVE  pool.heap = Sum(LAMBDA b : _S_round_up(b.size), {b \in live : b.size <= MAX_BYTES})
                          + FreeBytes + Left(pool)
    BY DEF Accounted
  <2>2. pool \in PoolType /\ KeptMemory(pool.free, live, pool.start, pool.end, brk, pool.heap, wild)
    BY <2>1 DEF AllocInv, KeptPool
  <2>3. pool.heap = Worth(pool.free, live) + (pool.end - pool.start)
    BY <2>1, <2>2 DEF KeptMemory
  <2>4. {b \in live : b.size <= MAX_BYTES} = Small(live) /\ Small(live) \in SUBSET Blocks
    BY <2>1 DEF Small, AllocInv
  <2>5. Sum(LAMBDA b : _S_round_up(b.size), {b \in live : b.size <= MAX_BYTES}) = Total(HeldOf, Small(live))
    BY <2>4, HeldSum
  <2>6. FreeBytes = Total(FreeOf(pool.free), Lists)
    BY <2>2, FreeBytesIs
  <2>. QED  BY <2>3, <2>5, <2>6 DEF Worth, Left
<1>. QED  BY <1>1, AllocInvHolds, PTL

-----------------------------------------------------------------------------
(* The bytes that are covered, counted.                                     *)

LEMMA BytesIs ==
    ASSUME NEW a \in Nat, NEW n \in Nat
    PROVE  /\ IsFiniteSet(Bytes(a, n)) /\ Cardinality(Bytes(a, n)) = n
           /\ \A x : x \in Bytes(a, n) <=> x \in Int /\ a <= x /\ x < a + n
<1>1. a + n - 1 \in Int /\ a \in Int
  OBVIOUS
<1>2. /\ IsFiniteSet(a .. a + n - 1)
      /\ Cardinality(a .. a + n - 1) = IF a > a + n - 1 THEN 0 ELSE (a + n - 1) - a + 1
  BY <1>1, FS_Interval
<1>3. Cardinality(a .. a + n - 1) = n
  BY <1>2
<1>4. \A x : x \in a .. a + n - 1 <=> x \in Int /\ a <= x /\ x < a + n
  OBVIOUS
<1>. QED  BY <1>2, <1>3, <1>4 DEF Bytes

LEMMA PiecesApart ==
    ASSUME NEW f \in FreeLists, NEW L \in SUBSET Blocks, Apart(f, L),
           NEW a, NEW n, NEW c, NEW m, Piece(f, L, a, n), Piece(f, L, c, m), a # c
    PROVE  Bytes(a, n) \cap Bytes(c, m) = {}
<1>1. a \in Nat /\ n \in Nat /\ c \in Nat /\ m \in Nat
  BY PieceIs
<1>2. Beside(a, n, c, m)
  BY <1>1 DEF Apart
<1>3. SUFFICES ASSUME NEW x \in Bytes(a, n), x \in Bytes(c, m)  PROVE FALSE
  OBVIOUS
<1>4. x \in Int /\ a <= x /\ x < a + n /\ c <= x /\ x < c + m
  BY <1>1, <1>3, BytesIs
<1>. QED  BY <1>1, <1>2, <1>4 DEF Beside

HeldBytesOf(L)    == [x \in L |-> Bytes(x.addr, _S_round_up(x.size))]
ObjectsOf(f, l)   == [a \in Range(f[l]) |-> Bytes(a, SizeOf(l))]
ListBytesOf(f)    == [l \in Lists |-> UnionOf(ObjectsOf(f, l), Range(f[l]))]

LEMMA HeldCovers ==
    ASSUME NEW f \in FreeLists, NEW L \in SUBSET Blocks, IsFiniteSet(L), Apart(f, L), Placed(f, L)
    PROVE  /\ IsFiniteSet(UnionOf(HeldBytesOf(L), L))
           /\ Cardinality(UnionOf(HeldBytesOf(L), L)) = Total(HeldOf, L)
<1>1. PICK F : F = HeldBytesOf(L)
  OBVIOUS
<1>2. ASSUME NEW x \in L
      PROVE  /\ F[x] = Bytes(x.addr, _S_round_up(x.size)) /\ IsFiniteSet(F[x])
             /\ Cardinality(F[x]) = HeldOf[x] /\ HeldOf[x] \in Int
             /\ Piece(f, L, x.addr, _S_round_up(x.size))
  <2>1. x.addr \in Nat /\ _S_round_up(x.size) = HeldOf[x] /\ HeldOf[x] \in Nat
    BY HeldIsNat DEF Blocks
  <2>2. F[x] = Bytes(x.addr, _S_round_up(x.size))
    BY <1>1 DEF HeldBytesOf
  <2>3. Piece(f, L, x.addr, _S_round_up(x.size))
    BY DEF Piece
  <2>. QED  BY <2>1, <2>2, <2>3, BytesIs
<1>3. ASSUME NEW x \in L, NEW y \in L, x # y  PROVE F[x] \cap F[y] = {}
  <2>1. x.addr # y.addr
    BY <1>3 DEF Placed
  <2>. QED  BY <1>2, <2>1, PiecesApart
<1>4. PICK g : g = [x \in L |-> Cardinality(F[x])]
  OBVIOUS
<1>5. /\ IsFiniteSet(UnionOf(F, L)) /\ Cardinality(UnionOf(F, L)) = Total(g, L)
  BY <1>2, <1>3, <1>4, UnionCount
<1>6. Total(HeldOf, L) = Total(g, L)
  <2>1. \A x \in L : HeldOf[x] \in Int /\ g[x] = HeldOf[x]
    BY <1>2, <1>4
  <2>. QED  BY <2>1, TotalSame
<1>. QED  BY <1>1, <1>5, <1>6

\* A list that holds nothing twice has as many members as places.
LEMMA DistinctCount ==
    ASSUME NEW S, NEW q \in Seq(S), Distinct(q)
    PROVE  IsFiniteSet(Range(q)) /\ Cardinality(Range(q)) = Len(q)
<1>1. Len(q) \in Nat /\ DOMAIN q = 1 .. Len(q) /\ q \in [1 .. Len(q) -> Range(q)]
  BY DEF Range
<1>2. IsFiniteSet(1 .. Len(q)) /\ Cardinality(1 .. Len(q)) = Len(q)
  BY <1>1, FS_Interval
<1>3. \A i, j \in 1 .. Len(q) : q[i] = q[j] => i = j
  BY DEF Distinct
<1>4. \A x \in Range(q) : \E i \in 1 .. Len(q) : q[i] = x
  BY <1>1 DEF Range
<1>5. q \in Bijection(1 .. Len(q), Range(q))
  BY <1>1, <1>3, <1>4 DEF Bijection, Injection, Surjection, IsInjective
<1>6. ExistsBijection(1 .. Len(q), Range(q))
  BY <1>5 DEF ExistsBijection
<1>. QED  BY <1>2, <1>6, FS_Bijection

LEMMA ListCovers ==
    ASSUME NEW f \in FreeLists, NEW L \in SUBSET Blocks, Apart(f, L), Placed(f, L), NEW l \in Lists
    PROVE  /\ IsFiniteSet(ListBytesOf(f)[l])
           /\ Cardinality(ListBytesOf(f)[l]) = FreeOf(f)[l]
<1>1. PICK F : F = ObjectsOf(f, l)
  OBVIOUS
<1>2. PICK z \in Nat : z = SizeOf(l)
  BY SizeIs
<1>3. PICK S : S = Range(f[l]) /\ IsFiniteSet(S) /\ Cardinality(S) = Len(f[l]) /\ S \subseteq Nat
  <2>1. f[l] \in Seq(Nat \ {0}) /\ Distinct(f[l])
    BY DEF FreeLists, Placed
  <2>2. Range(f[l]) \subseteq Nat \ {0}
    BY <2>1, RangeType
  <2>. QED  BY <2>1, <2>2, DistinctCount
<1>4. ASSUME NEW a \in S
      PROVE  F[a] = Bytes(a, z) /\ IsFiniteSet(F[a]) /\ Cardinality(F[a]) = z /\ Piece(f, L, a, z)
  <2>1. F[a] = Bytes(a, z)
    BY <1>1, <1>2, <1>3 DEF ObjectsOf
  <2>2. Piece(f, L, a, z)
    BY <1>2, <1>3 DEF Piece
  <2>. QED  BY <1>3, <2>1, <2>2, BytesIs
<1>5. ASSUME NEW a \in S, NEW c \in S, a # c  PROVE F[a] \cap F[c] = {}
  BY <1>4, <1>5, PiecesApart
<1>6. PICK g : g = [a \in S |-> Cardinality(F[a])]
  OBVIOUS
<1>7. IsFiniteSet(UnionOf(F, S)) /\ Cardinality(UnionOf(F, S)) = Total(g, S)
  BY <1>3, <1>4, <1>5, <1>6, UnionCount
<1>8. Total(g, S) = Cardinality(S) * z
  <2>1. \A a \in S : g[a] = z
    BY <1>4, <1>6
  <2>. QED  BY <1>3, <2>1, TotalConst
<1>9. ListBytesOf(f)[l] = UnionOf(F, S)
  BY <1>1, <1>3 DEF ListBytesOf
<1>10. FreeOf(f)[l] = Len(f[l]) * SizeOf(l)
  BY FreeIsNat
<1>. QED  BY <1>2, <1>3, <1>7, <1>8, <1>9, <1>10

LEMMA InListBytes ==
    ASSUME NEW f, NEW l \in Lists, NEW x
    PROVE  x \in ListBytesOf(f)[l] <=> \E a \in Range(f[l]) : x \in Bytes(a, SizeOf(l))
BY DEF ListBytesOf, UnionOf, ObjectsOf

LEMMA ListsCover ==
    ASSUME NEW f \in FreeLists, NEW L \in SUBSET Blocks, Apart(f, L), Placed(f, L)
    PROVE  /\ IsFiniteSet(UnionOf(ListBytesOf(f), Lists))
           /\ Cardinality(UnionOf(ListBytesOf(f), Lists)) = Total(FreeOf(f), Lists)
<1>1. PICK F : F = ListBytesOf(f)
  OBVIOUS
<1>2. \A l \in Lists : IsFiniteSet(F[l]) /\ Cardinality(F[l]) = FreeOf(f)[l]
  BY <1>1, ListCovers
<1>3. ASSUME NEW l \in Lists, NEW k \in Lists, l # k  PROVE F[l] \cap F[k] = {}
  <2>1. SUFFICES ASSUME NEW x, x \in F[l], x \in F[k]  PROVE FALSE
    OBVIOUS
  <2>2. PICK a \in Range(f[l]) : x \in Bytes(a, SizeOf(l))
    BY <1>1, <2>1, InListBytes
  <2>3. PICK c \in Range(f[k]) : x \in Bytes(c, SizeOf(k))
    BY <1>1, <2>1, InListBytes
  <2>4. Piece(f, L, a, SizeOf(l)) /\ Piece(f, L, c, SizeOf(k))
    BY DEF Piece
  <2>5. a # c
    BY <1>3 DEF Placed
  <2>6. Bytes(a, SizeOf(l)) \cap Bytes(c, SizeOf(k)) = {}
    BY <2>4, <2>5, PiecesApart
  <2>. QED  BY <2>2, <2>3, <2>6
<1>4. PICK g : g = [l \in Lists |-> Cardinality(F[l])]
  OBVIOUS
<1>5. IsFiniteSet(UnionOf(F, Lists)) /\ Cardinality(UnionOf(F, Lists)) = Total(g, Lists)
  BY <1>2, <1>3, <1>4, ListsAre, UnionCount
<1>6. Total(FreeOf(f), Lists) = Total(g, Lists)
  <2>1. \A l \in Lists : FreeOf(f)[l] \in Int /\ g[l] = FreeOf(f)[l]
    BY <1>2, <1>4, FreeIsNat
  <2>. QED  BY <2>1, ListsAre, TotalSame
<1>. QED  BY <1>1, <1>5, <1>6

LEMMA CountThree ==
    ASSUME NEW A, NEW B, NEW D, IsFiniteSet(A), IsFiniteSet(B), IsFiniteSet(D),
           A \cap B = {}, A \cap D = {}, B \cap D = {}
    PROVE  Cardinality((A \cup B) \cup D) = Cardinality(A) + Cardinality(B) + Cardinality(D)
<1>1. ASSUME NEW S, NEW T, IsFiniteSet(S), IsFiniteSet(T), S \cap T = {}
      PROVE  IsFiniteSet(S \cup T) /\ Cardinality(S \cup T) = Cardinality(S) + Cardinality(T)
  <2>1. IsFiniteSet(S \cup T) /\ Cardinality(S \cup T) = Cardinality(S) + Cardinality(T) - Cardinality(S \cap T)
    BY <1>1, FS_Union
  <2>2. Cardinality(S \cap T) = 0 /\ Cardinality(S) \in Nat /\ Cardinality(T) \in Nat
    BY <1>1, FS_EmptySet, FS_CardinalityType
  <2>. QED  BY <2>1, <2>2
<1>2. PICK E : E = A \cup B
  OBVIOUS
<1>3. IsFiniteSet(E) /\ Cardinality(E) = Cardinality(A) + Cardinality(B) /\ E \cap D = {}
  BY <1>1, <1>2
<1>4. Cardinality(E \cup D) = Cardinality(E) + Cardinality(D)
  BY <1>1, <1>3
<1>. QED  BY <1>2, <1>3, <1>4, Zenon

LEMMA GoodCovers ==
    ASSUME NEW f, NEW L, NEW s, NEW e, NEW b, Good(f, L, s, e, b),
           NEW A, A = UnionOf(HeldBytesOf(L), L), NEW B, B = UnionOf(ListBytesOf(f), Lists),
           NEW D, D = Bytes(s, e - s)
    PROVE  /\ (A \cup B) \cup D \subseteq ALIGN .. b - 1
           /\ Cardinality((A \cup B) \cup D) = Total(HeldOf, L) + Total(FreeOf(f), Lists) + (e - s)
<1>1. /\ f \in FreeLists /\ L \in SUBSET Blocks /\ IsFiniteSet(L)
      /\ s \in Nat /\ e \in Nat /\ b \in Nat /\ Apart(f, L) /\ Inside(f, L, b) /\ Placed(f, L)
      /\ Multiple(e - s) /\ ALIGN \in Nat
  BY ListsAre DEF Good
<1>2. e - s \in Nat
  BY <1>1, MultipleSum
<1>3. \A x : x \in D <=> x \in Int /\ s <= x /\ x < e
  <2>1. s + (e - s) = e
    BY <1>1
  <2>. QED  BY <1>1, <1>2, <2>1, BytesIs
<1>4. ASSUME NEW x \in A
      PROVE  \E v \in L : x \in Bytes(v.addr, _S_round_up(v.size)) /\ Piece(f, L, v.addr, _S_round_up(v.size))
  <2>1. PICK v \in L : x \in HeldBytesOf(L)[v]
    BY <1>4 DEF UnionOf
  <2>2. x \in Bytes(v.addr, _S_round_up(v.size))
    BY <2>1 DEF HeldBytesOf
  <2>3. Piece(f, L, v.addr, _S_round_up(v.size))
    BY DEF Piece
  <2>. QED  BY <2>2, <2>3
<1>5. ASSUME NEW x \in B
      PROVE  \E l \in Lists : \E a \in Range(f[l]) : x \in Bytes(a, SizeOf(l)) /\ Piece(f, L, a, SizeOf(l))
  <2>1. PICK l \in Lists : x \in ListBytesOf(f)[l]
    BY <1>5 DEF UnionOf
  <2>2. PICK a \in Range(f[l]) : x \in Bytes(a, SizeOf(l))
    BY <2>1, InListBytes
  <2>3. Piece(f, L, a, SizeOf(l))
    BY DEF Piece
  <2>. QED  BY <2>2, <2>3
<1>6. ASSUME NEW x, NEW a, NEW n, Piece(f, L, a, n), x \in Bytes(a, n)
      PROVE  x \in ALIGN .. b - 1 /\ x \notin D
  <2>1. a \in Nat /\ n \in Nat
    BY <1>1, <1>6, PieceIs
  <2>2. x \in Int /\ a <= x /\ x < a + n
    BY <1>6, <2>1, BytesIs
  <2>3. ALIGN <= a /\ a + n <= b
    BY <1>1, <1>6, <2>1 DEF Inside
  <2>4. CASE s # e
    <3>1. a + n <= s \/ e <= a
      BY <1>6, <2>1, <2>4 DEF Good, Clear
    <3>. QED  BY <1>1, <1>3, <2>1, <2>2, <2>3, <3>1
  <2>5. CASE s = e
    BY <1>1, <1>3, <2>1, <2>2, <2>3, <2>5
  <2>. QED  BY <2>4, <2>5
<1>7. D \subseteq ALIGN .. b - 1
  <2>1. SUFFICES ASSUME NEW x \in D  PROVE x \in ALIGN .. b - 1
    OBVIOUS
  <2>2. x \in Int /\ s <= x /\ x < e /\ s # e
    BY <1>1, <1>3, <2>1
  <2>3. ALIGN <= s /\ e <= b
    BY <2>2 DEF Good
  <2>. QED  BY <1>1, <2>2, <2>3
<1>8. A \subseteq ALIGN .. b - 1 /\ A \cap D = {} /\ B \subseteq ALIGN .. b - 1 /\ B \cap D = {}
  BY <1>4, <1>5, <1>6
<1>9. A \cap B = {}
  <2>1. SUFFICES ASSUME NEW x \in A, x \in B  PROVE FALSE
    OBVIOUS
  <2>2. PICK v \in L : x \in Bytes(v.addr, _S_round_up(v.size)) /\ Piece(f, L, v.addr, _S_round_up(v.size))
    BY <1>4
  <2>3. PICK l \in Lists : \E a \in Range(f[l]) : x \in Bytes(a, SizeOf(l)) /\ Piece(f, L, a, SizeOf(l))
    BY <1>5, <2>1
  <2>4. PICK a \in Range(f[l]) : x \in Bytes(a, SizeOf(l)) /\ Piece(f, L, a, SizeOf(l))
    BY <2>3
  <2>5. v.addr # a
    BY <1>1 DEF Placed
  <2>6. Bytes(v.addr, _S_round_up(v.size)) \cap Bytes(a, SizeOf(l)) = {}
    BY <1>1, <2>2, <2>4, <2>5, PiecesApart
  <2>. QED  BY <2>2, <2>4, <2>6
<1>10. /\ IsFiniteSet(A) /\ Cardinality(A) = Total(HeldOf, L)
       /\ IsFiniteSet(B) /\ Cardinality(B) = Total(FreeOf(f), Lists)
  BY <1>1, HeldCovers, ListsCover
<1>11. IsFiniteSet(D) /\ Cardinality(D) = e - s
  BY <1>1, <1>2, BytesIs
<1>12. Cardinality((A \cup B) \cup D) = Cardinality(A) + Cardinality(B) + Cardinality(D)
  BY <1>8, <1>9, <1>10, <1>11, CountThree
<1>. QED  BY <1>7, <1>8, <1>10, <1>11, <1>12

\* Disjoint: blocks, free objects and pool never share a byte and never leave
\* what malloc gave, for every alignment, size limit and refill count.
THEOREM AllocDisjoint == AllocSpec => []Disjoint
<1>1. AllocInv => AllocTypeOK
  <2>1. SUFFICES ASSUME AllocInv  PROVE AllocTypeOK
    OBVIOUS
  <2>2. /\ pool.free \in FreeLists /\ pool.start \in Nat /\ pool.end \in Nat /\ pool.heap \in Nat
        /\ \A x \in live : x.addr \in Nat \ {0} /\ x.size \in Requests
    BY <2>1 DEF AllocInv, PoolType, Blocks
  <2>. QED  BY <2>1, <2>2 DEF AllocTypeOK, AllocInv, Wilds, FreeLists, Null
<1>2. ASSUME AllocInv, wild # "crossed"
      PROVE  /\ Left(pool) >= 0 /\ Covered \subseteq ALIGN .. brk - 1
             /\ Cardinality(Covered) = HeldBytes + FreeBytes + Left(pool)
  <2>1. /\ pool \in PoolType /\ live \in SUBSET Blocks
        /\ KeptMemory(pool.free, live, pool.start, pool.end, brk, pool.heap, wild)
    BY <1>2 DEF AllocInv, KeptPool
  <2>2. Good(pool.free, live, pool.start, pool.end, brk) /\ pool.end - pool.start \in Nat
    BY <2>1, KeptFacts
  <2>3. PICK A : A = UnionOf(HeldBytesOf(live), live)
    OBVIOUS
  <2>4. PICK B : B = UnionOf(ListBytesOf(pool.free), Lists)
    OBVIOUS
  <2>5. PICK D : D = Bytes(pool.start, pool.end - pool.start)
    OBVIOUS
  <2>6. /\ (A \cup B) \cup D \subseteq ALIGN .. brk - 1
        /\ Cardinality((A \cup B) \cup D)
             = Total(HeldOf, live) + Total(FreeOf(pool.free), Lists) + (pool.end - pool.start)
    <3>1. PICK f : f = pool.free
      OBVIOUS
    <3>2. PICK s : s = pool.start
      OBVIOUS
    <3>3. PICK e : e = pool.end
      OBVIOUS
    <3>4. Good(f, live, s, e, brk) /\ B = UnionOf(ListBytesOf(f), Lists) /\ D = Bytes(s, e - s)
      BY <2>2, <2>4, <2>5, <3>1, <3>2, <3>3
    <3>5. /\ (A \cup B) \cup D \subseteq ALIGN .. brk - 1
          /\ Cardinality((A \cup B) \cup D) = Total(HeldOf, live) + Total(FreeOf(f), Lists) + (e - s)
      BY ONLY <2>3, <3>4, GoodCovers
    <3>. QED  BY <3>1, <3>2, <3>3, <3>5, Zenon
  <2>7. A = UNION {Bytes(b.addr, _S_round_up(b.size)) : b \in live}
    BY <2>3 DEF UnionOf, HeldBytesOf
  <2>8. B = UNION {UNION {Bytes(a, (l + 1) * ALIGN) : a \in Range(pool.free[l])} : l \in Lists}
    BY <2>4 DEF UnionOf, ListBytesOf, ObjectsOf, SizeOf
  <2>9. Covered = (A \cup B) \cup D
    <3>1. D = Bytes(pool.start, Left(pool))
      BY <2>5 DEF Left
    <3>2. \A x : x \in Covered <=>
            \/ \E b \in live : x \in Bytes(b.addr, _S_round_up(b.size))
            \/ \E l \in Lists : \E a \in Range(pool.free[l]) : x \in Bytes(a, (l + 1) * ALIGN)
            \/ x \in Bytes(pool.start, Left(pool))
      BY DEF Covered
    <3>3. \A x : x \in A <=> \E b \in live : x \in Bytes(b.addr, _S_round_up(b.size))
      BY <2>7
    <3>4. \A x : x \in B <=>
            \E l \in Lists : \E a \in Range(pool.free[l]) : x \in Bytes(a, (l + 1) * ALIGN)
      BY <2>8
    <3>. QED  BY <3>1, <3>2, <3>3, <3>4
  <2>10. HeldBytes = Total(HeldOf, live) /\ FreeBytes = Total(FreeOf(pool.free), Lists)
    BY <2>1, HeldSum, FreeBytesIs DEF HeldBytes
  <2>. QED  BY <2>2, <2>6, <2>9, <2>10 DEF Left
<1>3. AllocInv => Disjoint
  BY <1>1, <1>2 DEF Disjoint
<1>. QED  BY <1>3, AllocInvHolds, PTL

-----------------------------------------------------------------------------
(* The search tree.  What insert and deleteNode build is a spine of left    *)
(* links with keys that grow, whose nodes may have a right child without    *)
(* children and with a key that is not larger.                              *)

Records == [key : Keys, parent : Nodes \cup {NoNode},
            left : Nodes \cup {NoNode}, right : Nodes \cup {NoNode}]
Heaps == [Nodes -> Records]

\* Children come after their parents, in nodes that have left the tree too; so
\* every walk along the links ends.
Ordered(nd, b) ==
    \A n \in Nodes :
        /\ nd[n].left = NoNode \/ (n < nd[n].left /\ nd[n].left <= b)
        /\ nd[n].right = NoNode \/ (n < nd[n].right /\ nd[n].right <= b)
        /\ nd[n].parent < n

\* r is a child on the right of p, without children.
Hangs(nd, r, p) ==
    /\ r \in Nodes /\ nd[r].left = NoNode /\ nd[r].right = NoNode
    /\ nd[r].parent = p /\ nd[r].key <= nd[p].key

Spine(s, nd, root, us) ==
    /\ s \in Seq(Nodes) /\ Distinct(s)
    /\ root = IF s = <<>> THEN NoNode ELSE s[1]
    /\ \A i \in 1 .. Len(s) :
         /\ s[i] \in us
         /\ nd[s[i]].left = IF i = Len(s) THEN NoNode ELSE s[i + 1]
         /\ nd[s[i]].parent = IF i = 1 THEN NoNode ELSE s[i - 1]
         /\ i < Len(s) => nd[s[i]].key < nd[s[i + 1]].key
    /\ \A i \in 1 .. Len(s) : nd[s[i]].right # NoNode =>
         /\ Hangs(nd, nd[s[i]].right, s[i]) /\ nd[s[i]].right \in us
         /\ i < Len(s) => nd[s[i]].right < s[i + 1]
         /\ \A j \in 1 .. Len(s) : nd[s[i]].right # s[j]

TreeInv ==
    /\ TreeTypeOK
    /\ \E b \in Nat : Ordered(node, b) /\ \A n \in used : n <= b
    /\ \E s : Spine(s, node, m_pRoot, used)
    /\ status = "ok" => \A n \in used, m \in Nodes \ used : n < m

LEMMA HeapFacts ==
    ASSUME NEW nd \in Heaps, NEW n \in Nodes
    PROVE  /\ nd[n].key \in Keys /\ nd[n].key \in Int /\ n \in Nat /\ n > 0 /\ n # NoNode
           /\ nd[n].parent \in Nodes \cup {NoNode} /\ nd[n].left \in Nodes \cup {NoNode}
           /\ nd[n].right \in Nodes \cup {NoNode}
           /\ nd[n].parent \in Nat /\ nd[n].left \in Nat /\ nd[n].right \in Nat
<1>1. n \in Nat /\ n > 0 /\ n # NoNode /\ Nodes \cup {NoNode} \subseteq Nat
  BY NodesAssumption DEF NoNode
<1>2. nd[n] \in Records
  BY DEF Heaps
<1>3. /\ nd[n].key \in Keys /\ nd[n].parent \in Nodes \cup {NoNode}
      /\ nd[n].left \in Nodes \cup {NoNode} /\ nd[n].right \in Nodes \cup {NoNode}
  BY <1>2 DEF Records
<1>4. nd[n].key \in Int
  BY <1>3, KeysAssumption
<1>. QED  BY <1>1, <1>3, <1>4

\* What is left of the links below n, and nothing for no node.
Height(b) == [n \in Nodes \cup {NoNode} |-> IF n = NoNode THEN 0
                                            ELSE IF n <= b THEN b - n + 2 ELSE 1]

LEMMA HeightFalls ==
    ASSUME NEW nd \in Heaps, NEW b \in Nat, Ordered(nd, b), NEW n \in Nodes
    PROVE  /\ Height(b)[n] \in Nat
           /\ Height(b)[nd[n].left] < Height(b)[n] /\ Height(b)[nd[n].right] < Height(b)[n]
<1>1. /\ n \in Nat /\ n # NoNode /\ nd[n].left \in Nodes \cup {NoNode}
      /\ nd[n].right \in Nodes \cup {NoNode}
  BY HeapFacts
<1>2. ASSUME NEW c \in Nodes \cup {NoNode}, c = NoNode \/ (n < c /\ c <= b)
      PROVE  Height(b)[c] < Height(b)[n] /\ Height(b)[n] \in Nat
  <2>1. CASE c = NoNode
    BY <1>1, <2>1 DEF Height
  <2>2. CASE c # NoNode
    <3>1. c \in Nat /\ n < c /\ c <= b
      BY <1>2, <2>2, NodesAssumption
    <3>. QED  BY <1>1, <2>2, <3>1 DEF Height
  <2>. QED  BY <2>1, <2>2
<1>. QED  BY <1>1, <1>2 DEF Ordered

-----------------------------------------------------------------------------
(* The recursions of the module, for any heap.                              *)

WalkEq(nd, g) ==
    g = [m \in Nodes \cup {NoNode} |->
           IF m = NoNode THEN <<>> ELSE <<m>> \o g[nd[m].left] \o g[nd[m].right]]
OrderEq(nd, g) ==
    g = [m \in Nodes \cup {NoNode} |->
           IF m = NoNode THEN <<>> ELSE g[nd[m].left] \o <<m>> \o g[nd[m].right]]
SearchEq(nd, key, g) ==
    g = [n \in Nodes \cup {NoNode} |->
           IF n = NoNode THEN NoNode
           ELSE IF nd[n].key = key THEN n
           ELSE g[IF nd[n].key > key THEN nd[n].left ELSE nd[n].right]]
LeftEq(nd, g) == g = [m \in Nodes |-> IF nd[m].left = NoNode THEN m ELSE g[nd[m].left]]
RightEq(nd, g) == g = [m \in Nodes |-> IF nd[m].right = NoNode THEN m ELSE g[nd[m].right]]
UpRightEq(nd, g) ==
    g = [m \in Nodes |-> LET y == nd[m].parent IN
                         IF y # NoNode /\ nd[y].right = m THEN g[y] ELSE y]
UpLeftEq(nd, g) ==
    g = [m \in Nodes |-> LET y == nd[m].parent IN
                         IF y # NoNode /\ nd[y].left = m THEN g[y] ELSE y]

WalkOf(nd, n)        == (CHOOSE g : WalkEq(nd, g))[n]
OrderOf(nd, n)       == (CHOOSE g : OrderEq(nd, g))[n]
SearchOf(nd, n, key) == (CHOOSE g : SearchEq(nd, key, g))[n]
LeftOf(nd, n)        == (CHOOSE g : LeftEq(nd, g))[n]
RightOf(nd, n)       == (CHOOSE g : RightEq(nd, g))[n]
UpRightOf(nd, n)     == (CHOOSE g : UpRightEq(nd, g))[n]
UpLeftOf(nd, n)      == (CHOOSE g : UpLeftEq(nd, g))[n]

\* They are the module's own.
LEMMA SameWalks ==
    /\ \A n : WalkFrom(n) = WalkOf(node, n)
    /\ InOrder = OrderOf(node, m_pRoot)
    /\ \A key : search(key) = SearchOf(node, m_pRoot, key)
    /\ \A n : LeftEnd(n) = LeftOf(node, n) /\ RightEnd(n) = RightOf(node, n)
    /\ \A n : UpFromRight(n) = UpRightOf(node, n) /\ UpFromLeft(n) = UpLeftOf(node, n)
<1>1. \A n : WalkFrom(n) = WalkOf(node, n)
  BY DEF WalkFrom, WalkOf, WalkEq
<1>2. InOrder = OrderOf(node, m_pRoot)
  BY DEF InOrder, OrderOf, OrderEq
<1>3. \A key : search(key) = SearchOf(node, m_pRoot, key)
  BY DEF search, SearchOf, SearchEq
<1>4. \A n : LeftEnd(n) = LeftOf(node, n)
  BY DEF LeftEnd, LeftOf, LeftEq
<1>5. \A n : RightEnd(n) = RightOf(node, n)
  BY DEF RightEnd, RightOf, RightEq
<1>6. \A n : UpFromRight(n) = UpRightOf(node, n)
  BY DEF UpFromRight, UpRightOf, UpRightEq
<1>7. \A n : UpFromLeft(n) = UpLeftOf(node, n)
  BY DEF UpFromLeft, UpLeftOf, UpLeftEq
<1>. QED  BY <1>1, <1>2, <1>3, <1>4, <1>5, <1>6, <1>7

LEMMA SameOrderNext == InOrder' = OrderOf(node', m_pRoot')
  BY DEF InOrder, OrderOf, OrderEq

\* The two walks: some function satisfies their equations.
LEMMA WalkSolved ==
    ASSUME NEW nd \in Heaps, NEW b \in Nat, Ordered(nd, b)
    PROVE  (\E g : WalkEq(nd, g)) /\ (\E g : OrderEq(nd, g))
<1> DEFINE D == Nodes \cup {NoNode}
           R == Seq(Nodes)
           B == [n \in D |-> <<>>]
           N == [n \in Nodes |-> nd[n].left]
           M == [n \in Nodes |-> nd[n].right]
           mu == Height(b)
           E1 == [p \in Nodes \X R \X R |-> <<p[1]>> \o p[2] \o p[3]]
           E2 == [p \in Nodes \X R \X R |-> p[2] \o <<p[1]>> \o p[3]]
<1>1. \A x \in D : mu[x] \in Nat
  BY HeightFalls DEF Height
<1>2. \A x \in D : x \in {NoNode} => B[x] \in R
  OBVIOUS
<1>3. \A x \in D : x \notin {NoNode} => /\ N[x] \in D /\ mu[N[x]] < mu[x]
                                        /\ M[x] \in D /\ mu[M[x]] < mu[x]
  <2> SUFFICES ASSUME NEW x \in Nodes
               PROVE  /\ N[x] \in D /\ mu[N[x]] < mu[x] /\ M[x] \in D /\ mu[M[x]] < mu[x]
    OBVIOUS
  <2>1. N[x] = nd[x].left /\ M[x] = nd[x].right
    OBVIOUS
  <2>2. nd[x].left \in D /\ nd[x].right \in D
    BY HeapFacts
  <2>. QED  BY <2>1, <2>2, HeightFalls
<1>4. ASSUME NEW x \in Nodes, NEW r \in R, NEW q \in R
      PROVE  /\ E1[<<x, r, q>>] = <<x>> \o r \o q /\ E1[<<x, r, q>>] \in R
             /\ E2[<<x, r, q>>] = r \o <<x>> \o q /\ E2[<<x, r, q>>] \in R
  <2>1. E1[<<x, r, q>>] = <<x>> \o r \o q /\ E2[<<x, r, q>>] = r \o <<x>> \o q
    <3> HIDE DEF R
    <3>. QED  OBVIOUS
  <2>2. <<x>> \in R
    OBVIOUS
  <2>3. <<x>> \o r \in R /\ r \o <<x>> \in R
    BY <2>2, ConcatInSeq
  <2>4. <<x>> \o r \o q \in R /\ r \o <<x>> \o q \in R
    BY <2>3, ConcatInSeq
  <2>. QED  BY <2>1, <2>4
<1>5. \A x \in D, r \in R, q \in R : x \notin {NoNode} => E1[<<x, r, q>>] \in R /\ E2[<<x, r, q>>] \in R
  BY <1>4
<1>6. \A x \in Nodes : x \notin {NoNode}
  BY HeapFacts
<1> HIDE DEF N, M, mu, E1, E2, B, R
<1>7. \E g : WalkEq(nd, g)
  <2>1. PICK g \in [D -> R] : SolvesPair(g, D, {NoNode}, B, N, M, E1)
    BY <1>1, <1>2, <1>3, <1>5, PairRecursionExists
  <2>2. ASSUME NEW x \in D
        PROVE  g[x] = IF x = NoNode THEN <<>> ELSE <<x>> \o g[nd[x].left] \o g[nd[x].right]
    <3>1. CASE x = NoNode
      BY <2>1, <3>1 DEF SolvesPair, B
    <3>2. CASE x # NoNode
      <4>1. x \in Nodes /\ N[x] = nd[x].left /\ M[x] = nd[x].right
        BY <3>2 DEF N, M
      <4>2. g[N[x]] \in R /\ g[M[x]] \in R
        BY <1>3, <2>1, <3>2
      <4>3. g[x] = E1[<<x, g[N[x]], g[M[x]]>>]
        BY <2>1, <3>2 DEF SolvesPair
      <4>4. E1[<<x, g[N[x]], g[M[x]]>>] = <<x>> \o g[N[x]] \o g[M[x]]
        BY <1>4, <4>1, <4>2
      <4>. QED  BY <3>2, <4>1, <4>3, <4>4
    <3>. QED  BY <3>1, <3>2
  <2>3. g = [x \in D |-> g[x]]
    BY <2>1
  <2>4. WalkEq(nd, g)
    BY <2>2, <2>3, Zenon DEF WalkEq
  <2>. QED  BY <2>4
<1>8. \E g : OrderEq(nd, g)
  <2>1. PICK g \in [D -> R] : SolvesPair(g, D, {NoNode}, B, N, M, E2)
    BY <1>1, <1>2, <1>3, <1>5, PairRecursionExists
  <2>2. ASSUME NEW x \in D
        PROVE  g[x] = IF x = NoNode THEN <<>> ELSE g[nd[x].left] \o <<x>> \o g[nd[x].right]
    <3>1. CASE x = NoNode
      BY <2>1, <3>1 DEF SolvesPair, B
    <3>2. CASE x # NoNode
      <4>1. x \in Nodes /\ N[x] = nd[x].left /\ M[x] = nd[x].right
        BY <3>2 DEF N, M
      <4>2. g[N[x]] \in R /\ g[M[x]] \in R
        BY <1>3, <2>1, <3>2
      <4>3. g[x] = E2[<<x, g[N[x]], g[M[x]]>>]
        BY <2>1, <3>2 DEF SolvesPair
      <4>4. E2[<<x, g[N[x]], g[M[x]]>>] = g[N[x]] \o <<x>> \o g[M[x]]
        BY <1>4, <4>1, <4>2
      <4>. QED  BY <3>2, <4>1, <4>3, <4>4
    <3>. QED  BY <3>1, <3>2
  <2>3. g = [x \in D |-> g[x]]
    BY <2>1
  <2>4. OrderEq(nd, g)
    BY <2>2, <2>3, Zenon DEF OrderEq
  <2>. QED  BY <2>4
<1>. QED  BY <1>7, <1>8

\* What the walks visit below no node and below n.
LEMMA WalkUnfolds ==
    ASSUME NEW nd \in Heaps, NEW b \in Nat, Ordered(nd, b)
    PROVE  /\ WalkOf(nd, NoNode) = <<>> /\ OrderOf(nd, NoNode) = <<>>
           /\ \A n \in Nodes :
                /\ WalkOf(nd, n) = <<n>> \o WalkOf(nd, nd[n].left) \o WalkOf(nd, nd[n].right)
                /\ OrderOf(nd, n) = OrderOf(nd, nd[n].left) \o <<n>> \o OrderOf(nd, nd[n].right)
<1>1. PICK g : g = CHOOSE h : WalkEq(nd, h)
  OBVIOUS
<1>2. PICK k : k = CHOOSE h : OrderEq(nd, h)
  OBVIOUS
<1>3. WalkEq(nd, g)
  BY <1>1, WalkSolved, Zenon
<1>4. OrderEq(nd, k)
  BY <1>2, WalkSolved, Zenon
<1>5. \A n : WalkOf(nd, n) = g[n] /\ OrderOf(nd, n) = k[n]
  BY <1>1, <1>2, Zenon DEF WalkOf, OrderOf
<1>6. g[NoNode] = <<>> /\ k[NoNode] = <<>>
  BY <1>3, <1>4 DEF WalkEq, OrderEq
<1>7. ASSUME NEW n \in Nodes
      PROVE  /\ g[n] = <<n>> \o g[nd[n].left] \o g[nd[n].right]
             /\ k[n] = k[nd[n].left] \o <<n>> \o k[nd[n].right]
  <2>1. n # NoNode
    BY HeapFacts
  <2>. QED  BY <1>3, <1>4, <2>1 DEF WalkEq, OrderEq
<1>. QED  BY <1>5, <1>6, <1>7

\* A walk along one link of each node.
Chained(g, D, base, B, N) == g = [x \in D |-> IF x \in base THEN B[x] ELSE g[N[x]]]

LEMMA ChainSolved ==
    ASSUME NEW D, NEW W, NEW mu, \A x \in D : mu[x] \in Nat, NEW base, NEW B, NEW N,
           \A x \in D : x \in base => B[x] \in W,
           \A x \in D : x \notin base => N[x] \in D /\ mu[N[x]] < mu[x]
    PROVE  \E g : Chained(g, D, base, B, N)
<1> DEFINE E == [p \in D \X W |-> p[2]]
<1>1. \A x \in D, r \in W : x \notin base => E[<<x, r>>] \in W
  OBVIOUS
<1>2. \A x \in D, r \in W : E[<<x, r>>] = r
  OBVIOUS
<1> HIDE DEF E
<1>3. PICK g \in [D -> W] : Solves(g, D, base, B, N, E)
  BY <1>1, RecursionExists
<1>4. ASSUME NEW x \in D  PROVE g[x] = IF x \in base THEN B[x] ELSE g[N[x]]
  <2>1. CASE x \in base
    BY <1>3, <2>1 DEF Solves
  <2>2. CASE x \notin base
    BY <1>2, <1>3, <2>2 DEF Solves
  <2>. QED  BY <2>1, <2>2
<1>5. g = [x \in D |-> g[x]]
  BY <1>3
<1>6. Chained(g, D, base, B, N)
  BY <1>4, <1>5, Zenon DEF Chained
<1>. QED  BY <1>6

LEMMA EndsSolved ==
    ASSUME NEW nd \in Heaps, NEW b \in Nat, Ordered(nd, b)
    PROVE  (\E g : LeftEq(nd, g)) /\ (\E g : RightEq(nd, g))
<1> DEFINE mu == Height(b)
           B == [n \in Nodes |-> n]
<1>1. \A x \in Nodes : mu[x] \in Nat /\ B[x] = x
  BY HeightFalls
<1> HIDE DEF mu, B
<1>2. \E g : LeftEq(nd, g)
  <2> DEFINE N == [n \in Nodes |-> nd[n].left]
             base == {n \in Nodes : nd[n].left = NoNode}
  <2>1. \A x \in Nodes : x \notin base => N[x] \in Nodes /\ mu[N[x]] < mu[x]
    BY HeapFacts, HeightFalls DEF mu
  <2>2. \A x \in Nodes : N[x] = nd[x].left /\ (x \in base <=> nd[x].left = NoNode)
    OBVIOUS
  <2> HIDE DEF N, base
  <2>3. PICK g : Chained(g, Nodes, base, B, N)
    <3>1. (\A x \in Nodes : mu[x] \in Nat) /\ \A x \in Nodes : x \in base => B[x] \in Nodes
      BY <1>1
    <3>. QED  BY ONLY <2>1, <3>1, ChainSolved
  <2>4. \A x \in Nodes : g[x] = IF nd[x].left = NoNode THEN x ELSE g[nd[x].left]
    BY <1>1, <2>2, <2>3 DEF Chained
  <2>5. g = [x \in Nodes |-> g[x]]
    BY <2>3 DEF Chained
  <2>6. LeftEq(nd, g)
    BY <2>4, <2>5, Zenon DEF LeftEq
  <2>. QED  BY <2>6
<1>3. \E g : RightEq(nd, g)
  <2> DEFINE N == [n \in Nodes |-> nd[n].right]
             base == {n \in Nodes : nd[n].right = NoNode}
  <2>1. \A x \in Nodes : x \notin base => N[x] \in Nodes /\ mu[N[x]] < mu[x]
    BY HeapFacts, HeightFalls DEF mu
  <2>2. \A x \in Nodes : N[x] = nd[x].right /\ (x \in base <=> nd[x].right = NoNode)
    OBVIOUS
  <2> HIDE DEF N, base
  <2>3. PICK g : Chained(g, Nodes, base, B, N)
    <3>1. (\A x \in Nodes : mu[x] \in Nat) /\ \A x \in Nodes : x \in base => B[x] \in Nodes
      BY <1>1
    <3>. QED  BY ONLY <2>1, <3>1, ChainSolved
  <2>4. \A x \in Nodes : g[x] = IF nd[x].right = NoNode THEN x ELSE g[nd[x].right]
    BY <1>1, <2>2, <2>3 DEF Chained
  <2>5. g = [x \in Nodes |-> g[x]]
    BY <2>3 DEF Chained
  <2>6. RightEq(nd, g)
    BY <2>4, <2>5, Zenon DEF RightEq
  <2>. QED  BY <2>6
<1>. QED  BY <1>2, <1>3

LEMMA UpsSolved ==
    ASSUME NEW nd \in Heaps, NEW b \in Nat, Ordered(nd, b)
    PROVE  (\E g : UpRightEq(nd, g)) /\ (\E g : UpLeftEq(nd, g))
<1> DEFINE mu == [n \in Nodes |-> n]
           B == [n \in Nodes |-> nd[n].parent]
           W == Nodes \cup {NoNode}
<1>1. \A x \in Nodes : mu[x] = x /\ mu[x] \in Nat /\ B[x] = nd[x].parent /\ B[x] \in W
  BY HeapFacts
<1> HIDE DEF mu, B
<1>2. \A x \in Nodes : nd[x].parent # NoNode => nd[x].parent \in Nodes /\ mu[nd[x].parent] < mu[x]
  BY <1>1, HeapFacts DEF Ordered
<1>3. \E g : UpRightEq(nd, g)
  <2> DEFINE base == {n \in Nodes : ~ (nd[n].parent # NoNode /\ nd[nd[n].parent].right = n)}
  <2>1. \A x \in Nodes : x \notin base => B[x] \in Nodes /\ mu[B[x]] < mu[x]
    BY <1>1, <1>2
  <2>2. \A x \in Nodes : x \in base <=> ~ (nd[x].parent # NoNode /\ nd[nd[x].parent].right = x)
    OBVIOUS
  <2> HIDE DEF base
  <2>3. PICK g : Chained(g, Nodes, base, B, B)
    <3>1. (\A x \in Nodes : mu[x] \in Nat) /\ \A x \in Nodes : x \in base => B[x] \in W
      BY <1>1
    <3> HIDE DEF W
    <3>. QED  BY ONLY <2>1, <3>1, ChainSolved
  <2>4. \A x \in Nodes : g[x] = LET y == nd[x].parent IN
                                IF y # NoNode /\ nd[y].right = x THEN g[y] ELSE y
    BY <1>1, <2>2, <2>3 DEF Chained
  <2>5. g = [x \in Nodes |-> g[x]]
    BY <2>3 DEF Chained
  <2>6. UpRightEq(nd, g)
    BY <2>4, <2>5, Zenon DEF UpRightEq
  <2>. QED  BY <2>6
<1>4. \E g : UpLeftEq(nd, g)
  <2> DEFINE base == {n \in Nodes : ~ (nd[n].parent # NoNode /\ nd[nd[n].parent].left = n)}
  <2>1. \A x \in Nodes : x \notin base => B[x] \in Nodes /\ mu[B[x]] < mu[x]
    BY <1>1, <1>2
  <2>2. \A x \in Nodes : x \in base <=> ~ (nd[x].parent # NoNode /\ nd[nd[x].parent].left = x)
    OBVIOUS
  <2> HIDE DEF base
  <2>3. PICK g : Chained(g, Nodes, base, B, B)
    <3>1. (\A x \in Nodes : mu[x] \in Nat) /\ \A x \in Nodes : x \in base => B[x] \in W
      BY <1>1
    <3> HIDE DEF W
    <3>. QED  BY ONLY <2>1, <3>1, ChainSolved
  <2>4. \A x \in Nodes : g[x] = LET y == nd[x].parent IN
                                IF y # NoNode /\ nd[y].left = x THEN g[y] ELSE y
    BY <1>1, <2>2, <2>3 DEF Chained
  <2>5. g = [x \in Nodes |-> g[x]]
    BY <2>3 DEF Chained
  <2>6. UpLeftEq(nd, g)
    BY <2>4, <2>5, Zenon DEF UpLeftEq
  <2>. QED  BY <2>6
<1>. QED  BY <1>3, <1>4

LEMMA SearchSolved ==
    ASSUME NEW nd \in Heaps, NEW b \in Nat, Ordered(nd, b), NEW key \in Keys
    PROVE  \E g : SearchEq(nd, key, g)
<1> DEFINE D == Nodes \cup {NoNode}
           mu == Height(b)
           B == [n \in D |-> n]
           Way(n) == IF nd[n].key > key THEN nd[n].left ELSE nd[n].right
           N == [n \in Nodes |-> Way(n)]
           base == {n \in D : n = NoNode \/ nd[n].key = key}
<1>1. \A x \in D : mu[x] \in Nat /\ B[x] = x
  BY HeightFalls DEF Height
<1>2. \A x \in D : x \notin base => N[x] \in D /\ mu[N[x]] < mu[x]
  <2> SUFFICES ASSUME NEW x \in Nodes  PROVE N[x] \in D /\ mu[N[x]] < mu[x]
    OBVIOUS
  <2>1. N[x] = nd[x].left \/ N[x] = nd[x].right
    OBVIOUS
  <2>2. nd[x].left \in D /\ nd[x].right \in D
    BY HeapFacts
  <2>. QED  BY <2>1, <2>2, HeightFalls
<1>3. \A x \in D : /\ x \in base <=> (x = NoNode \/ nd[x].key = key)
                   /\ x # NoNode => N[x] = Way(x)
  OBVIOUS
<1> HIDE DEF mu, B, N, base
<1>4. PICK g : Chained(g, D, base, B, N)
  <2>1. (\A x \in D : mu[x] \in Nat) /\ \A x \in D : x \in base => B[x] \in D
    BY <1>1
  <2> HIDE DEF D
  <2>. QED  BY ONLY <1>2, <2>1, ChainSolved
<1> HIDE DEF Way
<1>5. ASSUME NEW x \in D
      PROVE  g[x] = IF x = NoNode THEN NoNode ELSE IF nd[x].key = key THEN x ELSE g[Way(x)]
  <2>1. g[x] = IF x \in base THEN B[x] ELSE g[N[x]]
    BY <1>4 DEF Chained
  <2>2. CASE x = NoNode
    BY <1>1, <1>3, <2>1, <2>2
  <2>3. CASE x # NoNode
    BY <1>1, <1>3, <2>1, <2>3
  <2>. QED  BY <2>2, <2>3
<1>6. g = [x \in D |-> g[x]]
  BY <1>4 DEF Chained
<1>7. SearchEq(nd, key, g)
  BY <1>5, <1>6, Zenon DEF SearchEq, Way
<1>. QED  BY <1>7

\* Their values.
LEMMA EndsUnfold ==
    ASSUME NEW nd \in Heaps, NEW b \in Nat, Ordered(nd, b), NEW n \in Nodes
    PROVE  /\ LeftOf(nd, n) = IF nd[n].left = NoNode THEN n ELSE LeftOf(nd, nd[n].left)
           /\ RightOf(nd, n) = IF nd[n].right = NoNode THEN n ELSE RightOf(nd, nd[n].right)
           /\ nd[n].parent = NoNode => UpRightOf(nd, n) = NoNode /\ UpLeftOf(nd, n) = NoNode
<1>1. PICK g : g = CHOOSE h : LeftEq(nd, h)
  OBVIOUS
<1>2. PICK k : k = CHOOSE h : RightEq(nd, h)
  OBVIOUS
<1>3. PICK u : u = CHOOSE h : UpRightEq(nd, h)
  OBVIOUS
<1>4. PICK v : v = CHOOSE h : UpLeftEq(nd, h)
  OBVIOUS
<1>5. LeftEq(nd, g)
  BY <1>1, EndsSolved, Zenon
<1>6. RightEq(nd, k)
  BY <1>2, EndsSolved, Zenon
<1>7. UpRightEq(nd, u)
  BY <1>3, UpsSolved, Zenon
<1>8. UpLeftEq(nd, v)
  BY <1>4, UpsSolved, Zenon
<1>9. \A m : LeftOf(nd, m) = g[m] /\ RightOf(nd, m) = k[m]
  BY <1>1, <1>2, Zenon DEF LeftOf, RightOf
<1>10. UpRightOf(nd, n) = u[n] /\ UpLeftOf(nd, n) = v[n]
  BY <1>3, <1>4, Zenon DEF UpRightOf, UpLeftOf
<1>11. g[n] = IF nd[n].left = NoNode THEN n ELSE g[nd[n].left]
  BY <1>5 DEF LeftEq
<1>12. k[n] = IF nd[n].right = NoNode THEN n ELSE k[nd[n].right]
  BY <1>6 DEF RightEq
<1>13. nd[n].parent = NoNode => u[n] = NoNode /\ v[n] = NoNode
  BY <1>7, <1>8 DEF UpRightEq, UpLeftEq
<1>. QED  BY <1>9, <1>10, <1>11, <1>12, <1>13

LEMMA SearchUnfolds ==
    ASSUME NEW nd \in Heaps, NEW b \in Nat, Ordered(nd, b), NEW key \in Keys
    PROVE  /\ SearchOf(nd, NoNode, key) = NoNode
           /\ \A n \in Nodes :
                SearchOf(nd, n, key) =
                  IF nd[n].key = key THEN n
                  ELSE IF nd[n].key > key THEN SearchOf(nd, nd[n].left, key)
                  ELSE SearchOf(nd, nd[n].right, key)
<1>1. PICK g : g = CHOOSE h : SearchEq(nd, key, h)
  OBVIOUS
<1>2. SearchEq(nd, key, g)
  BY <1>1, SearchSolved, Zenon
<1>3. \A n : SearchOf(nd, n, key) = g[n]
  BY <1>1, Zenon DEF SearchOf
<1>4. g[NoNode] = NoNode
  BY <1>2 DEF SearchEq
<1>5. ASSUME NEW n \in Nodes
      PROVE  g[n] = IF nd[n].key = key THEN n
                    ELSE IF nd[n].key > key THEN g[nd[n].left] ELSE g[nd[n].right]
  <2>1. n # NoNode
    BY HeapFacts
  <2>. QED  BY <1>2, <2>1 DEF SearchEq
<1>. QED  BY <1>3, <1>4, <1>5

-----------------------------------------------------------------------------
(* The walks along a spine.                                                 *)

RightSeq(nd, n) == IF nd[n].right = NoNode THEN <<>> ELSE <<nd[n].right>>
WalkAfter(nd, s, i)  == IF i = Len(s) THEN <<>> ELSE WalkOf(nd, s[i + 1])
OrderAfter(nd, s, i) == IF i = Len(s) THEN <<>> ELSE OrderOf(nd, s[i + 1])

LEMMA SpineFacts ==
    ASSUME NEW nd \in Heaps, NEW s, NEW root, NEW us, Spine(s, nd, root, us),
           NEW i \in 1 .. Len(s)
    PROVE  /\ s \in Seq(Nodes) /\ Len(s) \in Nat /\ s[i] \in Nodes /\ s[i] \in us
           /\ nd[s[i]].left = IF i = Len(s) THEN NoNode ELSE s[i + 1]
           /\ nd[s[i]].parent = IF i = 1 THEN NoNode ELSE s[i - 1]
           /\ i < Len(s) => /\ i + 1 \in 1 .. Len(s) /\ s[i + 1] \in Nodes
                            /\ nd[s[i]].key < nd[s[i + 1]].key
           /\ nd[s[i]].right # NoNode => Hangs(nd, nd[s[i]].right, s[i])
           /\ \A j \in 1 .. Len(s) : s[i] = s[j] => i = j
<1>1. s \in Seq(Nodes) /\ Len(s) \in Nat /\ s[i] \in Nodes
  BY DEF Spine
<1>2. i < Len(s) => i + 1 \in 1 .. Len(s) /\ s[i + 1] \in Nodes
  BY <1>1
<1>3. /\ s[i] \in us
      /\ nd[s[i]].left = IF i = Len(s) THEN NoNode ELSE s[i + 1]
      /\ nd[s[i]].parent = IF i = 1 THEN NoNode ELSE s[i - 1]
      /\ i < Len(s) => nd[s[i]].key < nd[s[i + 1]].key
      /\ nd[s[i]].right # NoNode => Hangs(nd, nd[s[i]].right, s[i])
  BY Zenon DEF Spine
<1>4. \A j \in 1 .. Len(s) : s[i] = s[j] => i = j
  BY DEF Spine, Distinct
<1>. QED  BY <1>1, <1>2, <1>3, <1>4

LEMMA HangsWalk ==
    ASSUME NEW nd \in Heaps, NEW b \in Nat, Ordered(nd, b), NEW n \in Nodes,
           nd[n].right # NoNode => Hangs(nd, nd[n].right, n)
    PROVE  /\ WalkOf(nd, nd[n].right) = RightSeq(nd, n)
           /\ OrderOf(nd, nd[n].right) = RightSeq(nd, n)
           /\ RightSeq(nd, n) \in Seq(Nodes)
<1>1. CASE nd[n].right = NoNode
  BY <1>1, WalkUnfolds, EmptyInSeq DEF RightSeq
<1>2. CASE nd[n].right # NoNode
  <2>1. PICK r \in Nodes : r = nd[n].right /\ nd[r].left = NoNode /\ nd[r].right = NoNode
    BY <1>2 DEF Hangs
  <2>2. /\ WalkOf(nd, r) = <<r>> \o <<>> \o <<>>
        /\ OrderOf(nd, r) = <<>> \o <<r>> \o <<>>
    <3>1. /\ WalkOf(nd, NoNode) = <<>> /\ OrderOf(nd, NoNode) = <<>>
          /\ WalkOf(nd, r) = <<r>> \o WalkOf(nd, nd[r].left) \o WalkOf(nd, nd[r].right)
          /\ OrderOf(nd, r) = OrderOf(nd, nd[r].left) \o <<r>> \o OrderOf(nd, nd[r].right)
      BY WalkUnfolds
    <3>. QED  BY ONLY <2>1, <3>1, Zenon
  <2>3. <<r>> \in Seq(Nodes) /\ <<r>> \o <<>> \o <<>> = <<r>> /\ <<>> \o <<r>> \o <<>> = <<r>>
    OBVIOUS
  <2>. QED  BY <1>2, <2>1, <2>2, <2>3 DEF RightSeq
<1>. QED  BY <1>1, <1>2

LEMMA SpineWalk ==
    ASSUME NEW nd \in Heaps, NEW b \in Nat, Ordered(nd, b),
           NEW s, NEW root, NEW us, Spine(s, nd, root, us), NEW i \in 1 .. Len(s)
    PROVE  /\ WalkOf(nd, s[i]) = <<s[i]>> \o WalkAfter(nd, s, i) \o RightSeq(nd, s[i])
           /\ OrderOf(nd, s[i]) = OrderAfter(nd, s, i) \o <<s[i]>> \o RightSeq(nd, s[i])
           /\ RightSeq(nd, s[i]) \in Seq(Nodes)
<1>1. /\ s[i] \in Nodes /\ nd[s[i]].left = IF i = Len(s) THEN NoNode ELSE s[i + 1]
      /\ nd[s[i]].right # NoNode => Hangs(nd, nd[s[i]].right, s[i])
  BY SpineFacts
<1>2. PICK n \in Nodes : n = s[i]
  BY <1>1
<1>3. /\ WalkOf(nd, n) = <<n>> \o WalkOf(nd, nd[n].left) \o WalkOf(nd, nd[n].right)
      /\ OrderOf(nd, n) = OrderOf(nd, nd[n].left) \o <<n>> \o OrderOf(nd, nd[n].right)
  BY WalkUnfolds
<1>4. /\ WalkOf(nd, nd[n].right) = RightSeq(nd, n)
      /\ OrderOf(nd, nd[n].right) = RightSeq(nd, n)
      /\ RightSeq(nd, n) \in Seq(Nodes)
  BY <1>1, <1>2, HangsWalk
<1>5. WalkOf(nd, nd[n].left) = WalkAfter(nd, s, i) /\ OrderOf(nd, nd[n].left) = OrderAfter(nd, s, i)
  BY <1>1, <1>2, WalkUnfolds DEF WalkAfter, OrderAfter
<1>. QED  BY <1>2, <1>3, <1>4, <1>5, Zenon

LEMMA OrderType ==
    ASSUME NEW nd \in Heaps, NEW b \in Nat, Ordered(nd, b),
           NEW s, NEW root, NEW us, Spine(s, nd, root, us), NEW i \in 1 .. Len(s)
    PROVE  OrderOf(nd, s[i]) \in Seq(Nodes) /\ OrderAfter(nd, s, i) \in Seq(Nodes)
<1> DEFINE T == {j \in 1 .. Len(s) : OrderOf(nd, s[j]) \in Seq(Nodes)}
<1>1. Len(s) \in Nat /\ Len(s) \in 1 .. Len(s)
  BY SpineFacts
<1>2. ASSUME NEW j \in 1 .. Len(s), OrderAfter(nd, s, j) \in Seq(Nodes)  PROVE j \in T
  <2>1. s[j] \in Nodes /\ <<s[j]>> \in Seq(Nodes)
    BY SpineFacts
  <2>2. PICK p \in Seq(Nodes) : p = OrderAfter(nd, s, j)
    BY <1>2
  <2>3. PICK q \in Seq(Nodes) : q = RightSeq(nd, s[j])
    BY SpineWalk
  <2>4. OrderOf(nd, s[j]) = p \o <<s[j]>> \o q
    BY <2>2, <2>3, SpineWalk
  <2>5. p \o <<s[j]>> \in Seq(Nodes)
    BY <2>1, ConcatInSeq
  <2>6. p \o <<s[j]>> \o q \in Seq(Nodes)
    BY <2>5, ConcatInSeq
  <2>. QED  BY <2>4, <2>6
<1>3. Len(s) \in T
  <2>1. OrderAfter(nd, s, Len(s)) \in Seq(Nodes)
    BY EmptyInSeq DEF OrderAfter
  <2>. QED  BY <1>1, <1>2, <2>1
<1>4. ASSUME NEW j \in 1 .. Len(s), j < Len(s), j + 1 \in T  PROVE j \in T
  <2>1. OrderAfter(nd, s, j) \in Seq(Nodes)
    BY <1>1, <1>4 DEF OrderAfter
  <2>. QED  BY <1>2, <2>1
<1>5. 1 .. Len(s) \subseteq T
  <2> HIDE DEF T
  <2>. QED  BY <1>1, <1>3, <1>4, DownInduction
<1>6. OrderAfter(nd, s, i) \in Seq(Nodes)
  <2>1. CASE i = Len(s)
    BY <2>1, EmptyInSeq DEF OrderAfter
  <2>2. CASE i # Len(s)
    <3>1. i + 1 \in 1 .. Len(s)
      BY <1>1, <2>2
    <3>. QED  BY <1>5, <2>2, <3>1 DEF OrderAfter
  <2>. QED  BY <2>1, <2>2
<1>. QED  BY <1>5, <1>6

\* The nodes at place i of a spine and after it, with what hangs on them.
Reached(nd, s, i) ==
    {s[j] : j \in i .. Len(s)} \cup ({nd[s[j]].right : j \in i .. Len(s)} \ {NoNode})

LEMMA WalkDistinct ==
    ASSUME NEW nd \in Heaps, NEW b \in Nat, Ordered(nd, b),
           NEW s, NEW root, NEW us, Spine(s, nd, root, us), NEW i \in 1 .. Len(s)
    PROVE  /\ WalkOf(nd, s[i]) \in Seq(Nodes) /\ Distinct(WalkOf(nd, s[i]))
           /\ Range(WalkOf(nd, s[i])) \subseteq Reached(nd, s, i)
<1> DEFINE Fine(w, j) == w \in Seq(Nodes) /\ Distinct(w) /\ Range(w) \subseteq Reached(nd, s, j)
           T == {j \in 1 .. Len(s) : Fine(WalkOf(nd, s[j]), j)}
<1>1. Len(s) \in Nat /\ Len(s) \in 1 .. Len(s)
  BY SpineFacts
<1>2. ASSUME NEW j \in 1 .. Len(s), Fine(WalkAfter(nd, s, j), j + 1)
      PROVE  j \in T
  <2>1. PICK n \in Nodes : n = s[j]
    BY SpineFacts
  <2>2. PICK w : w = WalkAfter(nd, s, j)
    OBVIOUS
  <2>3. PICK q \in Seq(Nodes) : q = RightSeq(nd, n)
    BY <2>1, SpineWalk
  <2>4. WalkOf(nd, s[j]) = <<n>> \o w \o q
    BY <2>1, <2>2, <2>3, SpineWalk
  <2>5. <<n>> \in Seq(Nodes) /\ Distinct(<<n>>) /\ Range(<<n>>) = {n}
    BY DEF Distinct, Range
  <2>6. Distinct(q) /\ Range(q) = {nd[n].right} \ {NoNode}
    <3>1. CASE nd[n].right = NoNode
      BY <2>3, <3>1, RangeEmpty DEF RightSeq, Distinct
    <3>2. CASE nd[n].right # NoNode
      BY <2>3, <3>2 DEF RightSeq, Distinct, Range
    <3>. QED  BY <3>1, <3>2
  <2>7. n \notin Reached(nd, s, j + 1)
    <3>1. \A k \in j + 1 .. Len(s) : k \in 1 .. Len(s) /\ k # j
      BY <1>1
    <3>2. \A k \in j + 1 .. Len(s) : s[k] # n
      BY <2>1, <3>1, SpineFacts
    <3>3. \A k \in j + 1 .. Len(s) : nd[s[k]].right # NoNode => nd[s[k]].right # n
      BY <2>1, <3>1 DEF Spine
    <3>. QED  BY <3>2, <3>3 DEF Reached
  <2>8. nd[n].right # NoNode => nd[n].right \notin Reached(nd, s, j + 1) /\ nd[n].right # n
    <3> SUFFICES ASSUME nd[n].right # NoNode
                 PROVE  nd[n].right \notin Reached(nd, s, j + 1) /\ nd[n].right # n
      OBVIOUS
    <3>1. PICK r : r = nd[n].right
      OBVIOUS
    <3>2. nd[r].parent = s[j] /\ \A k \in 1 .. Len(s) : r # s[k]
      BY <2>1, <3>1 DEF Spine, Hangs
    <3>3. ASSUME NEW k \in j + 1 .. Len(s), nd[s[k]].right # NoNode  PROVE nd[s[k]].right # r
      <4>1. k \in 1 .. Len(s) /\ k # j
        BY <1>1
      <4>2. nd[nd[s[k]].right].parent = s[k]
        BY <3>3, <4>1 DEF Spine, Hangs
      <4>3. s[k] # s[j]
        BY <4>1, SpineFacts
      <4>. QED  BY <3>2, <4>2, <4>3
    <3>4. \A k \in j + 1 .. Len(s) : k \in 1 .. Len(s)
      BY <1>1
    <3>. QED  BY <2>1, <3>1, <3>2, <3>3, <3>4 DEF Reached
  <2>9. w \in Seq(Nodes) /\ Distinct(w) /\ Range(w) \subseteq Reached(nd, s, j + 1)
    BY <1>2, <2>2
  <2>10. PICK v : v = <<n>> \o w
    OBVIOUS
  <2>11. v \in Seq(Nodes) /\ Distinct(v) /\ Range(v) = {n} \cup Range(w)
    <3>1. Range(<<n>>) \cap Range(w) = {}
      BY <2>5, <2>7, <2>9
    <3>2. v \in Seq(Nodes)
      BY <2>5, <2>9, <2>10, ConcatInSeq
    <3>3. Range(v) = Range(<<n>>) \cup Range(w)
      <4>1. PICK u \in Seq(Nodes) : u = <<n>>
        BY <2>5
      <4>2. Range(u \o w) = Range(u) \cup Range(w)
        BY <2>9, RangeConcat
      <4>. QED  BY <2>10, <4>1, <4>2, Zenon
    <3>4. Distinct(v)
      BY <2>5, <2>9, <2>10, <3>1, DistinctConcat
    <3>. QED  BY <2>5, <3>2, <3>3, <3>4
  <2>12. Range(v) \cap Range(q) = {}
    BY <2>6, <2>8, <2>9, <2>11
  <2>13. v \o q \in Seq(Nodes) /\ Distinct(v \o q) /\ Range(v \o q) = Range(v) \cup Range(q)
    <3>1. v \o q \in Seq(Nodes)
      BY <2>11, ConcatInSeq
    <3>2. Range(v \o q) = Range(v) \cup Range(q)
      BY <2>11, RangeConcat
    <3>3. Distinct(v \o q)
      BY <2>6, <2>11, <2>12, DistinctConcat
    <3>. QED  BY <3>1, <3>2, <3>3
  <2>14. Reached(nd, s, j + 1) \subseteq Reached(nd, s, j) /\ n \in Reached(nd, s, j)
    <3>1. (\A k \in j + 1 .. Len(s) : k \in j .. Len(s)) /\ j \in j .. Len(s)
      BY <1>1
    <3>. QED  BY <2>1, <3>1 DEF Reached
  <2>15. Range(q) \subseteq Reached(nd, s, j)
    <3>1. j \in j .. Len(s)
      BY <1>1
    <3>. QED  BY <2>1, <2>6, <3>1 DEF Reached
  <2>16. Fine(WalkOf(nd, s[j]), j)
    BY <2>4, <2>9, <2>10, <2>11, <2>13, <2>14, <2>15
  <2>. QED  BY <2>16
<1>3. Len(s) \in T
  <2>1. Fine(WalkAfter(nd, s, Len(s)), Len(s) + 1)
    BY EmptyInSeq, RangeEmpty DEF WalkAfter, Distinct
  <2>. QED  BY <1>1, <1>2, <2>1
<1>4. ASSUME NEW j \in 1 .. Len(s), j < Len(s), j + 1 \in T  PROVE j \in T
  <2>1. Fine(WalkAfter(nd, s, j), j + 1)
    BY <1>1, <1>4 DEF WalkAfter
  <2>. QED  BY <1>2, <2>1
<1>5. 1 .. Len(s) \subseteq T
  <2> HIDE DEF T
  <2>. QED  BY <1>1, <1>3, <1>4, DownInduction
<1>. QED  BY <1>5

-----------------------------------------------------------------------------
(* What the invariant gives.                                                *)

LEMMA TypeHeap == TreeTypeOK => node \in Heaps
  BY DEF TreeTypeOK, Heaps, Records

LEMMA InvLinks == TreeInv => LinksExact
<1> SUFFICES ASSUME TreeInv  PROVE LinksExact
  OBVIOUS
<1>1. TreeTypeOK /\ node \in Heaps
  BY TypeHeap DEF TreeInv
<1>2. PICK b \in Nat : Ordered(node, b)
  BY DEF TreeInv
<1>3. PICK s : Spine(s, node, m_pRoot, used)
  BY DEF TreeInv
<1>4. PICK w : w = WalkFrom(m_pRoot)
  OBVIOUS
<1>5. w = WalkOf(node, m_pRoot)
  BY <1>4, SameWalks
<1>6. CASE s = <<>>
  <2>1. m_pRoot = NoNode
    BY <1>3, <1>6 DEF Spine
  <2>2. w = <<>>
    BY <1>1, <1>2, <1>5, <2>1, WalkUnfolds
  <2>3. Range(w) = {} /\ IsInjective(w)
    BY <2>2, RangeEmpty DEF IsInjective
  <2>. QED  BY <1>1, <1>4, <2>3 DEF LinksExact
<1>7. CASE s # <<>>
  <2>1. s \in Seq(Nodes) /\ 1 \in 1 .. Len(s) /\ m_pRoot = s[1]
    BY <1>3, <1>7 DEF Spine
  <2>2. w \in Seq(Nodes) /\ Distinct(w) /\ Range(w) \subseteq Reached(node, s, 1)
    BY <1>1, <1>2, <1>3, <1>5, <2>1, WalkDistinct
  <2>3. IsInjective(w)
    <3>1. DOMAIN w = 1 .. Len(w)
      BY <2>2
    <3>. QED  BY <2>2, <3>1 DEF IsInjective, Distinct
  <2>4. ASSUME NEW i \in 1 .. Len(s)
        PROVE  /\ s[i] \in used /\ (s[i] = m_pRoot <=> node[s[i]].parent = NoNode)
               /\ \A c \in {node[s[i]].left, node[s[i]].right} \ {NoNode} : node[c].parent = s[i]
    <3>1. s[i] \in Nodes /\ s[i] \in used
      BY <1>1, <1>3, SpineFacts
    <3>2. s[i] = m_pRoot <=> node[s[i]].parent = NoNode
      <4>1. CASE i = 1
        BY <1>1, <1>3, <2>1, <4>1, SpineFacts
      <4>2. CASE i # 1
        <5>1. i - 1 \in 1 .. Len(s) /\ s[i - 1] \in Nodes
          BY <2>1, <4>2
        <5>2. s[i - 1] # NoNode
          BY <1>1, <5>1, HeapFacts
        <5>3. node[s[i]].parent = s[i - 1] /\ s[i] # s[1]
          BY <1>1, <1>3, <2>1, <4>2, SpineFacts
        <5>. QED  BY <2>1, <5>2, <5>3
      <4>. QED  BY <4>1, <4>2
    <3>3. node[s[i]].left # NoNode => node[node[s[i]].left].parent = s[i]
      <4>1. CASE i = Len(s)
        BY <1>1, <1>3, <4>1, SpineFacts
      <4>2. CASE i # Len(s)
        <5>1. i + 1 \in 1 .. Len(s) /\ i + 1 # 1 /\ (i + 1) - 1 = i
          BY <2>1, <4>2
        <5>2. node[s[i]].left = s[i + 1]
          BY <1>1, <1>3, <4>2, SpineFacts
        <5>3. node[s[i + 1]].parent = s[(i + 1) - 1]
          BY <1>1, <1>3, <5>1, SpineFacts
        <5>. QED  BY <5>1, <5>2, <5>3
      <4>. QED  BY <4>1, <4>2
    <3>4. node[s[i]].right # NoNode => node[node[s[i]].right].parent = s[i]
      BY <1>1, <1>3, SpineFacts DEF Hangs
    <3>. QED  BY <3>1, <3>2, <3>3, <3>4
  <2>5. ASSUME NEW i \in 1 .. Len(s), NEW r, r = node[s[i]].right, r # NoNode
        PROVE  /\ r \in used /\ (r = m_pRoot <=> node[r].parent = NoNode)
               /\ \A c \in {node[r].left, node[r].right} \ {NoNode} : node[c].parent = r
    <3>1. Hangs(node, r, s[i]) /\ r \in used /\ r # s[1]
      BY <1>3, <2>1, <2>5 DEF Spine
    <3>2. s[i] \in Nodes /\ s[i] # NoNode
      BY <1>1, <1>3, SpineFacts, HeapFacts
    <3>3. node[r].left = NoNode /\ node[r].right = NoNode /\ node[r].parent = s[i]
      BY <3>1 DEF Hangs
    <3>. QED  BY <2>1, <3>1, <3>2, <3>3
  <2>6. ASSUME NEW n \in Range(w)
        PROVE  /\ n \in used /\ (n = m_pRoot <=> node[n].parent = NoNode)
               /\ \A c \in {node[n].left, node[n].right} \ {NoNode} : node[c].parent = n
    <3>1. n \in Reached(node, s, 1)
      BY <2>2
    <3>2. \/ \E i \in 1 .. Len(s) : n = s[i]
          \/ \E i \in 1 .. Len(s) : n = node[s[i]].right /\ n # NoNode
      BY <3>1 DEF Reached
    <3>3. CASE \E i \in 1 .. Len(s) : n = s[i]
      BY <2>4, <3>3
    <3>4. CASE \E i \in 1 .. Len(s) : n = node[s[i]].right /\ n # NoNode
      BY <2>5, <3>4
    <3>. QED  BY <3>2, <3>3, <3>4
  <2>. QED  BY <1>1, <1>4, <2>3, <2>6 DEF LinksExact
<1>. QED  BY <1>6, <1>7

\* A key is found at the root or nowhere.
LEMMA SearchFinds ==
    ASSUME NEW nd \in Heaps, NEW b \in Nat, Ordered(nd, b),
           NEW s, NEW root, NEW us, Spine(s, nd, root, us), NEW key \in Keys
    PROVE  /\ s = <<>> => SearchOf(nd, root, key) = NoNode
           /\ s # <<>> => SearchOf(nd, root, key) = IF nd[root].key = key THEN root ELSE NoNode
<1>1. CASE s = <<>>
  BY <1>1, SearchUnfolds DEF Spine
<1>2. CASE s # <<>>
  <2>1. s \in Seq(Nodes) /\ Len(s) \in Nat /\ 1 \in 1 .. Len(s) /\ Len(s) \in 1 .. Len(s) /\ root = s[1]
    BY <1>2 DEF Spine
  <2>2. key \in Int
    BY KeysAssumption
  <2> DEFINE T == {i \in 1 .. Len(s) : nd[s[i]].key > key => SearchOf(nd, s[i], key) = NoNode}
  <2>3. ASSUME NEW i \in 1 .. Len(s), nd[s[i]].key > key
        PROVE  SearchOf(nd, s[i], key) = SearchOf(nd, nd[s[i]].left, key) /\ nd[s[i]].key \in Int
    <3>1. s[i] \in Nodes /\ nd[s[i]].key \in Int
      BY SpineFacts, HeapFacts
    <3>2. nd[s[i]].key # key
      BY <2>2, <2>3, <3>1
    <3>. QED  BY <2>3, <3>1, <3>2, SearchUnfolds
  <2>4. Len(s) \in T
    <3> SUFFICES ASSUME nd[s[Len(s)]].key > key  PROVE SearchOf(nd, s[Len(s)], key) = NoNode
      BY <2>1
    <3>1. nd[s[Len(s)]].left = NoNode
      BY <2>1, SpineFacts
    <3>. QED  BY <2>1, <2>3, <3>1, SearchUnfolds
  <2>5. ASSUME NEW i \in 1 .. Len(s), i < Len(s), i + 1 \in T  PROVE i \in T
    <3> SUFFICES ASSUME nd[s[i]].key > key  PROVE SearchOf(nd, s[i], key) = NoNode
      OBVIOUS
    <3>1. nd[s[i]].left = s[i + 1] /\ nd[s[i]].key < nd[s[i + 1]].key /\ s[i + 1] \in Nodes
      BY <2>1, <2>5, SpineFacts
    <3>2. nd[s[i]].key \in Int /\ nd[s[i + 1]].key \in Int
      BY <2>3, <3>1, HeapFacts
    <3>3. nd[s[i + 1]].key > key
      BY <2>2, <3>1, <3>2
    <3>. QED  BY <2>3, <2>5, <3>1, <3>3
  <2>6. 1 .. Len(s) \subseteq T
    <3> HIDE DEF T
    <3>. QED  BY <2>1, <2>4, <2>5, DownInduction
  <2>7. root \in Nodes /\ nd[root].key \in Int
    BY <2>1, SpineFacts, HeapFacts
  <2>8. CASE nd[root].key = key
    BY <1>2, <2>7, <2>8, SearchUnfolds
  <2>9. CASE nd[root].key > key
    <3>1. SearchOf(nd, root, key) = NoNode
      BY <2>1, <2>6, <2>9
    <3>2. nd[root].key # key
      BY <2>2, <2>7, <2>9
    <3>. QED  BY <1>2, <3>1, <3>2
  <2>10. CASE nd[root].key < key
    <3>1. nd[root].key # key /\ ~ (nd[root].key > key)
      BY <2>2, <2>7, <2>10
    <3>2. SearchOf(nd, root, key) = SearchOf(nd, nd[root].right, key)
      BY <2>7, <3>1, SearchUnfolds
    <3>3. SearchOf(nd, nd[root].right, key) = NoNode
      <4>1. CASE nd[root].right = NoNode
        BY <4>1, SearchUnfolds
      <4>2. CASE nd[root].right # NoNode
        <5>1. PICK r : r = nd[root].right
          OBVIOUS
        <5>2. r \in Nodes /\ nd[r].right = NoNode /\ nd[r].key <= nd[root].key
          BY <2>1, <4>2, <5>1, SpineFacts DEF Hangs
        <5>3. nd[r].key \in Int
          BY <5>2, HeapFacts
        <5>4. nd[r].key # key /\ ~ (nd[r].key > key)
          BY <2>2, <2>7, <2>10, <5>2, <5>3
        <5>. QED  BY <5>1, <5>2, <5>4, SearchUnfolds
      <4>. QED  BY <4>1, <4>2
    <3>. QED  BY <1>2, <3>1, <3>2, <3>3
  <2>. QED  BY <2>2, <2>7, <2>8, <2>9, <2>10
<1>. QED  BY <1>1, <1>2

\* The node before the root from left to right: the last of its left side.
LEMMA LastOnLeft ==
    ASSUME NEW nd \in Heaps, NEW b \in Nat, Ordered(nd, b),
           NEW s, NEW root, NEW us, Spine(s, nd, root, us), Len(s) >= 2, NEW p, p = OrderAfter(nd, s, 1)
    PROVE  p \in Seq(Nodes) /\ Len(p) >= 1 /\ p[Len(p)] = RightOf(nd, s[2])
<1>1. /\ s \in Seq(Nodes) /\ Len(s) \in Nat /\ 1 \in 1 .. Len(s) /\ 2 \in 1 .. Len(s) /\ 1 # Len(s)
      /\ 1 + 1 = 2
  BY DEF Spine
<1>2. PICK n \in Nodes : n = s[2]
  BY <1>1, SpineFacts
<1>3. PICK q \in Seq(Nodes) : q = OrderAfter(nd, s, 2)
  BY <1>1, OrderType
<1>4. PICK r \in Seq(Nodes) : r = RightSeq(nd, n)
  BY <1>1, <1>2, SpineWalk
<1>5. p = q \o <<n>> \o r
  <2>1. p = OrderOf(nd, s[2])
    BY <1>1 DEF OrderAfter
  <2>. QED  BY <1>1, <1>2, <1>3, <1>4, <2>1, SpineWalk
<1>6. RightOf(nd, n) = IF nd[n].right = NoNode THEN n ELSE RightOf(nd, nd[n].right)
  BY EndsUnfold
<1>7. CASE nd[n].right = NoNode
  <2>1. r = <<>> /\ RightOf(nd, n) = n
    BY <1>4, <1>6, <1>7 DEF RightSeq
  <2>2. p \in Seq(Nodes) /\ Len(p) = Len(q) + 1 /\ p[Len(q) + 1] = n
    BY ONLY <1>5, <2>1, q \in Seq(Nodes), n \in Nodes
  <2>. QED  BY <1>2, <2>1, <2>2
<1>8. CASE nd[n].right # NoNode
  <2>1. PICK c \in Nodes : c = nd[n].right /\ nd[c].right = NoNode
    BY <1>1, <1>2, <1>8, SpineFacts DEF Hangs
  <2>2. RightOf(nd, n) = c
    BY <1>6, <1>8, <2>1, EndsUnfold
  <2>3. r = <<c>>
    BY <1>4, <1>8, <2>1 DEF RightSeq
  <2>4. p \in Seq(Nodes) /\ Len(p) = Len(q) + 2 /\ p[Len(q) + 2] = c
    BY ONLY <1>5, <2>3, q \in Seq(Nodes), n \in Nodes, c \in Nodes
  <2>. QED  BY <1>2, <2>2, <2>4
<1>. QED  BY <1>7, <1>8

LEMMA InvFinds == TreeInv => Neighbours
<1> SUFFICES ASSUME TreeInv  PROVE Neighbours
  OBVIOUS
<1>1. TreeTypeOK /\ node \in Heaps
  BY TypeHeap DEF TreeInv
<1>2. PICK b \in Nat : Ordered(node, b)
  BY DEF TreeInv
<1>3. PICK s : Spine(s, node, m_pRoot, used)
  BY DEF TreeInv
<1>4. SUFFICES ASSUME NEW key \in Keys, search(key) # NoNode
               PROVE  \E k \in 1 .. Len(InOrder) :
                        LET at(j) == IF j \in 1 .. Len(InOrder) THEN InOrder[j] ELSE NoNode IN
                        /\ InOrder[k] = search(key)
                        /\ treeSuccessor(key) = at(k + 1) /\ treePreDecessor(key) = at(k - 1)
  BY DEF Neighbours
<1>5. search(key) = SearchOf(node, m_pRoot, key)
  BY SameWalks
<1>6. s # <<>> /\ search(key) = m_pRoot
  BY <1>1, <1>2, <1>3, <1>4, <1>5, SearchFinds
<1>7. /\ s \in Seq(Nodes) /\ Len(s) \in Nat /\ 1 \in 1 .. Len(s) /\ m_pRoot = s[1]
  BY <1>3, <1>6 DEF Spine
<1>8. PICK x \in Nodes : x = m_pRoot /\ x # NoNode
  BY <1>1, <1>3, <1>7, SpineFacts, HeapFacts
<1>9. PICK p \in Seq(Nodes) : p = OrderAfter(node, s, 1)
  BY <1>1, <1>2, <1>3, <1>7, OrderType
<1>10. PICK q \in Seq(Nodes) : q = RightSeq(node, x)
  BY <1>1, <1>2, <1>3, <1>7, <1>8, SpineWalk
<1>11. PICK a : a = InOrder
  OBVIOUS
<1>12. a = p \o <<x>> \o q
  <2>1. a = OrderOf(node, s[1])
    BY <1>7, <1>11, SameWalks
  <2>. QED  BY <1>1, <1>2, <1>3, <1>7, <1>8, <1>9, <1>10, <2>1, SpineWalk
<1>13. PICK k \in Nat : k = Len(p) + 1
  OBVIOUS
<1>14. /\ a \in Seq(Nodes) /\ Len(a) = Len(p) + 1 + Len(q) /\ k \in 1 .. Len(a) /\ a[k] = x
       /\ \A j \in 1 .. Len(p) : a[j] = p[j]
       /\ \A j \in 1 .. Len(q) : a[k + j] = q[j]
  BY ONLY <1>12, <1>13, p \in Seq(Nodes), q \in Seq(Nodes), x \in Nodes
<1> DEFINE Here(j) == IF j \in 1 .. Len(a) THEN a[j] ELSE NoNode
<1>15. node[x].parent = NoNode
  BY <1>1, <1>3, <1>7, <1>8, SpineFacts
<1>16. treeSuccessor(key) = Here(k + 1)
  <2>1. treeSuccessor(key) = IF node[x].right # NoNode THEN LeftEnd(node[x].right) ELSE UpFromRight(x)
    BY <1>6, <1>8 DEF treeSuccessor
  <2>2. CASE node[x].right = NoNode
    <3>1. treeSuccessor(key) = NoNode
      BY <1>1, <1>2, <1>15, <2>1, <2>2, SameWalks, EndsUnfold
    <3>2. Len(q) = 0
      BY <1>10, <2>2 DEF RightSeq
    <3>3. k + 1 \notin 1 .. Len(a)
      BY <1>13, <1>14, <3>2
    <3>. QED  BY <3>1, <3>3
  <2>3. CASE node[x].right # NoNode
    <3>1. PICK r \in Nodes : r = node[x].right /\ node[r].left = NoNode
      BY <1>1, <1>3, <1>7, <1>8, <2>3, SpineFacts DEF Hangs
    <3>2. treeSuccessor(key) = r
      BY <1>1, <1>2, <2>1, <2>3, <3>1, SameWalks, EndsUnfold
    <3>3. Len(q) = 1 /\ q[1] = r
      BY <1>10, <2>3, <3>1 DEF RightSeq
    <3>4. k + 1 \in 1 .. Len(a) /\ a[k + 1] = r
      BY <1>13, <1>14, <3>3
    <3>. QED  BY <3>2, <3>4
  <2>. QED  BY <2>2, <2>3
<1>17. treePreDecessor(key) = Here(k - 1)
  <2>1. treePreDecessor(key) = IF node[x].left # NoNode THEN RightEnd(node[x].left) ELSE UpFromLeft(x)
    BY <1>6, <1>8 DEF treePreDecessor
  <2>2. CASE Len(s) = 1
    <3>1. node[x].left = NoNode
      BY <1>1, <1>3, <1>7, <1>8, <2>2, SpineFacts
    <3>2. treePreDecessor(key) = NoNode
      BY <1>1, <1>2, <1>15, <2>1, <3>1, SameWalks, EndsUnfold
    <3>3. p = <<>> /\ k = 1
      BY <1>9, <1>13, <2>2 DEF OrderAfter
    <3>. QED  BY <3>2, <3>3
  <2>3. CASE Len(s) # 1
    <3>1. Len(s) >= 2 /\ 2 \in 1 .. Len(s) /\ 1 + 1 = 2
      <4>1. PICK l \in Nat : l = Len(s)
        BY <1>7
      <4>3. 1 \in 1 .. l /\ l # 1
        BY <1>7, <2>3, <4>1, Zenon
      <4>2. l >= 2 /\ 2 \in 1 .. l
        BY ONLY <4>3, l \in Nat
      <4>. QED  BY <4>1, <4>2
    <3>2. node[x].left = s[2] /\ s[2] \in Nodes
      BY <1>1, <1>3, <1>7, <1>8, <2>3, <3>1, SpineFacts
    <3>3. s[2] # NoNode
      BY <1>1, <3>2, HeapFacts
    <3>4. treePreDecessor(key) = RightOf(node, s[2])
      BY <2>1, <3>2, <3>3, SameWalks
    <3>5. Len(p) >= 1 /\ p[Len(p)] = RightOf(node, s[2])
      BY <1>1, <1>2, <1>3, <1>9, <3>1, LastOnLeft
    <3>6. k - 1 = Len(p) /\ k - 1 \in 1 .. Len(a) /\ Len(p) \in 1 .. Len(p)
      BY <1>13, <1>14, <3>5
    <3>7. a[k - 1] = p[Len(p)]
      BY <1>14, <3>6
    <3>. QED  BY <3>4, <3>5, <3>6, <3>7
  <2>. QED  BY <2>2, <2>3
<1> HIDE DEF Here
<1>18. /\ search(key) = m_pRoot
       /\ \E j \in 1 .. Len(a) : a[j] = m_pRoot
            /\ treeSuccessor(key) = Here(j + 1) /\ treePreDecessor(key) = Here(j - 1)
  BY <1>6, <1>8, <1>14, <1>16, <1>17
<1>. QED  BY <1>11, <1>18, Zenon DEF Here

-----------------------------------------------------------------------------
(* How insert and deleteNode change a spine.                                *)

\* The left end of the tree is the end of its spine.
LEMMA LeftFinds ==
    ASSUME NEW nd \in Heaps, NEW b \in Nat, Ordered(nd, b),
           NEW s, NEW root, NEW us, Spine(s, nd, root, us), s # <<>>
    PROVE  LeftOf(nd, root) = s[Len(s)]
<1> DEFINE T == {i \in 1 .. Len(s) : LeftOf(nd, s[i]) = s[Len(s)]}
<1>1. /\ s \in Seq(Nodes) /\ Len(s) \in Nat /\ 1 \in 1 .. Len(s) /\ Len(s) \in 1 .. Len(s)
      /\ root = s[1]
  BY DEF Spine
<1>2. Len(s) \in T
  <2>1. s[Len(s)] \in Nodes /\ nd[s[Len(s)]].left = NoNode
    BY <1>1, SpineFacts
  <2>. QED  BY <1>1, <2>1, EndsUnfold
<1>3. ASSUME NEW i \in 1 .. Len(s), i < Len(s), i + 1 \in T  PROVE i \in T
  <2>1. s[i] \in Nodes /\ nd[s[i]].left = s[i + 1] /\ s[i + 1] \in Nodes
    BY <1>1, <1>3, SpineFacts
  <2>2. s[i + 1] # NoNode
    BY <2>1, HeapFacts
  <2>. QED  BY <1>3, <2>1, <2>2, EndsUnfold
<1>4. 1 .. Len(s) \subseteq T
  <2> HIDE DEF T
  <2>. QED  BY <1>1, <1>2, <1>3, DownInduction
<1>. QED  BY <1>1, <1>4

\* Nodes outside the tree may change.
LEMMA SpineSame ==
    ASSUME NEW nd, NEW s, NEW root, NEW us, Spine(s, nd, root, us),
           NEW nd2, NEW us2, us \subseteq us2, \A m \in us : nd2[m] = nd[m]
    PROVE  Spine(s, nd2, root, us2)
<1>1. ASSUME NEW i \in 1 .. Len(s)
      PROVE  /\ s[i] \in us2 /\ nd2[s[i]] = nd[s[i]]
             /\ i < Len(s) => nd2[s[i + 1]] = nd[s[i + 1]]
  <2>1. s[i] \in us /\ s \in Seq(Nodes)
    BY DEF Spine
  <2>2. i < Len(s) => i + 1 \in 1 .. Len(s)
    BY <2>1
  <2>3. i < Len(s) => s[i + 1] \in us
    BY <2>2 DEF Spine
  <2>. QED  BY <2>1, <2>3
<1>2. ASSUME NEW i \in 1 .. Len(s), nd[s[i]].right # NoNode
      PROVE  nd[s[i]].right \in us2 /\ nd2[nd[s[i]].right] = nd[nd[s[i]].right]
  BY <1>2 DEF Spine
<1>3. \A i \in 1 .. Len(s) :
         /\ s[i] \in us2
         /\ nd2[s[i]].left = IF i = Len(s) THEN NoNode ELSE s[i + 1]
         /\ nd2[s[i]].parent = IF i = 1 THEN NoNode ELSE s[i - 1]
         /\ i < Len(s) => nd2[s[i]].key < nd2[s[i + 1]].key
  BY <1>1 DEF Spine
<1>4. \A i \in 1 .. Len(s) : nd2[s[i]].right # NoNode =>
         /\ Hangs(nd2, nd2[s[i]].right, s[i]) /\ nd2[s[i]].right \in us2
         /\ i < Len(s) => nd2[s[i]].right < s[i + 1]
         /\ \A j \in 1 .. Len(s) : nd2[s[i]].right # s[j]
  BY <1>1, <1>2 DEF Spine, Hangs
<1>. QED  BY <1>3, <1>4 DEF Spine

\* A larger key: the spine gets longer.
LEMMA SpineGrows ==
    ASSUME NEW nd \in Heaps, NEW s, NEW root, NEW us, Spine(s, nd, root, us), s # <<>>,
           NEW n \in Nodes, n \notin us, \A m \in us : m < n, NEW p, p = s[Len(s)],
           NEW nd2, nd[p].key < nd2[n].key, nd2[n].parent = p,
           nd2[n].left = NoNode, nd2[n].right = NoNode,
           nd2[p].key = nd[p].key, nd2[p].parent = nd[p].parent,
           nd2[p].left = n, nd2[p].right = nd[p].right,
           \A m \in us : m # p => nd2[m] = nd[m]
    PROVE  Spine(Append(s, n), nd2, root, us \cup {n})
<1>1. s \in Seq(Nodes) /\ Len(s) \in Nat /\ Len(s) > 0 /\ Len(s) \in 1 .. Len(s) /\ root = s[1]
  BY DEF Spine
<1>2. PICK t : t = Append(s, n)
  OBVIOUS
<1>3. PICK l \in Nat : l = Len(s) /\ l > 0
  BY <1>1
<1>4. /\ t \in Seq(Nodes) /\ Len(t) = l + 1 /\ t[l + 1] = n
      /\ \A i \in 1 .. l : t[i] = s[i]
  BY <1>1, <1>2, <1>3
<1>5. ASSUME NEW i \in 1 .. l  PROVE s[i] \in us /\ s[i] # n /\ (i # l => s[i] # p)
  <2>1. s[i] \in us
    BY <1>3 DEF Spine
  <2>2. i # l => s[i] # p
    BY <1>1, <1>3, SpineFacts
  <2>. QED  BY <2>1, <2>2
<1>6. Distinct(t)
  <2>1. n \notin Range(s)
    BY <1>1, <1>3, <1>5 DEF Range
  <2>. QED  BY <1>1, <1>2, <2>1, DistinctAppend DEF Spine
<1>7. t # <<>> /\ root = t[1]
  BY <1>1, <1>3, <1>4
<1>8. ASSUME NEW i \in 1 .. l, i # l
      PROVE  /\ nd2[t[i]] = nd[s[i]] /\ nd2[t[i + 1]].key = nd[s[i + 1]].key
             /\ t[i] = s[i] /\ t[i + 1] = s[i + 1] /\ (i # 1 => t[i - 1] = s[i - 1])
             /\ i + 1 \in 1 .. l
  <2>1. i + 1 \in 1 .. l /\ (i # 1 => i - 1 \in 1 .. l)
    BY <1>3, <1>8
  <2>2. t[i] = s[i] /\ t[i + 1] = s[i + 1] /\ (i # 1 => t[i - 1] = s[i - 1])
    BY <1>4, <2>1
  <2>3. nd2[s[i]] = nd[s[i]]
    BY <1>5, <1>8
  <2>4. nd2[s[i + 1]].key = nd[s[i + 1]].key
    <3>1. CASE i + 1 = l
      BY <1>3, <3>1
    <3>2. CASE i + 1 # l
      BY <1>5, <2>1, <3>2
    <3>. QED  BY <3>1, <3>2
  <2>. QED  BY <2>1, <2>2, <2>3, <2>4
<1>9. ASSUME NEW i \in 1 .. l + 1
      PROVE  /\ t[i] \in us \cup {n}
             /\ nd2[t[i]].left = IF i = l + 1 THEN NoNode ELSE t[i + 1]
             /\ nd2[t[i]].parent = IF i = 1 THEN NoNode ELSE t[i - 1]
             /\ i < l + 1 => nd2[t[i]].key < nd2[t[i + 1]].key
  <2>1. CASE i = l + 1
    <3>1. t[i] = n /\ i - 1 = l /\ l \in 1 .. l /\ i # 1
      BY <1>3, <1>4, <2>1
    <3>2. t[i - 1] = p
      BY <1>3, <1>4, <3>1
    <3>. QED  BY <2>1, <3>1, <3>2
  <2>2. CASE i = l
    <3>1. t[i] = p /\ t[i + 1] = n /\ i # l + 1 /\ i < l + 1
      BY <1>3, <1>4, <2>2
    <3>2. nd[p].parent = IF i = 1 THEN NoNode ELSE s[i - 1]
      <4>1. i = Len(s) /\ i \in 1 .. Len(s) /\ p = s[i]
        BY <1>1, <1>3, <2>2
      <4>. QED  BY <4>1, SpineFacts
    <3>3. i # 1 => s[i - 1] = t[i - 1]
      BY <1>3, <1>4, <2>2
    <3>4. p \in us
      BY <1>3, <1>5, <2>2
    <3>. QED  BY <3>1, <3>2, <3>3, <3>4
  <2>3. CASE i # l + 1 /\ i # l
    <3>1. i \in 1 .. l /\ i # l /\ i < l
      BY <1>3, <2>3
    <3>2. /\ nd[s[i]].left = s[i + 1]
          /\ nd[s[i]].parent = IF i = 1 THEN NoNode ELSE s[i - 1]
          /\ nd[s[i]].key < nd[s[i + 1]].key
      <4>1. i \in 1 .. Len(s) /\ i # Len(s) /\ i < Len(s)
        BY <1>3, <3>1
      <4>. QED  BY <4>1, SpineFacts
    <3>3. s[i] \in us
      BY <1>5, <3>1
    <3>. QED  BY <1>8, <2>3, <3>1, <3>2, <3>3
  <2>. QED  BY <2>1, <2>2, <2>3
<1>10. ASSUME NEW i \in 1 .. l + 1, nd2[t[i]].right # NoNode
       PROVE  /\ Hangs(nd2, nd2[t[i]].right, t[i]) /\ nd2[t[i]].right \in us \cup {n}
              /\ i < l + 1 => nd2[t[i]].right < t[i + 1]
              /\ \A j \in 1 .. l + 1 : nd2[t[i]].right # t[j]
  <2>1. i # l + 1
    BY <1>4, <1>10
  <2>2. i \in 1 .. l /\ t[i] = s[i] /\ i < l + 1
    BY <1>3, <1>4, <2>1
  <2>3. nd2[t[i]].right = nd[s[i]].right /\ nd2[t[i]].key = nd[s[i]].key
    BY <1>3, <1>5, <2>2
  <2>4. PICK r : r = nd[s[i]].right /\ r # NoNode
    BY <1>10, <2>3
  <2>5. /\ Hangs(nd, r, s[i]) /\ r \in us /\ \A j \in 1 .. l : r # s[j]
        /\ i < l => r < s[i + 1]
    BY <1>3, <2>2, <2>4 DEF Spine
  <2>6. nd2[r] = nd[r] /\ r # n
    BY <1>1, <1>3, <2>5
  <2>7. Hangs(nd2, r, t[i])
    BY <2>2, <2>3, <2>5, <2>6 DEF Hangs
  <2>8. r < t[i + 1]
    <3>1. CASE i = l
      BY <1>4, <2>5, <3>1
    <3>2. CASE i # l
      BY <1>3, <1>8, <2>2, <2>5, <3>2
    <3>. QED  BY <3>1, <3>2
  <2>9. \A j \in 1 .. l + 1 : r # t[j]
    <3> SUFFICES ASSUME NEW j \in 1 .. l + 1  PROVE r # t[j]
      OBVIOUS
    <3>1. CASE j = l + 1
      BY <1>4, <2>6, <3>1
    <3>2. CASE j # l + 1
      <4>1. j \in 1 .. l
        BY <1>3, <3>2
      <4>. QED  BY <1>4, <2>5, <4>1
    <3>. QED  BY <3>1, <3>2
  <2>. QED  BY <2>3, <2>4, <2>5, <2>7, <2>8, <2>9
<1>11. \A i \in 1 .. Len(t) :
         /\ t[i] \in us \cup {n}
         /\ nd2[t[i]].left = IF i = Len(t) THEN NoNode ELSE t[i + 1]
         /\ nd2[t[i]].parent = IF i = 1 THEN NoNode ELSE t[i - 1]
         /\ i < Len(t) => nd2[t[i]].key < nd2[t[i + 1]].key
  BY ONLY <1>4, <1>9, Zenon
<1>12. \A i \in 1 .. Len(t) : nd2[t[i]].right # NoNode =>
         /\ Hangs(nd2, nd2[t[i]].right, t[i]) /\ nd2[t[i]].right \in us \cup {n}
         /\ i < Len(t) => nd2[t[i]].right < t[i + 1]
         /\ \A j \in 1 .. Len(t) : nd2[t[i]].right # t[j]
  BY ONLY <1>4, <1>10, Zenon
<1>13. root = IF t = <<>> THEN NoNode ELSE t[1]
  BY <1>7
<1>14. Spine(t, nd2, root, us \cup {n})
  BY ONLY <1>4, <1>6, <1>11, <1>12, <1>13, Zenon DEF Spine
<1>. QED  BY <1>2, <1>14

\* Another key: the node hangs on the end of the spine, where one may be lost.
LEMMA SpineHangs ==
    ASSUME NEW nd \in Heaps, NEW s, NEW root, NEW us, Spine(s, nd, root, us), s # <<>>,
           NEW n \in Nodes, n \notin us, NEW p, p = s[Len(s)],
           NEW nd2, nd2[n].key <= nd[p].key, nd2[n].parent = p,
           nd2[n].left = NoNode, nd2[n].right = NoNode,
           nd2[p].key = nd[p].key, nd2[p].parent = nd[p].parent,
           nd2[p].left = nd[p].left, nd2[p].right = n,
           \A m \in us : m # p => nd2[m] = nd[m]
    PROVE  Spine(s, nd2, root, us \cup {n})
<1>1. s \in Seq(Nodes) /\ Len(s) \in Nat /\ Len(s) > 0 /\ Len(s) \in 1 .. Len(s) /\ root = s[1]
  BY DEF Spine
<1>2. ASSUME NEW i \in 1 .. Len(s)
      PROVE  /\ s[i] \in us /\ s[i] # n /\ (i # Len(s) => s[i] # p)
             /\ nd2[s[i]].left = nd[s[i]].left /\ nd2[s[i]].parent = nd[s[i]].parent
             /\ nd2[s[i]].key = nd[s[i]].key
             /\ i # Len(s) => nd2[s[i]].right = nd[s[i]].right
  <2>1. s[i] \in us
    BY DEF Spine
  <2>2. i # Len(s) => s[i] # p
    BY <1>1, SpineFacts
  <2>3. CASE i = Len(s)
    BY <2>1, <2>3
  <2>4. CASE i # Len(s)
    BY <2>1, <2>2, <2>4
  <2>. QED  BY <2>3, <2>4
<1>3. ASSUME NEW i \in 1 .. Len(s)
      PROVE  /\ s[i] \in us \cup {n}
             /\ nd2[s[i]].left = IF i = Len(s) THEN NoNode ELSE s[i + 1]
             /\ nd2[s[i]].parent = IF i = 1 THEN NoNode ELSE s[i - 1]
             /\ i < Len(s) => nd2[s[i]].key < nd2[s[i + 1]].key
  <2>1. /\ nd[s[i]].left = IF i = Len(s) THEN NoNode ELSE s[i + 1]
        /\ nd[s[i]].parent = IF i = 1 THEN NoNode ELSE s[i - 1]
        /\ i < Len(s) => i + 1 \in 1 .. Len(s) /\ nd[s[i]].key < nd[s[i + 1]].key
    BY SpineFacts
  <2>. QED  BY <1>2, <2>1
<1>4. ASSUME NEW i \in 1 .. Len(s), nd2[s[i]].right # NoNode
      PROVE  /\ Hangs(nd2, nd2[s[i]].right, s[i]) /\ nd2[s[i]].right \in us \cup {n}
             /\ i < Len(s) => nd2[s[i]].right < s[i + 1]
             /\ \A j \in 1 .. Len(s) : nd2[s[i]].right # s[j]
  <2>1. CASE i = Len(s)
    BY <1>1, <1>2, <2>1 DEF Hangs
  <2>2. CASE i # Len(s)
    <3>1. PICK r : r = nd[s[i]].right /\ r # NoNode /\ nd2[s[i]].right = r
      BY <1>2, <1>4, <2>2
    <3>2. /\ Hangs(nd, r, s[i]) /\ r \in us /\ \A j \in 1 .. Len(s) : r # s[j]
          /\ i < Len(s) => r < s[i + 1]
      BY <3>1 DEF Spine
    <3>3. nd2[r] = nd[r]
      BY <1>1, <3>2
    <3>4. Hangs(nd2, r, s[i])
      BY <1>2, <3>2, <3>3 DEF Hangs
    <3>. QED  BY <3>1, <3>2, <3>4
  <2>. QED  BY <2>1, <2>2
<1>. QED  BY <1>1, <1>3, <1>4 DEF Spine

\* Of a spine with two nodes or more, the first is left out.
LEMMA SpineDrops ==
    ASSUME NEW nd \in Heaps, NEW s, NEW root, NEW us, Spine(s, nd, root, us), Len(s) >= 2,
           NEW n, n = s[2], NEW nd2, nd2[n].key = nd[n].key, nd2[n].parent = NoNode,
           nd2[n].left = nd[n].left, nd2[n].right = nd[n].right,
           \A m \in us : m # n => nd2[m] = nd[m]
    PROVE  Spine(Tail(s), nd2, n, us)
<1>1. s \in Seq(Nodes) /\ Len(s) \in Nat /\ 1 \in 1 .. Len(s) /\ 2 \in 1 .. Len(s)
  BY DEF Spine
<1>2. PICK t : t = Tail(s)
  OBVIOUS
<1>3. PICK l \in Nat : l + 1 = Len(s) /\ l >= 1
  <2>1. Len(s) - 1 \in Nat /\ (Len(s) - 1) + 1 = Len(s) /\ Len(s) - 1 >= 1
    BY <1>1
  <2>. QED  BY <2>1
<1>4. /\ t \in Seq(Nodes) /\ Len(t) = l /\ t # <<>> /\ t[1] = n
      /\ \A i \in 1 .. l : t[i] = s[i + 1]
  <2>1. t \in Seq(Nodes) /\ Len(t) = Len(s) - 1 /\ \A i \in 1 .. Len(s) - 1 : t[i] = s[i + 1]
    BY <1>1, <1>2
  <2>2. Len(s) - 1 = l /\ 1 \in 1 .. l /\ 1 + 1 = 2
    BY <1>3
  <2>3. Len(t) = l /\ \A i \in 1 .. l : t[i] = s[i + 1]
    BY <2>1, <2>2
  <2>4. t[1] = n
    BY <2>2, <2>3
  <2>5. t # <<>>
    BY <1>3, <2>3
  <2>. QED  BY <2>1, <2>3, <2>4, <2>5
<1>5. ASSUME NEW i \in 1 .. l
      PROVE  /\ i + 1 \in 1 .. Len(s) /\ t[i] = s[i + 1] /\ t[i] \in us
             /\ i # 1 => /\ t[i] # n /\ nd2[t[i]] = nd[t[i]] /\ t[i - 1] = s[i] /\ i \in 1 .. Len(s)
             /\ i # l => t[i + 1] = s[i + 2] /\ i + 2 \in 1 .. Len(s) /\ i + 1 \in 1 .. l
  <2>1. i + 1 \in 1 .. Len(s) /\ i \in 1 .. Len(s) /\ (i # 1 => i + 1 # 2 /\ i - 1 \in 1 .. l /\ (i - 1) + 1 = i)
    BY <1>3
  <2>2. t[i] = s[i + 1] /\ s[i + 1] \in us
    BY <1>4, <2>1, SpineFacts
  <2>3. i # 1 => s[i + 1] # s[2]
    BY <1>1, <2>1, SpineFacts
  <2>4. i # l => i + 1 \in 1 .. l /\ (i + 1) + 1 = i + 2 /\ i + 2 \in 1 .. Len(s)
    BY <1>3
  <2>5. i # l => t[i + 1] = s[i + 2]
    BY <1>4, <2>4
  <2>6. i # 1 => t[i - 1] = s[i]
    BY <1>4, <2>1
  <2>. QED  BY <2>1, <2>2, <2>3, <2>4, <2>5, <2>6
<1>6. ASSUME NEW i \in 1 .. l
      PROVE  /\ nd2[t[i]].left = nd[t[i]].left /\ nd2[t[i]].right = nd[t[i]].right
             /\ nd2[t[i]].key = nd[t[i]].key
  <2>1. CASE i = 1
    BY <1>4, <2>1
  <2>2. CASE i # 1
    BY <1>5, <2>2
  <2>. QED  BY <2>1, <2>2
<1>7. Distinct(t)
  BY <1>1, <1>2, <1>3, DistinctTail DEF Spine
<1>8. ASSUME NEW i \in 1 .. l
      PROVE  /\ t[i] \in us
             /\ nd2[t[i]].left = IF i = l THEN NoNode ELSE t[i + 1]
             /\ nd2[t[i]].parent = IF i = 1 THEN NoNode ELSE t[i - 1]
             /\ i < l => nd2[t[i]].key < nd2[t[i + 1]].key
  <2>1. /\ nd[t[i]].left = IF i + 1 = Len(s) THEN NoNode ELSE s[(i + 1) + 1]
        /\ nd[t[i]].parent = s[(i + 1) - 1]
        /\ i + 1 < Len(s) => nd[t[i]].key < nd[s[(i + 1) + 1]].key
    BY <1>5, SpineFacts
  <2>2. (i + 1) + 1 = i + 2 /\ (i + 1) - 1 = i /\ (i + 1 = Len(s) <=> i = l) /\ (i < l => i # l /\ i + 1 < Len(s))
    BY <1>3
  <2>3. nd2[t[i]].left = IF i = l THEN NoNode ELSE t[i + 1]
    BY <1>5, <1>6, <2>1, <2>2
  <2>4. nd2[t[i]].parent = IF i = 1 THEN NoNode ELSE t[i - 1]
    <3>1. CASE i = 1
      BY <1>4, <3>1
    <3>2. CASE i # 1
      BY <1>5, <2>1, <2>2, <3>2
    <3>. QED  BY <3>1, <3>2
  <2>5. i < l => nd2[t[i]].key < nd2[t[i + 1]].key
    BY <1>5, <1>6, <2>1, <2>2
  <2>. QED  BY <1>5, <2>3, <2>4, <2>5
<1>9. ASSUME NEW i \in 1 .. l, nd2[t[i]].right # NoNode
      PROVE  /\ Hangs(nd2, nd2[t[i]].right, t[i]) /\ nd2[t[i]].right \in us
             /\ i < l => nd2[t[i]].right < t[i + 1]
             /\ \A j \in 1 .. l : nd2[t[i]].right # t[j]
  <2>1. PICK r : r = nd[s[i + 1]].right /\ r # NoNode /\ nd2[t[i]].right = r
    BY <1>5, <1>6, <1>9
  <2>2. /\ Hangs(nd, r, s[i + 1]) /\ r \in us /\ \A j \in 1 .. Len(s) : r # s[j]
        /\ i + 1 < Len(s) => r < s[(i + 1) + 1]
    BY <1>5, <2>1 DEF Spine
  <2>3. nd2[r] = nd[r]
    BY <1>1, <2>2
  <2>4. Hangs(nd2, r, t[i])
    BY <1>5, <1>6, <2>2, <2>3 DEF Hangs
  <2>5. i < l => r < t[i + 1]
    <3>1. i < l => i # l /\ i + 1 < Len(s) /\ (i + 1) + 1 = i + 2
      BY <1>3
    <3>. QED  BY <1>5, <2>2, <3>1
  <2>6. ASSUME NEW j \in 1 .. l  PROVE r # t[j]
    <3>1. j + 1 \in 1 .. Len(s) /\ t[j] = s[j + 1]
      BY <1>5
    <3>. QED  BY ONLY <2>2, <3>1
  <2>. QED  BY <2>1, <2>2, <2>4, <2>5, <2>6
<1>10. n = IF t = <<>> THEN NoNode ELSE t[1]
  BY <1>4
<1>11. Spine(t, nd2, n, us)
  <2>1. \A i \in 1 .. Len(t) :
          /\ t[i] \in us
          /\ nd2[t[i]].left = IF i = Len(t) THEN NoNode ELSE t[i + 1]
          /\ nd2[t[i]].parent = IF i = 1 THEN NoNode ELSE t[i - 1]
          /\ i < Len(t) => nd2[t[i]].key < nd2[t[i + 1]].key
    BY <1>4, <1>8, Zenon
  <2>2. \A i \in 1 .. Len(t) : nd2[t[i]].right # NoNode =>
          /\ Hangs(nd2, nd2[t[i]].right, t[i]) /\ nd2[t[i]].right \in us
          /\ i < Len(t) => nd2[t[i]].right < t[i + 1]
          /\ \A j \in 1 .. Len(t) : nd2[t[i]].right # t[j]
    BY <1>4, <1>9, Zenon
  <2>. QED  BY ONLY <1>4, <1>7, <1>10, <2>1, <2>2, Zenon DEF Spine
<1>. QED  BY <1>2, <1>11

\* The child on the right of the first node takes its place.
LEMMA SpineReplaces ==
    ASSUME NEW nd \in Heaps, NEW s, NEW root, NEW us, Spine(s, nd, root, us), s # <<>>,
           NEW r, r = nd[s[1]].right, r # NoNode,
           NEW nd2, nd2[r].key = nd[r].key, nd2[r].parent = NoNode, nd2[r].right = NoNode,
           nd2[r].left = IF Len(s) = 1 THEN NoNode ELSE s[2],
           Len(s) >= 2 => /\ nd2[s[2]].key = nd[s[2]].key /\ nd2[s[2]].parent = r
                          /\ nd2[s[2]].left = nd[s[2]].left /\ nd2[s[2]].right = nd[s[2]].right,
           \A m \in us : m # r /\ (Len(s) >= 2 => m # s[2]) => nd2[m] = nd[m],
           NEW t, t = [s EXCEPT ![1] = r]
    PROVE  Spine(t, nd2, r, us)
<1>1. s \in Seq(Nodes) /\ Len(s) \in Nat /\ 1 \in 1 .. Len(s)
  BY DEF Spine
<1>2. PICK l \in Nat : l = Len(s) /\ l >= 1
  BY <1>1
<1>3. /\ r \in Nodes /\ r \in us /\ nd[r].parent = s[1] /\ nd[r].key <= nd[s[1]].key
      /\ \A j \in 1 .. l : r # s[j]
      /\ l > 1 => r < s[2]
  <2>1. /\ Hangs(nd, r, s[1]) /\ r \in us /\ \A j \in 1 .. l : r # s[j]
        /\ 1 < Len(s) => r < s[1 + 1]
    BY <1>1, <1>2 DEF Spine
  <2>. QED  BY <1>2, <2>1 DEF Hangs
<1>4. /\ t \in Seq(Nodes) /\ Len(t) = l /\ t # <<>> /\ t[1] = r
      /\ \A i \in 1 .. l : i # 1 => t[i] = s[i]
  BY <1>1, <1>2, <1>3
<1>5. ASSUME NEW i \in 1 .. l, i # 1
      PROVE  /\ t[i] = s[i] /\ t[i] \in us /\ t[i] # r /\ i - 1 \in 1 .. l /\ l >= 2
             /\ nd2[t[i]].left = nd[s[i]].left /\ nd2[t[i]].right = nd[s[i]].right
             /\ nd2[t[i]].key = nd[s[i]].key
             /\ nd2[t[i]].parent = IF i = 2 THEN r ELSE nd[s[i]].parent
  <2>1. i - 1 \in 1 .. l /\ l >= 2 /\ 2 \in 1 .. l
    BY <1>2, <1>5
  <2>2. t[i] = s[i] /\ s[i] \in us /\ s[i] # r
    BY <1>2, <1>3, <1>4, <1>5, SpineFacts
  <2>3. CASE i = 2
    BY <1>2, <2>1, <2>2, <2>3
  <2>4. CASE i # 2
    <3>1. s[i] # s[2]
      BY <1>2, <2>1, <2>4, SpineFacts
    <3>. QED  BY <1>2, <2>1, <2>2, <2>4, <3>1
  <2>. QED  BY <2>3, <2>4
<1>6. Distinct(t)
  <2> SUFFICES ASSUME NEW i \in 1 .. l, NEW j \in 1 .. l, t[i] = t[j]  PROVE i = j
    BY <1>4 DEF Distinct
  <2>1. CASE i # 1 /\ j # 1
    BY <1>2, <1>5, <2>1, SpineFacts
  <2>2. CASE i = 1 /\ j # 1
    BY <1>4, <1>5, <2>2
  <2>3. CASE i # 1 /\ j = 1
    BY <1>4, <1>5, <2>3
  <2>. QED  BY <2>1, <2>2, <2>3
<1>7. ASSUME NEW i \in 1 .. l
      PROVE  /\ t[i] \in us
             /\ nd2[t[i]].left = IF i = l THEN NoNode ELSE t[i + 1]
             /\ nd2[t[i]].parent = IF i = 1 THEN NoNode ELSE t[i - 1]
             /\ i < l => nd2[t[i]].key < nd2[t[i + 1]].key
  <2>1. i # l => i + 1 \in 1 .. l /\ i + 1 # 1 /\ t[i + 1] = s[i + 1] /\ nd2[t[i + 1]].key = nd[s[i + 1]].key
    <3>1. i # l => i + 1 \in 1 .. l /\ i + 1 # 1
      BY <1>2
    <3>. QED  BY <1>5, <3>1
  <2>2. /\ nd[s[i]].left = IF i = l THEN NoNode ELSE s[i + 1]
        /\ nd[s[i]].parent = IF i = 1 THEN NoNode ELSE s[i - 1]
        /\ i < l => nd[s[i]].key < nd[s[i + 1]].key
    BY <1>2, SpineFacts
  <2>3. i < l => i # l
    BY <1>2
  <2>4. CASE i = 1
    <3>1. nd2[r].left = IF i = l THEN NoNode ELSE t[i + 1]
      BY <1>2, <2>1, <2>4
    <3>2. i < l => nd2[r].key < nd2[t[i + 1]].key
      <4>1. SUFFICES ASSUME i < l  PROVE nd2[r].key < nd2[t[i + 1]].key
        OBVIOUS
      <4>2. s[1] \in Nodes /\ s[i + 1] \in Nodes /\ nd[s[1]].key < nd[s[i + 1]].key
        BY <1>2, <2>2, <2>4, <4>1, SpineFacts
      <4>3. nd[s[1]].key \in Int /\ nd[s[i + 1]].key \in Int /\ nd[r].key \in Int
        BY <1>3, <4>2, HeapFacts
      <4>4. nd[r].key < nd[s[i + 1]].key
        BY ONLY <1>3, <4>2, <4>3
      <4>. QED  BY <2>1, <2>3, <4>1, <4>4
    <3>. QED  BY <1>3, <1>4, <2>4, <3>1, <3>2
  <2>5. CASE i # 1
    <3>1. nd2[t[i]].left = IF i = l THEN NoNode ELSE t[i + 1]
      BY <1>5, <2>1, <2>2, <2>5
    <3>2. nd2[t[i]].parent = t[i - 1]
      <4>1. CASE i = 2
        BY <1>4, <1>5, <2>5, <4>1
      <4>2. CASE i # 2
        <5>1. i - 1 \in 1 .. l /\ i - 1 # 1
          BY <1>2, <2>5, <4>2
        <5>. QED  BY <1>5, <2>2, <2>5, <4>2, <5>1
      <4>. QED  BY <4>1, <4>2
    <3>3. i < l => nd2[t[i]].key < nd2[t[i + 1]].key
      BY <1>5, <2>1, <2>2, <2>3, <2>5
    <3>. QED  BY <1>5, <2>5, <3>1, <3>2, <3>3
  <2>. QED  BY <2>4, <2>5
<1>8. ASSUME NEW i \in 1 .. l, nd2[t[i]].right # NoNode
      PROVE  /\ Hangs(nd2, nd2[t[i]].right, t[i]) /\ nd2[t[i]].right \in us
             /\ i < l => nd2[t[i]].right < t[i + 1]
             /\ \A j \in 1 .. l : nd2[t[i]].right # t[j]
  <2>1. i # 1
    BY <1>4, <1>8
  <2>2. PICK c : c = nd[s[i]].right /\ c # NoNode /\ nd2[t[i]].right = c
    BY <1>5, <1>8, <2>1
  <2>3. /\ Hangs(nd, c, s[i]) /\ c \in us /\ \A j \in 1 .. l : c # s[j]
        /\ i < l => c < s[i + 1]
    <3>1. i \in 1 .. Len(s) /\ l = Len(s)
      BY <1>2
    <3>2. nd[s[i]].right # NoNode =>
            /\ Hangs(nd, nd[s[i]].right, s[i]) /\ nd[s[i]].right \in us
            /\ i < Len(s) => nd[s[i]].right < s[i + 1]
            /\ \A j \in 1 .. Len(s) : nd[s[i]].right # s[j]
      BY ONLY <3>1, Spine(s, nd, root, us) DEF Spine
    <3>. QED  BY ONLY <2>2, <3>1, <3>2
  <2>4. c # r
    <3>1. nd[c].parent = s[i] /\ s[i] # s[1]
      BY <1>1, <1>2, <2>1, <2>3, SpineFacts DEF Hangs
    <3>. QED  BY <1>3, <3>1
  <2>5. nd2[c] = nd[c]
    <3>1. Len(s) >= 2 => 2 \in 1 .. l
      BY <1>2
    <3>. QED  BY <2>3, <2>4, <3>1
  <2>6. Hangs(nd2, c, t[i])
    BY <1>5, <2>1, <2>3, <2>5 DEF Hangs
  <2>7. i < l => c < t[i + 1]
    <3>1. i < l => i + 1 \in 1 .. l /\ i + 1 # 1
      BY <1>2
    <3>. QED  BY <1>4, <2>3, <3>1
  <2>8. \A j \in 1 .. l : c # t[j]
    BY <1>4, <2>3, <2>4
  <2>. QED  BY <2>2, <2>3, <2>6, <2>7, <2>8
<1>9. r = IF t = <<>> THEN NoNode ELSE t[1]
  BY <1>4
<1>10. \A i \in 1 .. Len(t) :
          /\ t[i] \in us
          /\ nd2[t[i]].left = IF i = Len(t) THEN NoNode ELSE t[i + 1]
          /\ nd2[t[i]].parent = IF i = 1 THEN NoNode ELSE t[i - 1]
          /\ i < Len(t) => nd2[t[i]].key < nd2[t[i + 1]].key
  BY ONLY <1>4, <1>7, Zenon
<1>11. \A i \in 1 .. Len(t) : nd2[t[i]].right # NoNode =>
          /\ Hangs(nd2, nd2[t[i]].right, t[i]) /\ nd2[t[i]].right \in us
          /\ i < Len(t) => nd2[t[i]].right < t[i + 1]
          /\ \A j \in 1 .. Len(t) : nd2[t[i]].right # t[j]
  BY ONLY <1>4, <1>8, Zenon
<1>. QED  BY ONLY <1>4, <1>6, <1>9, <1>10, <1>11, Zenon DEF Spine

\* A node at the root is replaced by v.
LEMMA TransplantRoot ==
    ASSUME NEW nd \in Heaps, NEW root, NEW u \in Nodes, nd[u].parent = NoNode,
           NEW v \in Nodes \cup {NoNode}
    PROVE  transplant([node |-> nd, root |-> root], u, v)
             = [node |-> IF v = NoNode THEN nd ELSE [nd EXCEPT ![v] = [nd[v] EXCEPT !.parent = NoNode]],
                root |-> v]
<1>1. PICK t : t = [node |-> nd, root |-> root]
  OBVIOUS
<1>2. t.node = nd /\ [t EXCEPT !.root = v] = [node |-> nd, root |-> v]
  BY <1>1
<1>3. CASE v = NoNode
  <2>1. transplant(t, u, v) = [node |-> nd, root |-> v]
    BY <1>2, <1>3 DEF transplant
  <2>. QED  BY <1>1, <1>3, <2>1
<1>4. CASE v # NoNode
  <2>1. PICK h : h = [node |-> nd, root |-> v]
    OBVIOUS
  <2>2. transplant(t, u, v) = [h EXCEPT !.node[v].parent = NoNode]
    BY <1>2, <1>4, <2>1 DEF transplant
  <2>3. [h EXCEPT !.node[v].parent = NoNode]
          = [node |-> [nd EXCEPT ![v] = [nd[v] EXCEPT !.parent = NoNode]], root |-> v]
    BY <2>1 DEF Heaps, Records
  <2>. QED  BY <1>1, <1>4, <2>2, <2>3
<1>. QED  BY <1>3, <1>4

\* y, whose place is clear, gets the left child of x.
LEMMA AdoptLeft ==
    ASSUME NEW nd \in Heaps, NEW root, NEW y \in Nodes, NEW x \in Nodes, NEW c \in Nodes,
           c = nd[x].left, c # y, NEW t, t = Adopt([node |-> nd, root |-> root], y, x, "left")
    PROVE  /\ t.root = root /\ t.node \in Heaps
           /\ t.node[y] = [nd[y] EXCEPT !.left = c]
           /\ t.node[c] = [nd[c] EXCEPT !.parent = y]
           /\ \A n \in Nodes : n # y /\ n # c => t.node[n] = nd[n]
<1>1. nd[x]["left"] = c /\ nd[y] \in Records /\ nd[c] \in Records
  BY DEF Heaps, Records
<1>2. t.root = root /\ t.node = [nd EXCEPT ![y] = [@ EXCEPT !["left"] = c], ![c].parent = y]
  BY <1>1 DEF Adopt
<1>3. [nd[y] EXCEPT !["left"] = c] \in Records /\ [nd[c] EXCEPT !.parent = y] \in Records
  BY <1>1 DEF Records
<1>4. t.node = [nd EXCEPT ![y] = [nd[y] EXCEPT !.left = c], ![c] = [nd[c] EXCEPT !.parent = y]]
  BY <1>1, <1>2 DEF Heaps, Records
<1>5. PICK ry \in Records : ry = [nd[y] EXCEPT !.left = c]
  BY <1>1 DEF Records
<1>6. PICK rc \in Records : rc = [nd[c] EXCEPT !.parent = y]
  BY <1>3
<1>7. t.node = [nd EXCEPT ![y] = ry, ![c] = rc]
  BY <1>4, <1>5, <1>6
<1>8. /\ t.node \in Heaps /\ t.node[y] = ry /\ t.node[c] = rc
      /\ \A n \in Nodes : n # y /\ n # c => t.node[n] = nd[n]
  BY ONLY <1>7, nd \in Heaps, c # y, c \in Nodes, y \in Nodes DEF Heaps
<1>. QED  BY <1>2, <1>5, <1>6, <1>8

\* What deleteNode makes of the tree: its root x is replaced by nothing, by the
\* left side, or by the child on the right, which gets the left side.
TakenOut(t, s, r) ==
    /\ t.node \in Heaps
    /\ r = NoNode /\ Len(s) = 1 => t.root = NoNode /\ t.node = node
    /\ r = NoNode /\ Len(s) # 1 =>
         /\ t.root = s[2]
         /\ t.node = [node EXCEPT ![s[2]] = [node[s[2]] EXCEPT !.parent = NoNode]]
    /\ r # NoNode /\ Len(s) = 1 =>
         /\ t.root = r
         /\ t.node = [node EXCEPT ![r] = [node[r] EXCEPT !.parent = NoNode]]
    /\ r # NoNode /\ Len(s) # 1 =>
         /\ t.root = r
         /\ t.node[r] = [node[r] EXCEPT !.parent = NoNode, !.left = s[2]]
         /\ t.node[s[2]] = [node[s[2]] EXCEPT !.parent = r]
         /\ \A n \in Nodes : n # r /\ n # s[2] => t.node[n] = node[n]

LEMMA RemovedIs ==
    ASSUME node \in Heaps, NEW b \in Nat, Ordered(node, b),
           NEW s, Spine(s, node, m_pRoot, used), s # <<>>, NEW t, t = Removed(m_pRoot),
           NEW x, x = m_pRoot, NEW r, r = node[x].right
    PROVE  TakenOut(t, s, r)
<1> USE DEF TakenOut
<1>1. /\ s \in Seq(Nodes) /\ Len(s) \in Nat /\ 1 \in 1 .. Len(s) /\ m_pRoot = s[1]
  BY DEF Spine
<1>2. /\ x \in Nodes /\ node[x].parent = NoNode /\ node[x].key \in Keys
      /\ r \in Nodes \cup {NoNode} /\ node[x].left \in Nodes \cup {NoNode}
  BY <1>1, SpineFacts, HeapFacts
<1>3. PICK g : g = [node |-> node, root |-> m_pRoot]
  OBVIOUS
<1>4. ASSUME NEW v \in Nodes  PROVE [node EXCEPT ![v] = [node[v] EXCEPT !.parent = NoNode]] \in Heaps
  <2>1. [node[v] EXCEPT !.parent = NoNode] \in Records
    BY DEF Heaps, Records
  <2>. QED  BY <2>1 DEF Heaps
<1>5. CASE Len(s) = 1
  <2>1. node[x].left = NoNode
    BY <1>1, <1>5, SpineFacts
  <2>2. t = transplant(g, x, r)
    BY <1>3, <2>1 DEF Removed
  <2>3. t = [node |-> IF r = NoNode THEN node ELSE [node EXCEPT ![r] = [node[r] EXCEPT !.parent = NoNode]],
             root |-> r]
    BY <1>2, <1>3, <2>2, TransplantRoot
  <2>4. t.root = r /\ t.node = IF r = NoNode THEN node
                               ELSE [node EXCEPT ![r] = [node[r] EXCEPT !.parent = NoNode]]
    BY <2>3
  <2>5. t.node \in Heaps
    BY <1>2, <1>4, <2>4
  <2>. QED  BY <1>5, <2>4, <2>5, Zenon
<1>6. CASE Len(s) # 1
  <2>1. 2 \in 1 .. Len(s) /\ 1 + 1 = 2
    <3>1. PICK l \in Nat : l = Len(s)
      BY <1>1
    <3>2. l # 1 /\ 1 \in 1 .. l
      BY <1>1, <1>6, <3>1, Zenon
    <3>3. 2 \in 1 .. l
      BY ONLY <3>2, l \in Nat
    <3>. QED  BY <3>1, <3>3
  <2>2. PICK c \in Nodes : c = s[2] /\ node[x].left = c /\ c # NoNode
    BY <1>1, <1>6, <2>1, SpineFacts, HeapFacts
  <2>3. CASE r = NoNode
    <3>1. t = transplant(g, x, c)
      BY <1>3, <2>2, <2>3 DEF Removed
    <3>2. t = [node |-> [node EXCEPT ![c] = [node[c] EXCEPT !.parent = NoNode]], root |-> c]
      BY <1>2, <1>3, <2>2, <3>1, TransplantRoot
    <3>3. t.root = c /\ t.node = [node EXCEPT ![c] = [node[c] EXCEPT !.parent = NoNode]]
      BY <3>2
    <3>4. t.node \in Heaps
      BY <1>4, <3>3
    <3>. QED  BY <1>6, <2>2, <2>3, <3>3, <3>4, Zenon
  <2>4. CASE r # NoNode
    <3>1. r \in Nodes /\ node[r].left = NoNode /\ node[r].parent = x /\ r # s[2] /\ r # s[1]
      BY <1>1, <2>1, <2>4 DEF Spine, Hangs
    <3>2. search(node[x].key) = x
      BY <1>2, SameWalks, SearchFinds
    <3>3. treeSuccessor(node[x].key) = r
      <4>1. x # NoNode
        BY <1>2, HeapFacts
      <4>2. treeSuccessor(node[x].key) = LeftEnd(r)
        BY <2>4, <3>2, <4>1 DEF treeSuccessor
      <4>. QED  BY <3>1, <4>2, SameWalks, EndsUnfold
    <3>4. t = Adopt(transplant(g, x, r), r, x, "left")
      BY <1>3, <2>2, <2>4, <3>1, <3>3 DEF Removed
    <3>5. PICK h : h = [node EXCEPT ![r] = [node[r] EXCEPT !.parent = NoNode]]
      OBVIOUS
    <3>6. h \in Heaps
      BY <1>4, <3>1, <3>5
    <3>7. transplant(g, x, r) = [node |-> h, root |-> r]
      BY <1>2, <1>3, <2>4, <3>5, TransplantRoot
    <3>8. /\ h[x] = node[x] /\ h[c] = node[c] /\ h[r] = [node[r] EXCEPT !.parent = NoNode]
          /\ \A n \in Nodes : n # r => h[n] = node[n]
      BY <1>1, <1>2, <2>2, <3>1, <3>5 DEF Heaps
    <3>9. t = Adopt([node |-> h, root |-> r], r, x, "left") /\ c = h[x].left /\ c # r
      BY <2>2, <3>1, <3>4, <3>7, <3>8
    <3>10. /\ t.root = r /\ t.node \in Heaps
           /\ t.node[r] = [h[r] EXCEPT !.left = c]
           /\ t.node[c] = [h[c] EXCEPT !.parent = r]
           /\ \A n \in Nodes : n # r /\ n # c => t.node[n] = h[n]
      BY ONLY c \in Nodes, <1>2, <3>1, <3>6, <3>9, AdoptLeft
    <3>11. t.node[r] = [node[r] EXCEPT !.parent = NoNode, !.left = c]
      BY <3>1, <3>8, <3>10 DEF Heaps, Records
    <3>. QED  BY <1>6, <2>2, <2>4, <3>8, <3>10, <3>11
  <2>. QED  BY <2>3, <2>4
<1>. QED  BY <1>5, <1>6

-----------------------------------------------------------------------------
(* The order of the nodes before and after a change.                        *)

LEMMA OrderLeaf ==
    ASSUME NEW nd \in Heaps, NEW b \in Nat, Ordered(nd, b), NEW r \in Nodes,
           nd[r].left = NoNode, nd[r].right = NoNode
    PROVE  OrderOf(nd, r) = <<r>>
<1>1. OrderOf(nd, NoNode) = <<>>
  BY WalkUnfolds
<1>2. OrderOf(nd, r) = OrderOf(nd, nd[r].left) \o <<r>> \o OrderOf(nd, nd[r].right)
  BY WalkUnfolds
<1>3. OrderOf(nd, r) = <<>> \o <<r>> \o <<>>
  BY <1>1, <1>2, Zenon
<1>. QED  BY ONLY <1>3, r \in Nodes

\* Where the two trees have the same links from place k of a spine on.
LEMMA OrderSame ==
    ASSUME NEW nd \in Heaps, NEW b \in Nat, Ordered(nd, b),
           NEW s, NEW root, NEW us, Spine(s, nd, root, us),
           NEW nd2 \in Heaps, NEW b2 \in Nat, Ordered(nd2, b2), NEW k \in 1 .. Len(s),
           \A i \in k .. Len(s) : /\ nd2[s[i]].left = nd[s[i]].left
                                  /\ nd2[s[i]].right = nd[s[i]].right,
           \A i \in k .. Len(s) : nd[s[i]].right # NoNode =>
                                    /\ nd2[nd[s[i]].right].left = NoNode
                                    /\ nd2[nd[s[i]].right].right = NoNode
    PROVE  OrderOf(nd2, s[k]) = OrderOf(nd, s[k])
<1>1. s \in Seq(Nodes) /\ Len(s) \in Nat /\ Len(s) \in 1 .. Len(s) /\ k \in Nat
  BY DEF Spine
<1> DEFINE T == {i \in 1 .. Len(s) : i >= k => OrderOf(nd2, s[i]) = OrderOf(nd, s[i])}
<1>2. ASSUME NEW i \in 1 .. Len(s), i >= k,
             OrderOf(nd2, nd[s[i]].left) = OrderOf(nd, nd[s[i]].left)
      PROVE  OrderOf(nd2, s[i]) = OrderOf(nd, s[i])
  <2>1. PICK n \in Nodes : n = s[i]
    BY SpineFacts
  <2>2. i \in k .. Len(s)
    BY <1>1, <1>2
  <2>3. nd2[n].left = nd[n].left /\ nd2[n].right = nd[n].right
    BY <2>1, <2>2
  <2>4. OrderOf(nd2, nd[n].right) = OrderOf(nd, nd[n].right)
    <3>1. CASE nd[n].right = NoNode
      BY <3>1, WalkUnfolds
    <3>2. CASE nd[n].right # NoNode
      <4>1. PICK r \in Nodes : r = nd[n].right /\ nd[r].left = NoNode /\ nd[r].right = NoNode
        BY <2>1, <3>2, SpineFacts DEF Hangs
      <4>2. nd2[r].left = NoNode /\ nd2[r].right = NoNode
        BY <2>1, <2>2, <3>2, <4>1
      <4>3. OrderOf(nd, r) = <<r>>
        BY <4>1, OrderLeaf
      <4>4. OrderOf(nd2, r) = <<r>>
        BY <4>2, OrderLeaf
      <4>. QED  BY <4>1, <4>3, <4>4
    <3>. QED  BY <3>1, <3>2
  <2>5. OrderOf(nd, n) = OrderOf(nd, nd[n].left) \o <<n>> \o OrderOf(nd, nd[n].right)
    BY WalkUnfolds
  <2>6. OrderOf(nd2, n) = OrderOf(nd2, nd2[n].left) \o <<n>> \o OrderOf(nd2, nd2[n].right)
    BY WalkUnfolds
  <2>. QED  BY <1>2, <2>1, <2>3, <2>4, <2>5, <2>6, Zenon
<1>3. Len(s) \in T
  <2> SUFFICES ASSUME Len(s) >= k  PROVE OrderOf(nd2, s[Len(s)]) = OrderOf(nd, s[Len(s)])
    BY <1>1
  <2>1. nd[s[Len(s)]].left = NoNode
    BY <1>1, SpineFacts
  <2>2. OrderOf(nd2, NoNode) = <<>> /\ OrderOf(nd, NoNode) = <<>>
    BY WalkUnfolds
  <2>. QED  BY <1>1, <1>2, <2>1, <2>2
<1>4. ASSUME NEW i \in 1 .. Len(s), i < Len(s), i + 1 \in T  PROVE i \in T
  <2> SUFFICES ASSUME i >= k  PROVE OrderOf(nd2, s[i]) = OrderOf(nd, s[i])
    OBVIOUS
  <2>1. nd[s[i]].left = s[i + 1]
    BY <1>1, <1>4, SpineFacts
  <2>2. i + 1 >= k
    BY <1>1
  <2>. QED  BY <1>2, <1>4, <2>1, <2>2
<1>5. 1 .. Len(s) \subseteq T
  <2> HIDE DEF T
  <2>. QED  BY <1>1, <1>3, <1>4, DownInduction
<1>. QED  BY <1>1, <1>5

\* A change at the end of the spine only: what comes after its part stays.
SameBefore(nd, nd2, s) ==
    \A i \in 1 .. Len(s) : i # Len(s) =>
        /\ nd2[s[i]].left = nd[s[i]].left /\ nd2[s[i]].right = nd[s[i]].right
        /\ nd[s[i]].right # NoNode => /\ nd2[nd[s[i]].right].left = NoNode
                                      /\ nd2[nd[s[i]].right].right = NoNode

Joint(p, q, a, b) == \E z \in Seq(Nodes) : a = p \o z /\ b = q \o z

LEMMA OrderTail ==
    ASSUME NEW nd \in Heaps, NEW b \in Nat, Ordered(nd, b),
           NEW s, NEW root, NEW us, Spine(s, nd, root, us), s # <<>>,
           NEW nd2 \in Heaps, NEW b2 \in Nat, Ordered(nd2, b2),
           SameBefore(nd, nd2, s),
           NEW p \in Seq(Nodes), p = OrderOf(nd, s[Len(s)]),
           NEW q \in Seq(Nodes), q = OrderOf(nd2, s[Len(s)])
    PROVE  Joint(p, q, OrderOf(nd, root), OrderOf(nd2, root))
<1>1. /\ s \in Seq(Nodes) /\ Len(s) \in Nat /\ Len(s) \in 1 .. Len(s) /\ 1 \in 1 .. Len(s)
      /\ root = s[1]
  BY DEF Spine
<1> DEFINE T == {i \in 1 .. Len(s) : Joint(p, q, OrderOf(nd, s[i]), OrderOf(nd2, s[i]))}
<1>2. Len(s) \in T
  <2>1. <<>> \in Seq(Nodes) /\ p \o <<>> = p /\ q \o <<>> = q
    BY EmptyInSeq, ConcatEmpty
  <2>. QED  BY <1>1, <2>1 DEF Joint
<1>3. ASSUME NEW i \in 1 .. Len(s), i < Len(s), i + 1 \in T  PROVE i \in T
  <2>1. PICK z \in Seq(Nodes) : OrderOf(nd, s[i + 1]) = p \o z /\ OrderOf(nd2, s[i + 1]) = q \o z
    BY <1>3 DEF Joint
  <2>2. PICK n \in Nodes : n = s[i] /\ nd[n].left = s[i + 1]
    BY <1>1, <1>3, SpineFacts
  <2>3. i # Len(s)
    BY <1>1, <1>3
  <2>4. nd2[n].left = nd[n].left /\ nd2[n].right = nd[n].right
    BY <2>2, <2>3 DEF SameBefore
  <2>5. PICK v \in Seq(Nodes) : OrderOf(nd2, nd[n].right) = v /\ OrderOf(nd, nd[n].right) = v
    <3>1. CASE nd[n].right = NoNode
      BY <3>1, WalkUnfolds, EmptyInSeq
    <3>2. CASE nd[n].right # NoNode
      <4>1. PICK r \in Nodes : r = nd[n].right /\ nd[r].left = NoNode /\ nd[r].right = NoNode
        BY <2>2, <3>2, SpineFacts DEF Hangs
      <4>2. nd2[r].left = NoNode /\ nd2[r].right = NoNode
        BY <2>2, <2>3, <3>2, <4>1 DEF SameBefore
      <4>3. OrderOf(nd, r) = <<r>>
        BY <4>1, OrderLeaf
      <4>4. OrderOf(nd2, r) = <<r>>
        BY <4>2, OrderLeaf
      <4>5. <<r>> \in Seq(Nodes)
        OBVIOUS
      <4>. QED  BY <4>1, <4>3, <4>4, <4>5
    <3>. QED  BY <3>1, <3>2
  <2>6. OrderOf(nd, n) = (p \o z) \o <<n>> \o v
    <3>1. OrderOf(nd, n) = OrderOf(nd, nd[n].left) \o <<n>> \o OrderOf(nd, nd[n].right)
      BY WalkUnfolds
    <3>. QED  BY <2>1, <2>2, <2>5, <3>1, Zenon
  <2>7. OrderOf(nd2, n) = (q \o z) \o <<n>> \o v
    <3>1. OrderOf(nd2, n) = OrderOf(nd2, nd2[n].left) \o <<n>> \o OrderOf(nd2, nd2[n].right)
      BY WalkUnfolds
    <3>. QED  BY <2>1, <2>2, <2>4, <2>5, <3>1, Zenon
  <2>8. PICK w \in Seq(Nodes) : w = z \o <<n>> \o v
    <3>1. z \o <<n>> \o v \in Seq(Nodes)
      OBVIOUS
    <3>. QED  BY <3>1
  <2>9. ASSUME NEW y \in Seq(Nodes)  PROVE (y \o z) \o <<n>> \o v = y \o w
    <3>1. PICK e \in Seq(Nodes) : e = <<n>>
      <4>1. <<n>> \in Seq(Nodes)
        OBVIOUS
      <4>. QED  BY <4>1
    <3>2. PICK f \in Seq(Nodes) : f = z \o e
      <4>1. z \o e \in Seq(Nodes)
        BY ONLY z \in Seq(Nodes), e \in Seq(Nodes), ConcatInSeq
      <4>. QED  BY <4>1
    <3>3. Associates(y, z, e) /\ Associates(y, f, v)
      BY ConcatAssociates
    <3>4. y \o (z \o e) = (y \o z) \o e /\ y \o (f \o v) = (y \o f) \o v
      BY ONLY <3>3, Zenon DEF Associates
    <3>. QED  BY ONLY <2>8, <3>1, <3>2, <3>4, Zenon
  <2>10. OrderOf(nd, s[i]) = p \o w /\ OrderOf(nd2, s[i]) = q \o w
    BY <2>2, <2>6, <2>7, <2>9
  <2>. QED  BY <2>10 DEF Joint
<1>4. 1 .. Len(s) \subseteq T
  <2> HIDE DEF T
  <2>. QED  BY <1>1, <1>2, <1>3, DownInduction
<1>. QED  BY <1>1, <1>4

-----------------------------------------------------------------------------
(* Every call keeps the invariant.                                          *)

LEMMA FreshIs ==
    ASSUME Room # {}
    PROVE  FreshNode \in Room /\ \A m \in Room : FreshNode <= m
<1>1. Room \in SUBSET Nat
  BY NodesAssumption DEF Room
<1>2. \E n \in Room : \A m \in Room : n <= m
  BY <1>1, LeastNatural
<1>. QED  BY <1>2, Zenon DEF FreshNode

\* The node n that insertNode takes, and the four things it may do with it.
Lost(nd2, root2, n, key) ==
    nd2 = [node EXCEPT ![n] = Blank(key)] /\ root2 = m_pRoot
First(nd2, root2, n, key) ==
    m_pRoot = NoNode /\ nd2 = [node EXCEPT ![n] = Blank(key)] /\ root2 = n
Grown(nd2, root2, n, key, p) ==
    /\ root2 = m_pRoot /\ node[p].key < key
    /\ nd2 = [node EXCEPT ![n] = [Blank(key) EXCEPT !.parent = p], ![p] = [node[p] EXCEPT !.left = n]]
Hung(nd2, root2, n, key, p) ==
    /\ root2 = m_pRoot /\ ~ (node[p].key < key)
    /\ nd2 = [node EXCEPT ![n] = [Blank(key) EXCEPT !.parent = p], ![p] = [node[p] EXCEPT !.right = n]]

LEMMA InsertCases ==
    ASSUME TreeInv, NEW b \in Nat, Ordered(node, b), NEW s, Spine(s, node, m_pRoot, used),
           NEW key \in Keys, insertNode(key), NEW n, n = FreshNode
    PROVE  /\ n \in Nodes /\ n \notin used /\ \A m \in used : m < n
           /\ used' = used \cup {n} /\ status = "ok" /\ status' = "ok" /\ m_nLen' \in Nat
           /\ \A i \in used \cup {n}, m \in Nodes \ (used \cup {n}) : i < m
           /\ \/ Lost(node', m_pRoot', n, key)
              \/ First(node', m_pRoot', n, key)
              \/ s # <<>> /\ Grown(node', m_pRoot', n, key, s[Len(s)])
              \/ s # <<>> /\ Hung(node', m_pRoot', n, key, s[Len(s)])
<1>1. /\ status = "ok" /\ Room # {} /\ used' = used \cup {n} /\ status' = "ok"
      /\ \/ insert(n, key)
         \/ node' = [node EXCEPT ![n] = Blank(key)] /\ UNCHANGED <<m_pRoot, m_nLen>>
  BY DEF insertNode
<1>2. TreeTypeOK /\ node \in Heaps /\ used \subseteq Nodes /\ m_nLen \in Nat
  BY TypeHeap DEF TreeInv, TreeTypeOK
<1>3. n \in Nodes /\ n \notin used /\ \A m \in Nodes \ used : n <= m
  BY <1>1, FreshIs DEF Room
<1>4. \A i \in used, m \in Nodes \ used : i < m
  BY <1>1 DEF TreeInv
<1>5. \A i \in used \cup {n}, m \in Nodes \ (used \cup {n}) : i < m
  <2> SUFFICES ASSUME NEW i \in used \cup {n}, NEW m \in Nodes \ (used \cup {n})  PROVE i < m
    OBVIOUS
  <2>1. CASE i \in used
    BY <1>4, <2>1
  <2>2. CASE i = n
    <3>1. n \in Nat /\ m \in Nat /\ n # m /\ n <= m
      BY <1>3, <2>2, NodesAssumption
    <3>. QED  BY <2>2, <3>1
  <2>. QED  BY <2>1, <2>2
<1>6. CASE ~ insert(n, key)
  BY <1>1, <1>2, <1>3, <1>4, <1>5, <1>6 DEF Lost
<1>7. CASE insert(n, key) /\ m_pRoot = NoNode
  <2>1. First(node', m_pRoot', n, key) /\ m_nLen' \in Nat
    BY <1>2, <1>7 DEF insert, First
  <2>. QED  BY <1>1, <1>3, <1>4, <1>5, <2>1
<1>8. CASE insert(n, key) /\ m_pRoot # NoNode
  <2>1. s # <<>>
    BY <1>8 DEF Spine
  <2>2. PICK p : p = s[Len(s)]
    OBVIOUS
  <2>3. LeftEnd(m_pRoot) = p
    BY <1>2, <2>1, <2>2, LeftFinds, SameWalks
  <2>4. /\ node' = [node EXCEPT ![n] = [Blank(key) EXCEPT !.parent = p],
                                ![p] = [@ EXCEPT ![Side(p, key)] = n]]
        /\ m_pRoot' = m_pRoot /\ m_nLen' = m_nLen
    BY <1>8, <2>3 DEF insert
  <2>5. p \in Nodes /\ p # n
    <3>1. s \in Seq(Nodes) /\ Len(s) \in 1 .. Len(s)
      BY <2>1 DEF Spine
    <3>2. p \in Nodes /\ p \in used
      BY <1>2, <2>2, <3>1, SpineFacts
    <3>. QED  BY <1>3, <3>2
  <2>6. node' = [node EXCEPT ![n] = [Blank(key) EXCEPT !.parent = p],
                             ![p] = [node[p] EXCEPT ![Side(p, key)] = n]]
    BY <1>2, <1>3, <2>4, <2>5 DEF Heaps
  <2>7. CASE node[p].key < key
    <3>1. [node[p] EXCEPT ![Side(p, key)] = n] = [node[p] EXCEPT !.left = n]
      BY <1>2, <2>5, <2>7 DEF Side, Heaps, Records
    <3>2. Grown(node', m_pRoot', n, key, p)
      BY <2>4, <2>6, <2>7, <3>1 DEF Grown
    <3>. QED  BY <1>1, <1>2, <1>3, <1>4, <1>5, <2>1, <2>2, <2>4, <3>2
  <2>8. CASE ~ (node[p].key < key)
    <3>1. [node[p] EXCEPT ![Side(p, key)] = n] = [node[p] EXCEPT !.right = n]
      BY <1>2, <2>5, <2>8 DEF Side, Heaps, Records
    <3>2. Hung(node', m_pRoot', n, key, p)
      BY <2>4, <2>6, <2>8, <3>1 DEF Hung
    <3>. QED  BY <1>1, <1>2, <1>3, <1>4, <1>5, <2>1, <2>2, <2>4, <3>2
  <2>. QED  BY <2>7, <2>8
<1>. QED  BY <1>6, <1>7, <1>8

\* The heap that insertNode leaves, and its spine.
LEMMA InsertKeeps ==
    ASSUME TreeInv, NEW b \in Nat, Ordered(node, b), NEW s, Spine(s, node, m_pRoot, used),
           \A m \in used : m <= b,
           NEW key \in Keys, insertNode(key), NEW n, n = FreshNode
    PROVE  /\ node' \in Heaps /\ Ordered(node', b + n) /\ \A m \in used' : m <= b + n
           /\ \E t : Spine(t, node', m_pRoot', used')
<1>1. TreeTypeOK /\ node \in Heaps /\ used \subseteq Nodes /\ m_pRoot \in used \cup {NoNode}
  BY TypeHeap DEF TreeInv, TreeTypeOK
<1>2. /\ n \in Nodes /\ n \notin used /\ (\A m \in used : m < n) /\ used' = used \cup {n}
      /\ \/ Lost(node', m_pRoot', n, key)
         \/ First(node', m_pRoot', n, key)
         \/ s # <<>> /\ Grown(node', m_pRoot', n, key, s[Len(s)])
         \/ s # <<>> /\ Hung(node', m_pRoot', n, key, s[Len(s)])
  BY InsertCases
<1>3. n \in Nat /\ b + n \in Nat /\ n <= b + n /\ b <= b + n /\ n > 0
  BY <1>2, HeapFacts, NodesAssumption DEF NoNode
<1>4. \A m \in used' : m <= b + n
  <2> SUFFICES ASSUME NEW m \in used \cup {n}  PROVE m <= b + n
    BY <1>2
  <2>1. m \in Nat
    BY <1>1, <1>2, NodesAssumption
  <2>2. m <= b \/ m = n
    OBVIOUS
  <2>. QED  BY <1>3, <2>1, <2>2
<1>5. ASSUME NEW p \in Nodes \cup {NoNode}
      PROVE  /\ Blank(key) \in Records /\ [Blank(key) EXCEPT !.parent = p] \in Records
             /\ Blank(key).left = NoNode /\ Blank(key).right = NoNode /\ Blank(key).parent = NoNode
             /\ [Blank(key) EXCEPT !.parent = p].left = NoNode
             /\ [Blank(key) EXCEPT !.parent = p].right = NoNode
             /\ [Blank(key) EXCEPT !.parent = p].parent = p
             /\ [Blank(key) EXCEPT !.parent = p].key = key
  BY DEF Blank, Records
\* Links of nodes that are not changed.
<1>6. ASSUME NEW m \in Nodes
      PROVE  /\ node[m].left = NoNode \/ (m < node[m].left /\ node[m].left <= b + n)
             /\ node[m].right = NoNode \/ (m < node[m].right /\ node[m].right <= b + n)
             /\ node[m].parent < m
  <2>1. node[m].left \in Nat /\ node[m].right \in Nat
    BY <1>1, HeapFacts
  <2>. QED  BY <1>3, <2>1 DEF Ordered
<1>7. CASE Lost(node', m_pRoot', n, key) \/ First(node', m_pRoot', n, key)
  <2>1. node' = [node EXCEPT ![n] = Blank(key)]
    BY <1>7 DEF Lost, First
  <2>2. node' \in Heaps /\ node'[n] = Blank(key) /\ \A m \in Nodes : m # n => node'[m] = node[m]
    BY <1>1, <1>2, <1>5, <2>1 DEF Heaps
  <2>3. Ordered(node', b + n)
    BY <1>3, <1>5, <1>6, <2>2 DEF Ordered, NoNode
  <2>4. CASE Lost(node', m_pRoot', n, key)
    <3>1. Spine(s, node', m_pRoot', used')
      <4>1. m_pRoot' = m_pRoot
        BY <2>4 DEF Lost
      <4>2. used \subseteq used' /\ \A m \in used : node'[m] = node[m]
        BY <1>1, <1>2, <2>2
      <4>. QED  BY <4>1, <4>2, SpineSame
    <3>. QED  BY <1>4, <2>2, <2>3, <3>1
  <2>5. CASE First(node', m_pRoot', n, key)
    <3>1. Spine(<<n>>, node', m_pRoot', used')
      <4>1. m_pRoot' = n
        BY <2>5 DEF First
      <4>2. <<n>> \in Seq(Nodes) /\ Len(<<n>>) = 1 /\ <<n>>[1] = n /\ Distinct(<<n>>) /\ <<n>> # <<>>
        BY <1>2 DEF Distinct
      <4>3. \A i \in 1 .. 1 : i = 1
        OBVIOUS
      <4>4. /\ node'[n].left = NoNode /\ node'[n].right = NoNode /\ node'[n].parent = NoNode
            /\ n \in used'
        BY <1>2, <1>5, <2>2
      <4>5. PICK one : one = <<n>>
        OBVIOUS
      <4>6. /\ one \in Seq(Nodes) /\ Len(one) = 1 /\ one[1] = n /\ Distinct(one) /\ one # <<>>
        BY <4>2, <4>5
      <4>7. \A i \in 1 .. Len(one) : i = 1 /\ i = Len(one)
        BY <4>6
      <4>8. \A i \in 1 .. Len(one) :
              /\ one[i] \in used'
              /\ node'[one[i]].left = IF i = Len(one) THEN NoNode ELSE one[i + 1]
              /\ node'[one[i]].parent = IF i = 1 THEN NoNode ELSE one[i - 1]
              /\ i < Len(one) => node'[one[i]].key < node'[one[i + 1]].key
        BY ONLY <4>4, <4>6, <4>7
      <4>9. \A i \in 1 .. Len(one) : node'[one[i]].right = NoNode
        BY ONLY <4>4, <4>6, <4>7
      <4>10. Spine(one, node', m_pRoot', used')
        BY ONLY <4>1, <4>6, <4>8, <4>9, Zenon DEF Spine
      <4>. QED  BY <4>5, <4>10
    <3>. QED  BY <1>4, <2>2, <2>3, <3>1
  <2>. QED  BY <1>7, <2>4, <2>5
<1>8. CASE s # <<>> /\ \/ Grown(node', m_pRoot', n, key, s[Len(s)])
                       \/ Hung(node', m_pRoot', n, key, s[Len(s)])
  <2>1. s \in Seq(Nodes) /\ Len(s) \in 1 .. Len(s)
    BY <1>8 DEF Spine
  <2>2. PICK p \in Nodes : p = s[Len(s)] /\ p \in used /\ p # n /\ p < n
    BY <1>1, <1>2, <2>1, SpineFacts
  <2>3. PICK rn \in Records : rn = [Blank(key) EXCEPT !.parent = p]
    BY <1>5
  <2>4. m_pRoot' = m_pRoot
    BY <1>8, <2>2 DEF Grown, Hung
  <2>5. p \in Nat
    BY <1>1, HeapFacts
  <2>6. rn.left = NoNode /\ rn.right = NoNode /\ rn.parent = p /\ rn.key = key
    BY <2>3 DEF Blank
  <2>7. CASE Grown(node', m_pRoot', n, key, p)
    <3>1. PICK rp \in Records : rp = [node[p] EXCEPT !.left = n]
      <4>1. [node[p] EXCEPT !.left = n] \in Records
        BY <1>1, <1>2 DEF Heaps, Records
      <4>. QED  BY <4>1
    <3>2. rp.left = n /\ rp.right = node[p].right /\ rp.parent = node[p].parent /\ rp.key = node[p].key
      BY <1>1, <3>1 DEF Heaps, Records
    <3>3. node[p].key < key /\ node' = [node EXCEPT ![n] = rn, ![p] = rp]
      BY <2>3, <2>7, <3>1 DEF Grown
    <3>4. /\ node' \in Heaps /\ node'[n] = rn /\ node'[p] = rp
          /\ \A m \in Nodes : m # n /\ m # p => node'[m] = node[m]
      BY <1>1, <1>2, <2>2, <3>3 DEF Heaps
    <3>5. Ordered(node', b + n)
      <4> SUFFICES ASSUME NEW m \in Nodes
                   PROVE  /\ node'[m].left = NoNode \/ (m < node'[m].left /\ node'[m].left <= b + n)
                          /\ node'[m].right = NoNode \/ (m < node'[m].right /\ node'[m].right <= b + n)
                          /\ node'[m].parent < m
        BY DEF Ordered
      <4>1. CASE m = n
        BY <2>2, <2>6, <3>4, <4>1
      <4>2. CASE m = p
        <5>1. node'[m].left = n /\ node'[m].right = node[m].right /\ node'[m].parent = node[m].parent
          BY <3>2, <3>4, <4>2
        <5>. QED  BY <1>3, <1>6, <2>2, <4>2, <5>1
      <4>3. CASE m # n /\ m # p
        <5>1. node'[m] = node[m]
          BY <3>4, <4>3
        <5>. QED  BY <1>6, <5>1
      <4>. QED  BY <4>1, <4>2, <4>3
    <3>6. Spine(Append(s, n), node', m_pRoot', used')
      <4>1. \A m \in used : m # p => node'[m] = node[m]
        BY <1>1, <1>2, <3>4
      <4>2. /\ node[p].key < node'[n].key /\ node'[n].parent = p
            /\ node'[n].left = NoNode /\ node'[n].right = NoNode
            /\ node'[p].key = node[p].key /\ node'[p].parent = node[p].parent
            /\ node'[p].left = n /\ node'[p].right = node[p].right
        BY <2>6, <3>2, <3>3, <3>4
      <4>. QED  BY <1>1, <1>2, <1>8, <2>2, <2>4, <4>1, <4>2, SpineGrows
    <3>. QED  BY <1>4, <3>4, <3>5, <3>6
  <2>8. CASE Hung(node', m_pRoot', n, key, p)
    <3>1. PICK rp \in Records : rp = [node[p] EXCEPT !.right = n]
      <4>1. [node[p] EXCEPT !.right = n] \in Records
        BY <1>1, <1>2 DEF Heaps, Records
      <4>. QED  BY <4>1
    <3>2. rp.right = n /\ rp.left = node[p].left /\ rp.parent = node[p].parent /\ rp.key = node[p].key
      BY <1>1, <3>1 DEF Heaps, Records
    <3>3. ~ (node[p].key < key) /\ node' = [node EXCEPT ![n] = rn, ![p] = rp]
      BY <2>3, <2>8, <3>1 DEF Hung
    <3>4. /\ node' \in Heaps /\ node'[n] = rn /\ node'[p] = rp
          /\ \A m \in Nodes : m # n /\ m # p => node'[m] = node[m]
      BY <1>1, <1>2, <2>2, <3>3 DEF Heaps
    <3>5. Ordered(node', b + n)
      <4> SUFFICES ASSUME NEW m \in Nodes
                   PROVE  /\ node'[m].left = NoNode \/ (m < node'[m].left /\ node'[m].left <= b + n)
                          /\ node'[m].right = NoNode \/ (m < node'[m].right /\ node'[m].right <= b + n)
                          /\ node'[m].parent < m
        BY DEF Ordered
      <4>1. CASE m = n
        BY <2>2, <2>6, <3>4, <4>1
      <4>2. CASE m = p
        <5>1. node'[m].right = n /\ node'[m].left = node[m].left /\ node'[m].parent = node[m].parent
          BY <3>2, <3>4, <4>2
        <5>. QED  BY <1>3, <1>6, <2>2, <4>2, <5>1
      <4>3. CASE m # n /\ m # p
        <5>1. node'[m] = node[m]
          BY <3>4, <4>3
        <5>. QED  BY <1>6, <5>1
      <4>. QED  BY <4>1, <4>2, <4>3
    <3>6. key <= node[p].key
      <4>1. key \in Int /\ node[p].key \in Int
        BY <1>1, HeapFacts, KeysAssumption
      <4>. QED  BY <3>3, <4>1
    <3>7. Spine(s, node', m_pRoot', used')
      <4>1. \A m \in used : m # p => node'[m] = node[m]
        BY <1>1, <1>2, <3>4
      <4>2. /\ node'[n].key <= node[p].key /\ node'[n].parent = p
            /\ node'[n].left = NoNode /\ node'[n].right = NoNode
            /\ node'[p].key = node[p].key /\ node'[p].parent = node[p].parent
            /\ node'[p].left = node[p].left /\ node'[p].right = n
        BY <2>6, <3>2, <3>4, <3>6
      <4>. QED  BY <1>1, <1>2, <1>8, <2>2, <2>4, <4>1, <4>2, SpineHangs
    <3>. QED  BY <1>4, <3>4, <3>5, <3>7
  <2>. QED  BY <1>8, <2>2, <2>7, <2>8
<1>. QED  BY <1>2, <1>7, <1>8

\* What deleteNode changes: the root of the spine s leaves, and what hangs on
\* its right, or else the node on its left, takes its place.
LEMMA DeleteIs ==
    ASSUME TreeInv, NEW b \in Nat, Ordered(node, b), NEW s, Spine(s, node, m_pRoot, used),
           NEW key \in Keys, deleteNode(key), NEW r, r = node[m_pRoot].right
    PROVE  /\ s # <<>> /\ m_pRoot = s[1] /\ node' \in Heaps /\ used' = used
           /\ status = "ok" /\ status' = "ok" /\ m_nLen' = m_nLen /\ r \in Nodes \cup {NoNode}
           /\ m_pRoot' = IF r # NoNode THEN r ELSE IF Len(s) = 1 THEN NoNode ELSE s[2]
           /\ \A m \in Nodes : node'[m].key = node[m].key /\ node'[m].right = node[m].right
           /\ \A m \in Nodes : m # r => node'[m].left = node[m].left
           /\ \A m \in Nodes : m # r /\ (Len(s) >= 2 => m # s[2]) => node'[m] = node[m]
           /\ r # NoNode => /\ node'[r].parent = NoNode
                            /\ node'[r].left = IF Len(s) = 1 THEN NoNode ELSE s[2]
           /\ Len(s) >= 2 => s[2] \in Nodes /\ s[2] # r /\ node'[s[2]].parent = r
<1>1. TreeTypeOK /\ node \in Heaps
  BY TypeHeap DEF TreeInv
<1>2. PICK x : x = search(key)
  OBVIOUS
<1>3. PICK t : t = Removed(x)
  OBVIOUS
<1>4. /\ status = "ok" /\ x # NoNode /\ node' = t.node /\ m_pRoot' = t.root
      /\ used' = used /\ m_nLen' = m_nLen /\ status' = status
  BY <1>2, <1>3 DEF deleteNode
<1>5. s # <<>> /\ x = m_pRoot
  <2>1. x = SearchOf(node, m_pRoot, key)
    BY <1>2, SameWalks
  <2>. QED  BY <1>1, <1>4, <2>1, SearchFinds
<1>6. s \in Seq(Nodes) /\ Len(s) \in Nat /\ Len(s) >= 1 /\ 1 \in 1 .. Len(s) /\ m_pRoot = s[1]
  BY <1>5 DEF Spine
<1>7. m_pRoot \in Nodes /\ r \in Nodes \cup {NoNode}
  BY <1>1, <1>6, HeapFacts
<1>8. TakenOut(t, s, r)
  <2>1. t = Removed(m_pRoot)
    BY <1>3, <1>5
  <2>2. r = node[x].right
    BY <1>5
  <2>. QED  BY ONLY <1>1, <1>5, <2>1, <2>2, b \in Nat, Ordered(node, b),
                    Spine(s, node, m_pRoot, used), RemovedIs
<1>9. ASSUME Len(s) # 1
      PROVE  s[2] \in Nodes /\ s[2] # r /\ Len(s) >= 2
  <2>1. PICK k \in Nat : k = Len(s)
    BY <1>6
  <2>2. 2 \in 1 .. Len(s) /\ Len(s) >= 2
    BY ONLY <1>6, <1>9, <2>1
  <2>3. s[2] \in Nodes /\ s[2] # NoNode
    BY <1>1, <1>6, <2>2, HeapFacts
  <2>4. node[s[1]].right # NoNode => node[s[1]].right # s[2]
    BY <1>6, <2>2 DEF Spine
  <2>. QED  BY <1>6, <2>2, <2>3, <2>4
<1>10. r # NoNode => node[r].left = NoNode /\ node[r].parent = m_pRoot
  <2>1. node[s[1]].right # NoNode => Hangs(node, node[s[1]].right, s[1])
    BY <1>6 DEF Spine
  <2>. QED  BY <1>6, <2>1 DEF Hangs
\* The records that are written.
<1>11. ASSUME NEW v \in Nodes, NEW p \in Nodes \cup {NoNode}, NEW l
       PROVE  /\ [node[v] EXCEPT !.parent = p].key = node[v].key
              /\ [node[v] EXCEPT !.parent = p].left = node[v].left
              /\ [node[v] EXCEPT !.parent = p].right = node[v].right
              /\ [node[v] EXCEPT !.parent = p].parent = p
              /\ [node[v] EXCEPT !.parent = p, !.left = l].key = node[v].key
              /\ [node[v] EXCEPT !.parent = p, !.left = l].left = l
              /\ [node[v] EXCEPT !.parent = p, !.left = l].right = node[v].right
              /\ [node[v] EXCEPT !.parent = p, !.left = l].parent = p
  BY <1>1 DEF Heaps, Records
<1>12. NoNode \in Nodes \cup {NoNode}
  OBVIOUS
<1> DEFINE Goal ==
           /\ m_pRoot' = IF r # NoNode THEN r ELSE IF Len(s) = 1 THEN NoNode ELSE s[2]
           /\ \A m \in Nodes : node'[m].key = node[m].key /\ node'[m].right = node[m].right
           /\ \A m \in Nodes : m # r => node'[m].left = node[m].left
           /\ \A m \in Nodes : m # r /\ (Len(s) >= 2 => m # s[2]) => node'[m] = node[m]
           /\ r # NoNode => /\ node'[r].parent = NoNode
                            /\ node'[r].left = IF Len(s) = 1 THEN NoNode ELSE s[2]
           /\ Len(s) >= 2 => s[2] \in Nodes /\ s[2] # r /\ node'[s[2]].parent = r
<1>13. ASSUME r = NoNode /\ Len(s) = 1  PROVE Goal
  BY <1>4, <1>8, <1>13 DEF TakenOut
<1>14. ASSUME r = NoNode /\ Len(s) # 1  PROVE Goal
  <2>1. PICK c \in Nodes : c = s[2] /\ c # r
    BY <1>9, <1>14
  <2>2. PICK rc : rc = [node[c] EXCEPT !.parent = NoNode]
    OBVIOUS
  <2>3. m_pRoot' = c /\ node' = [node EXCEPT ![c] = rc]
    BY <1>4, <1>8, <1>14, <2>1, <2>2 DEF TakenOut
  <2>4. node'[c] = rc /\ \A m \in Nodes : m # c => node'[m] = node[m]
    BY <1>1, <2>3 DEF Heaps
  <2>5. rc.key = node[c].key /\ rc.left = node[c].left /\ rc.right = node[c].right /\ rc.parent = NoNode
    BY ONLY <1>11, <1>12, <2>2, c \in Nodes
  <2>6. Len(s) >= 2
    BY <1>9, <1>14
  <2>. QED  BY ONLY <1>14, <2>1, <2>3, <2>4, <2>5, <2>6
<1>15. ASSUME r # NoNode /\ Len(s) = 1  PROVE Goal
  <2>1. PICK rr : rr = [node[r] EXCEPT !.parent = NoNode]
    OBVIOUS
  <2>2. r \in Nodes
    BY <1>7, <1>15
  <2>3. m_pRoot' = r /\ node' = [node EXCEPT ![r] = rr]
    BY <1>4, <1>8, <1>15, <2>1 DEF TakenOut
  <2>4. node'[r] = rr /\ \A m \in Nodes : m # r => node'[m] = node[m]
    BY <1>1, <2>2, <2>3 DEF Heaps
  <2>5. rr.key = node[r].key /\ rr.left = node[r].left /\ rr.right = node[r].right /\ rr.parent = NoNode
    BY ONLY <1>11, <1>12, <2>1, <2>2
  <2>6. ~ (Len(s) >= 2)
    BY <1>6, <1>15
  <2>. QED  BY ONLY <1>10, <1>15, <2>2, <2>3, <2>4, <2>5, <2>6
<1>16. ASSUME r # NoNode /\ Len(s) # 1  PROVE Goal
  <2>1. PICK c \in Nodes : c = s[2] /\ c # r
    BY <1>9, <1>16
  <2>2. PICK rr : rr = [node[r] EXCEPT !.parent = NoNode, !.left = c]
    OBVIOUS
  <2>3. PICK rc : rc = [node[c] EXCEPT !.parent = r]
    OBVIOUS
  <2>4. r \in Nodes
    BY <1>7, <1>16
  <2>5. /\ m_pRoot' = r /\ node'[r] = rr /\ node'[c] = rc
        /\ \A m \in Nodes : m # r /\ m # c => node'[m] = node[m]
    BY <1>4, <1>8, <1>16, <2>1, <2>2, <2>3 DEF TakenOut
  <2>6. rr.key = node[r].key /\ rr.left = c /\ rr.right = node[r].right /\ rr.parent = NoNode
    BY ONLY <1>11, <1>12, <2>2, <2>4
  <2>7. rc.key = node[c].key /\ rc.left = node[c].left /\ rc.right = node[c].right /\ rc.parent = r
    BY ONLY <1>11, <1>7, <2>3, c \in Nodes
  <2>8. Len(s) >= 2
    BY <1>9, <1>16
  <2>. QED  BY ONLY <1>16, <2>1, <2>4, <2>5, <2>6, <2>7, <2>8
<1>17. Goal
  BY <1>13, <1>14, <1>15, <1>16
<1>. QED  BY <1>4, <1>5, <1>6, <1>7, <1>8, <1>17 DEF TakenOut

LEMMA DeleteKeeps ==
    ASSUME TreeInv, NEW b \in Nat, Ordered(node, b), NEW s, Spine(s, node, m_pRoot, used),
           \A m \in used : m <= b,
           NEW key \in Keys, deleteNode(key)
    PROVE  /\ node' \in Heaps /\ Ordered(node', b)
           /\ \E t : Spine(t, node', m_pRoot', used')
<1>1. node \in Heaps /\ used \subseteq Nodes
  BY TypeHeap DEF TreeInv, TreeTypeOK
<1>2. PICK r : r = node[m_pRoot].right
  OBVIOUS
<1>3. /\ s # <<>> /\ m_pRoot = s[1] /\ node' \in Heaps /\ used' = used
      /\ r \in Nodes \cup {NoNode}
      /\ m_pRoot' = IF r # NoNode THEN r ELSE IF Len(s) = 1 THEN NoNode ELSE s[2]
      /\ \A m \in Nodes : node'[m].key = node[m].key /\ node'[m].right = node[m].right
      /\ \A m \in Nodes : m # r => node'[m].left = node[m].left
      /\ \A m \in Nodes : m # r /\ (Len(s) >= 2 => m # s[2]) => node'[m] = node[m]
      /\ r # NoNode => /\ node'[r].parent = NoNode
                       /\ node'[r].left = IF Len(s) = 1 THEN NoNode ELSE s[2]
      /\ Len(s) >= 2 => s[2] \in Nodes /\ s[2] # r /\ node'[s[2]].parent = r
  BY <1>2, DeleteIs
<1>4. s \in Seq(Nodes) /\ Len(s) \in Nat /\ Len(s) >= 1 /\ 1 \in 1 .. Len(s)
  BY <1>3 DEF Spine
<1>5. Len(s) = 1 \/ Len(s) >= 2
  <2>1. PICK k \in Nat : k = Len(s)
    BY <1>4
  <2>. QED  BY ONLY <1>4, <2>1
<1>6. r # NoNode => r \in Nodes /\ Hangs(node, r, m_pRoot) /\ (Len(s) >= 2 => r < s[2])
  <2>1. node[s[1]].right # NoNode =>
          /\ Hangs(node, node[s[1]].right, s[1]) /\ (1 < Len(s) => node[s[1]].right < s[1 + 1])
    BY <1>4 DEF Spine
  <2>. QED  BY <1>2, <1>3, <1>4, <2>1
<1>7. Len(s) >= 2 => s[2] \in used /\ s[2] \in Nat /\ s[2] > 0 /\ s[2] <= b
  <2> SUFFICES ASSUME Len(s) >= 2  PROVE s[2] \in used /\ s[2] \in Nat /\ s[2] > 0 /\ s[2] <= b
    OBVIOUS
  <2>1. 2 \in 1 .. Len(s)
    BY <1>4
  <2>2. s[2] \in used
    BY <1>1, <2>1, SpineFacts
  <2>. QED  BY <1>1, <2>2, HeapFacts
<1>8. Ordered(node', b)
  <2> SUFFICES ASSUME NEW m \in Nodes
               PROVE  /\ node'[m].left = NoNode \/ (m < node'[m].left /\ node'[m].left <= b)
                      /\ node'[m].right = NoNode \/ (m < node'[m].right /\ node'[m].right <= b)
                      /\ node'[m].parent < m
    BY DEF Ordered
  <2>1. /\ node[m].left = NoNode \/ (m < node[m].left /\ node[m].left <= b)
        /\ node[m].right = NoNode \/ (m < node[m].right /\ node[m].right <= b)
        /\ node[m].parent < m
    BY DEF Ordered
  <2>2. m \in Nat /\ m > 0
    BY <1>1, HeapFacts
  <2>3. node'[m].left = NoNode \/ (m < node'[m].left /\ node'[m].left <= b)
    <3>1. CASE m # r
      BY <1>3, <2>1, <3>1
    <3>2. CASE m = r
      <4>1. r # NoNode
        BY <1>1, <3>2, HeapFacts
      <4>2. CASE Len(s) = 1
        BY <1>3, <3>2, <4>1, <4>2
      <4>3. CASE Len(s) >= 2
        BY <1>3, <1>6, <1>7, <3>2, <4>1, <4>3
      <4>. QED  BY <1>5, <4>2, <4>3
    <3>. QED  BY <3>1, <3>2
  <2>4. node'[m].parent < m
    <3>1. CASE m = r
      <4>1. r # NoNode
        BY <1>1, <3>1, HeapFacts
      <4>. QED  BY <1>3, <2>2, <3>1, <4>1 DEF NoNode
    <3>2. CASE m # r /\ Len(s) >= 2 /\ m = s[2]
      <4>1. node'[m].parent = r
        BY <1>3, <3>2
      <4>2. CASE r = NoNode
        BY <2>2, <4>1, <4>2 DEF NoNode
      <4>3. CASE r # NoNode
        BY <1>6, <3>2, <4>1, <4>3
      <4>. QED  BY <4>2, <4>3
    <3>3. CASE m # r /\ (Len(s) >= 2 => m # s[2])
      BY <1>3, <2>1, <3>3
    <3>. QED  BY <3>1, <3>2, <3>3
  <2>. QED  BY <1>3, <2>1, <2>3, <2>4
<1>9. \E t : Spine(t, node', m_pRoot', used')
  <2>1. CASE r = NoNode /\ Len(s) = 1
    <3>1. Spine(<<>>, node', NoNode, used')
      <4>1. <<>> \in Seq(Nodes) /\ Len(<<>>) = 0 /\ 1 .. 0 = {} /\ Distinct(<<>>)
        BY DEF Distinct
      <4>. QED  BY <4>1 DEF Spine
    <3>. QED  BY <1>3, <2>1, <3>1
  <2>2. CASE r = NoNode /\ Len(s) # 1
    <3>1. Len(s) >= 2
      BY <1>5, <2>2
    <3>2. PICK n : n = s[2]
      OBVIOUS
    <3>3. /\ node'[n].key = node[n].key /\ node'[n].parent = NoNode
          /\ node'[n].left = node[n].left /\ node'[n].right = node[n].right
      BY <1>3, <2>2, <3>1, <3>2
    <3>4. \A m \in used : m # n => node'[m] = node[m]
      <4> SUFFICES ASSUME NEW m \in used, m # n  PROVE node'[m] = node[m]
        OBVIOUS
      <4>1. m \in Nodes /\ m # NoNode
        BY <1>1, HeapFacts
      <4>. QED  BY <1>3, <2>2, <3>2, <4>1
    <3>5. Spine(Tail(s), node', n, used)
      BY ONLY <1>1, <3>1, <3>2, <3>3, <3>4, SpineDrops, Spine(s, node, m_pRoot, used)
    <3>. QED  BY <1>3, <2>2, <3>2, <3>5
  <2>3. CASE r # NoNode
    <3>1. PICK t : t = [s EXCEPT ![1] = r]
      OBVIOUS
    <3>2. r = node[s[1]].right
      BY <1>2, <1>3
    <3>3. node'[r].key = node[r].key /\ node'[r].parent = NoNode /\ node'[r].right = NoNode
      BY <1>3, <1>6, <2>3 DEF Hangs
    <3>4. node'[r].left = IF Len(s) = 1 THEN NoNode ELSE s[2]
      BY <1>3, <2>3
    <3>5. Len(s) >= 2 => /\ node'[s[2]].key = node[s[2]].key /\ node'[s[2]].parent = r
                         /\ node'[s[2]].left = node[s[2]].left /\ node'[s[2]].right = node[s[2]].right
      BY <1>3
    <3>6. \A m \in used : m # r /\ (Len(s) >= 2 => m # s[2]) => node'[m] = node[m]
      BY <1>1, <1>3
    <3>7. Spine(t, node', r, used)
      BY ONLY <1>1, <1>3, <2>3, <3>1, <3>2, <3>3, <3>4, <3>5, <3>6, SpineReplaces, Spine(s, node, m_pRoot, used)
    <3>. QED  BY <1>3, <2>3, <3>7
  <2>. QED  BY <2>1, <2>2, <2>3
<1>. QED  BY <1>3, <1>8, <1>9

LEMMA TreeStarts == TreeInit => TreeInv
<1> SUFFICES ASSUME TreeInit  PROVE TreeInv
  OBVIOUS
<1>1. PICK k \in Keys : k = CHOOSE j \in Keys : TRUE
  BY KeysAssumption
<1>2. node = [n \in Nodes |-> Blank(k)]
  BY <1>1 DEF TreeInit
<1>3. Blank(k) \in Records /\ Blank(k).left = NoNode /\ Blank(k).right = NoNode /\ Blank(k).parent = NoNode
  BY DEF Blank, Records
<1>4. node \in Heaps /\ \A n \in Nodes : node[n] = Blank(k)
  BY <1>2, <1>3 DEF Heaps
<1>5. used = {} /\ m_pRoot = NoNode /\ m_nLen = 0 /\ status = "ok"
  BY DEF TreeInit
<1>6. TreeTypeOK
  BY <1>4, <1>5 DEF TreeTypeOK, Heaps, Records
<1>7. Ordered(node, 0)
  <2>1. \A n \in Nodes : NoNode < n
    BY NodesAssumption DEF NoNode
  <2>. QED  BY <1>3, <1>4, <2>1 DEF Ordered
<1>8. Spine(<<>>, node, m_pRoot, used)
  <2>1. <<>> \in Seq(Nodes) /\ Len(<<>>) = 0 /\ 1 .. 0 = {} /\ Distinct(<<>>)
    BY DEF Distinct
  <2>. QED  BY <1>5, <2>1 DEF Spine
<1>9. 0 \in Nat /\ \A n \in used : n <= 0
  BY <1>5
<1>. QED  BY <1>5, <1>6, <1>7, <1>8, <1>9 DEF TreeInv

\* The root of a spine is of its tree, or there is none.
LEMMA SpineRoot ==
    ASSUME NEW s, NEW nd, NEW root, NEW us, Spine(s, nd, root, us)
    PROVE  root \in us \cup {NoNode}
<1>1. CASE s = <<>>
  BY <1>1 DEF Spine
<1>2. CASE s # <<>>
  <2>1. 1 \in 1 .. Len(s) /\ root = s[1]
    BY <1>2 DEF Spine
  <2>2. s[1] \in us
    BY <2>1 DEF Spine
  <2>. QED  BY <2>1, <2>2
<1>. QED  BY <1>1, <1>2

LEMMA TreeKept == TreeInv /\ [TreeNext]_treeVars => TreeInv'
<1> SUFFICES ASSUME TreeInv, [TreeNext]_treeVars  PROVE TreeInv'
  OBVIOUS
<1>1. /\ TreeTypeOK /\ node \in Heaps /\ used \subseteq Nodes /\ m_pRoot \in used \cup {NoNode}
      /\ m_nLen \in Nat /\ status \in {"ok", "null", "overrun", "gone"}
  BY TypeHeap DEF TreeInv, TreeTypeOK
<1>2. PICK b \in Nat : Ordered(node, b) /\ \A n \in used : n <= b
  BY DEF TreeInv
<1>3. PICK s : Spine(s, node, m_pRoot, used)
  BY DEF TreeInv
<1>4. status = "ok" => \A n \in used, m \in Nodes \ used : n < m
  BY DEF TreeInv
\* Enough about the next state.
<1>5. ASSUME node' \in Heaps, used' \subseteq Nodes, m_nLen' \in Nat,
             status' \in {"ok", "null", "overrun", "gone"},
             \E c \in Nat : Ordered(node', c) /\ \A n \in used' : n <= c,
             \E t : Spine(t, node', m_pRoot', used'),
             status' = "ok" => \A n \in used', m \in Nodes \ used' : n < m
      PROVE  TreeInv'
  <2>1. m_pRoot' \in used' \cup {NoNode}
    BY <1>5, SpineRoot
  <2>2. TreeTypeOK'
    BY <1>5, <2>1 DEF TreeTypeOK, Heaps, Records
  <2>3. /\ (\E c \in Nat : Ordered(node, c) /\ \A n \in used : n <= c)'
        /\ (\E t : Spine(t, node, m_pRoot, used))'
        /\ (status = "ok" => \A n \in used, m \in Nodes \ used : n < m)'
    BY <1>5 DEF Ordered, Spine, Hangs
  <2>. QED  BY <2>2, <2>3 DEF TreeInv
<1>6. ASSUME NEW key \in Keys, insertNode(key)  PROVE TreeInv'
  <2>1. PICK n : n = FreshNode
    OBVIOUS
  <2>2. /\ n \in Nodes /\ used' = used \cup {n} /\ status' = "ok" /\ m_nLen' \in Nat
        /\ \A i \in used \cup {n}, m \in Nodes \ (used \cup {n}) : i < m
    BY <1>2, <1>3, <1>6, <2>1, InsertCases
  <2>3. /\ node' \in Heaps /\ Ordered(node', b + n) /\ \A m \in used' : m <= b + n
        /\ \E t : Spine(t, node', m_pRoot', used')
    BY <1>2, <1>3, <1>6, <2>1, InsertKeeps
  <2>4. b + n \in Nat
    BY <1>1, <2>2, HeapFacts
  <2>. QED  BY <1>1, <1>5, <2>2, <2>3, <2>4
<1>7. ASSUME NEW key \in Keys, deleteNode(key)  PROVE TreeInv'
  <2>1. node' \in Heaps /\ Ordered(node', b) /\ \E t : Spine(t, node', m_pRoot', used')
    BY <1>2, <1>3, <1>7, DeleteKeeps
  <2>2. used' = used /\ status' = status /\ m_nLen' = m_nLen
    BY <1>7 DEF deleteNode
  <2>. QED  BY <1>1, <1>2, <1>4, <1>5, <2>1, <2>2
\* Calls that change nothing but the status.
<1>8. ASSUME node' = node, used' = used, m_pRoot' = m_pRoot, m_nLen' = m_nLen,
             status' = status \/ status' \in {"null", "overrun"}
      PROVE  TreeInv'
  BY <1>1, <1>2, <1>3, <1>4, <1>5, <1>8
<1>9. CASE minKey \/ maxKey \/ inorder_tree_walk
  BY <1>8, <1>9 DEF minKey, maxKey, inorder_tree_walk, Fails
<1>10. CASE Destroy
  <2>1. /\ node' = node /\ used' = used \ {m_pRoot} /\ m_pRoot' = NoNode /\ m_nLen' = 0
        /\ status' = "gone"
    BY <1>10 DEF Destroy
  <2>2. Spine(<<>>, node', m_pRoot', used')
    <3>1. <<>> \in Seq(Nodes) /\ Len(<<>>) = 0 /\ 1 .. 0 = {} /\ Distinct(<<>>)
      BY DEF Distinct
    <3>. QED  BY <2>1, <3>1 DEF Spine
  <2>. QED  BY <1>1, <1>2, <1>5, <2>1, <2>2
<1>11. CASE UNCHANGED treeVars
  BY <1>8, <1>11 DEF treeVars
<1>. QED  BY <1>6, <1>7, <1>9, <1>10, <1>11 DEF TreeNext

(* insertNode, deleteNode, the lookups, the walk and the destructor keep    *)
(* the spine of left links and the order of the addresses, for every set of *)
(* keys and any memory.                                                     *)
THEOREM TreeInvHolds == TreeSpec => []TreeInv
  BY TreeStarts, TreeKept, PTL DEF TreeSpec

(* After every order of insertNode and deleteNode the links are those of a  *)
(* tree: no node is met twice or is free, and parents and children agree.   *)
THEOREM TreeLinksExact == TreeSpec => []LinksExact
  BY TreeInvHolds, InvLinks, PTL

(* treeSuccessor and treePreDecessor of a key that search finds are the     *)
(* nodes next to it from left to right, or none at the ends.                *)
THEOREM TreeNeighbours == TreeSpec => []Neighbours
  BY TreeInvHolds, InvFinds, PTL

-----------------------------------------------------------------------------
(* A call changes the order of the nodes in one place.                      *)

\* What the nodes of a spine s before its last, p, leave of the order, when no
\* record but p's changed.
LEMMA InsertTail ==
    ASSUME NEW nd \in Heaps, NEW b \in Nat, Ordered(nd, b),
           NEW s, NEW root, NEW us, us \subseteq Nodes, Spine(s, nd, root, us), s # <<>>,
           NEW nd2 \in Heaps, NEW b2 \in Nat, Ordered(nd2, b2), NEW p, p = s[Len(s)],
           \A m \in us : m # p => nd2[m] = nd[m]
    PROVE  /\ p \in Nodes /\ RightSeq(nd, p) \in Seq(Nodes)
           /\ OrderOf(nd2, nd[p].right) = RightSeq(nd, p)
           /\ \A q \in Seq(Nodes) : q = OrderOf(nd2, p) =>
                Joint(<<p>> \o RightSeq(nd, p), q, OrderOf(nd, root), OrderOf(nd2, root))
<1>1. s \in Seq(Nodes) /\ Len(s) \in Nat /\ Len(s) \in 1 .. Len(s)
  BY DEF Spine
<1>2. ASSUME NEW i \in 1 .. Len(s), nd[s[i]].right # NoNode
      PROVE  /\ nd[s[i]].right \in Nodes
             /\ nd2[nd[s[i]].right].left = NoNode /\ nd2[nd[s[i]].right].right = NoNode
  <2>1. PICK r : r = nd[s[i]].right
    OBVIOUS
  <2>2. Hangs(nd, r, s[i]) /\ r \in us /\ \A j \in 1 .. Len(s) : r # s[j]
    BY <1>2, <2>1 DEF Spine
  <2>3. r \in Nodes /\ r # p /\ nd[r].left = NoNode /\ nd[r].right = NoNode
    BY <1>1, <2>2 DEF Hangs
  <2>. QED  BY <2>1, <2>2, <2>3
<1>3. ASSUME NEW i \in 1 .. Len(s), i # Len(s)
      PROVE  nd2[s[i]].left = nd[s[i]].left /\ nd2[s[i]].right = nd[s[i]].right
  <2>1. s[i] \in us /\ s[i] # p
    BY <1>1, <1>3, SpineFacts
  <2>. QED  BY <2>1
<1>4. p \in Nodes /\ RightSeq(nd, p) \in Seq(Nodes) /\ OrderAfter(nd, s, Len(s)) = <<>>
  <2>1. p \in Nodes
    BY <1>1, SpineFacts
  <2>2. RightSeq(nd, s[Len(s)]) \in Seq(Nodes)
    BY <1>1, SpineWalk
  <2>3. OrderAfter(nd, s, Len(s)) = <<>>
    BY DEF OrderAfter
  <2>. QED  BY <2>1, <2>2, <2>3
<1>5. PICK R \in Seq(Nodes) : R = RightSeq(nd, p)
  BY <1>4
<1>6. OrderOf(nd, p) = <<>> \o <<p>> \o R
  <2>1. OrderOf(nd, s[Len(s)]) = OrderAfter(nd, s, Len(s)) \o <<s[Len(s)]>> \o RightSeq(nd, s[Len(s)])
    BY <1>1, SpineWalk
  <2>. QED  BY ONLY <1>4, <1>5, <2>1, p = s[Len(s)], Zenon
<1>7. <<p>> \in Seq(Nodes)
  BY <1>4
<1>8. OrderOf(nd, p) = <<p>> \o R
  <2>1. <<>> \o <<p>> = <<p>>
    BY ONLY <1>7, ConcatEmpty
  <2>. QED  BY ONLY <1>6, <2>1
<1>9. <<p>> \o R \in Seq(Nodes)
  BY <1>5, <1>7, ConcatInSeq
<1>10. PICK w \in Seq(Nodes) : w = <<p>> \o R
  BY <1>9
<1>11. SameBefore(nd, nd2, s)
  BY <1>2, <1>3 DEF SameBefore
<1>12. ASSUME NEW q \in Seq(Nodes), q = OrderOf(nd2, p)
       PROVE  Joint(w, q, OrderOf(nd, root), OrderOf(nd2, root))
  <2>1. w = OrderOf(nd, s[Len(s)]) /\ q = OrderOf(nd2, s[Len(s)])
    BY <1>8, <1>10, <1>12
  <2>. QED
    BY ONLY <1>11, <2>1, OrderTail, nd \in Heaps, b \in Nat, Ordered(nd, b), Spine(s, nd, root, us),
            s # <<>>, nd2 \in Heaps, b2 \in Nat, Ordered(nd2, b2), w \in Seq(Nodes), q \in Seq(Nodes)
<1>13. OrderOf(nd2, nd[p].right) = RightSeq(nd, p)
  <2>1. CASE nd[p].right = NoNode
    BY <2>1, WalkUnfolds DEF RightSeq
  <2>2. CASE nd[p].right # NoNode
    <3>1. PICK r \in Nodes : r = nd[p].right /\ nd2[r].left = NoNode /\ nd2[r].right = NoNode
      BY <1>1, <1>2, <2>2
    <3>2. OrderOf(nd2, r) = <<r>>
      BY <3>1, OrderLeaf
    <3>. QED  BY <2>2, <3>1, <3>2 DEF RightSeq
  <2>. QED  BY <2>1, <2>2
<1>. QED  BY <1>4, <1>5, <1>10, <1>12, <1>13

\* The order with the node n that insertNode adds.
AddedOnce(a, b) ==
    \E k \in 1 .. Len(b) : \/ a = RemoveAt(b, k)
                           \/ Len(a) = Len(b) /\ RemoveAt(a, k) = RemoveAt(b, k)

\* It is added in front of what was last on the left.
LEMMA GrownOrder ==
    ASSUME NEW n \in Nodes, NEW p \in Nodes, NEW R \in Seq(Nodes), NEW z \in Seq(Nodes)
    PROVE  AddedOnce((<<p>> \o R) \o z, (<<n>> \o <<p>> \o R) \o z)
<1>1. <<n>> \in Seq(Nodes) /\ <<p>> \in Seq(Nodes) /\ <<>> \in Seq(Nodes) /\ Len(<<>>) = 0
  OBVIOUS
<1>2. PICK N \in Seq(Nodes) : N = <<n>>
  BY <1>1
<1>3. PICK P \in Seq(Nodes) : P = <<p>>
  BY <1>1
<1>4. PICK w \in Seq(Nodes) : w = P \o R
  BY <1>3, ConcatInSeq
<1>5. PICK a \in Seq(Nodes) : a = w \o z
  BY <1>4, ConcatInSeq
<1>6. (N \o P \o R) \o z = N \o a
  <2>1. N \o P \o R = N \o w
    BY ONLY <1>2, <1>3, <1>4, R \in Seq(Nodes), ConcatAssoc
  <2>2. (N \o w) \o z = N \o a
    BY ONLY <1>2, <1>4, <1>5, z \in Seq(Nodes), ConcatAssoc
  <2>. QED  BY ONLY <2>1, <2>2
<1>7. PICK E \in Seq(Nodes) : E = <<>> /\ Len(E) = 0
  BY <1>1
<1>8. E \o <<n>> = N /\ E \o a = a
  <2>1. <<>> \o N = N /\ <<>> \o a = a
    BY ONLY N \in Seq(Nodes), a \in Seq(Nodes), ConcatEmpty
  <2>. QED  BY ONLY <1>2, <1>7, <2>1
<1>9. PICK c : c = N \o a
  OBVIOUS
<1>10. Between(c, E, n, a)
  BY ONLY <1>8, <1>9, Zenon DEF Between
<1>11. 1 \in 1 .. Len(c) /\ RemoveAt(c, 1) = a
  <2>1. 1 = Len(E) + 1
    BY <1>7
  <2>2. Len(E) + 1 \in 1 .. Len(c) /\ RemoveAt(c, Len(E) + 1) = E \o a
    BY ONLY <1>10, n \in Nodes, E \in Seq(Nodes), a \in Seq(Nodes), RemoveBetween
  <2>. QED  BY ONLY <1>8, <2>1, <2>2
<1>12. AddedOnce(a, c)
  BY <1>11 DEF AddedOnce
<1>. QED  BY <1>2, <1>3, <1>4, <1>5, <1>6, <1>9, <1>12

\* It is put on the right of the last node p, where one node may have been.
LEMMA HungOrder ==
    ASSUME NEW n \in Nodes, NEW p \in Nodes, NEW z \in Seq(Nodes)
    PROVE  /\ AddedOnce(<<p>> \o z, (<<p>> \o <<n>>) \o z)
           /\ \A r \in Nodes : AddedOnce((<<p>> \o <<r>>) \o z, (<<p>> \o <<n>>) \o z)
<1>1. PICK P \in Seq(Nodes) : P = <<p>> /\ Len(P) = 1
  <2>1. <<p>> \in Seq(Nodes) /\ Len(<<p>>) = 1
    OBVIOUS
  <2>. QED  BY ONLY <2>1
<1>2. ASSUME NEW e \in Nodes
      PROVE  /\ 2 \in 1 .. Len(P \o <<e>> \o z) /\ RemoveAt(P \o <<e>> \o z, 2) = P \o z
             /\ Len(P \o <<e>> \o z) = 2 + Len(z)
  <2>1. PICK c : c = P \o <<e>> \o z
    OBVIOUS
  <2>2. Between(c, P, e, z)
    BY <2>1 DEF Between
  <2>3. 2 = Len(P) + 1
    BY <1>1
  <2>4. Len(c) = Len(P) + 1 + Len(z) /\ 2 \in 1 .. Len(c) /\ RemoveAt(c, 2) = P \o z
    BY ONLY <2>2, <2>3, P \in Seq(Nodes), z \in Seq(Nodes), e \in Nodes, RemoveBetween
  <2>. QED  BY ONLY <2>1, <2>3, <2>4
<1>3. PICK b : b = P \o <<n>> \o z
  OBVIOUS
<1>4. 2 \in 1 .. Len(b) /\ RemoveAt(b, 2) = P \o z /\ Len(b) = 2 + Len(z)
  BY <1>2, <1>3
<1>5. AddedOnce(P \o z, b)
  BY <1>4 DEF AddedOnce
<1>6. ASSUME NEW r \in Nodes  PROVE AddedOnce(P \o <<r>> \o z, b)
  <2>1. PICK a : a = P \o <<r>> \o z
    OBVIOUS
  <2>2. RemoveAt(a, 2) = P \o z /\ Len(a) = 2 + Len(z)
    BY <1>2, <2>1
  <2>3. AddedOnce(a, b)
    BY ONLY <1>4, <2>2 DEF AddedOnce
  <2>. QED  BY <2>1, <2>3
<1>. QED  BY <1>1, <1>3, <1>5, <1>6

LEMMA InsertOrder ==
    ASSUME TreeInv, NEW key \in Keys, insertNode(key)
    PROVE  used' # used /\ (InOrder' = InOrder \/ AddedOnce(InOrder, InOrder'))
<1>1. node \in Heaps /\ used \subseteq Nodes
  BY TypeHeap DEF TreeInv, TreeTypeOK
<1>2. PICK b \in Nat : Ordered(node, b) /\ \A n \in used : n <= b
  BY DEF TreeInv
<1>3. PICK s : Spine(s, node, m_pRoot, used)
  BY DEF TreeInv
<1>4. PICK n : n = FreshNode
  OBVIOUS
<1>5. /\ n \in Nodes /\ n \notin used /\ used' = used \cup {n}
      /\ \/ Lost(node', m_pRoot', n, key)
         \/ First(node', m_pRoot', n, key)
         \/ s # <<>> /\ Grown(node', m_pRoot', n, key, s[Len(s)])
         \/ s # <<>> /\ Hung(node', m_pRoot', n, key, s[Len(s)])
  BY <1>2, <1>3, <1>4, InsertCases
<1>6. node' \in Heaps /\ Ordered(node', b + n)
  BY <1>2, <1>3, <1>4, InsertKeeps
<1>7. PICK c \in Nat : c = b + n /\ Ordered(node', c)
  BY <1>1, <1>5, <1>6, HeapFacts
<1>8. PICK a : a = InOrder /\ a = OrderOf(node, m_pRoot)
  BY SameWalks
<1>9. PICK d : d = InOrder' /\ d = OrderOf(node', m_pRoot')
  BY SameOrderNext
<1>10. s \in Seq(Nodes) /\ Len(s) \in Nat /\ (s = <<>> <=> m_pRoot = NoNode)
  <2>1. s \in Seq(Nodes) /\ m_pRoot = IF s = <<>> THEN NoNode ELSE s[1]
    BY <1>3 DEF Spine
  <2>2. s # <<>> => s[1] \in Nodes /\ s[1] # NoNode
    BY <1>1, <2>1, HeapFacts
  <2>. QED  BY <2>1, <2>2
<1>11. OrderOf(node, NoNode) = <<>> /\ OrderOf(node', NoNode) = <<>>
  BY <1>1, <1>2, <1>6, <1>7, WalkUnfolds
<1>12. CASE Lost(node', m_pRoot', n, key)
  <2>1. m_pRoot' = m_pRoot /\ \A m \in Nodes : m # n => node'[m] = node[m]
    BY <1>1, <1>5, <1>12 DEF Lost, Heaps
  <2>2. CASE s = <<>>
    <3>1. a = <<>> /\ d = <<>>
      BY <1>8, <1>9, <1>10, <1>11, <2>1, <2>2
    <3>. QED  BY <1>5, <1>8, <1>9, <3>1
  <2>3. CASE s # <<>>
    <3>1. 1 \in 1 .. Len(s) /\ m_pRoot = s[1]
      BY <1>3, <1>10, <2>3 DEF Spine
    <3>2. \A m \in used : node'[m] = node[m]
      BY <1>1, <1>5, <2>1
    <3>3. \A i \in 1 .. Len(s) : s[i] \in used
      BY <1>3 DEF Spine
    <3>4. \A i \in 1 .. Len(s) : node'[s[i]].left = node[s[i]].left /\ node'[s[i]].right = node[s[i]].right
      BY <3>2, <3>3
    <3>5. \A i \in 1 .. Len(s) : node[s[i]].right # NoNode =>
            /\ node'[node[s[i]].right].left = NoNode /\ node'[node[s[i]].right].right = NoNode
      <4> SUFFICES ASSUME NEW i \in 1 .. Len(s), node[s[i]].right # NoNode
                   PROVE  /\ node'[node[s[i]].right].left = NoNode
                          /\ node'[node[s[i]].right].right = NoNode
        OBVIOUS
      <4>1. Hangs(node, node[s[i]].right, s[i]) /\ node[s[i]].right \in used
        BY <1>3 DEF Spine
      <4>. QED  BY <3>2, <4>1 DEF Hangs
    <3>6. OrderOf(node', s[1]) = OrderOf(node, s[1])
      BY <1>1, <1>2, <1>3, <1>6, <1>7, <3>1, <3>4, <3>5, OrderSame
    <3>. QED  BY <1>5, <1>8, <1>9, <2>1, <3>1, <3>6
  <2>. QED  BY <2>2, <2>3
<1>13. CASE First(node', m_pRoot', n, key)
  <2>1. m_pRoot = NoNode /\ m_pRoot' = n /\ node'[n] = Blank(key)
    BY <1>1, <1>5, <1>13 DEF First, Heaps
  <2>2. node'[n].left = NoNode /\ node'[n].right = NoNode
    BY <2>1 DEF Blank
  <2>3. OrderOf(node', n) = <<n>>
    BY <1>5, <1>6, <1>7, <2>2, OrderLeaf
  <2>4. <<n>> \in Seq(Nodes) /\ Len(<<n>>) = 1 /\ 1 \in 1 .. 1
    BY <1>5
  <2>5. PICK t : t = RemoveAt(<<n>>, 1)
    OBVIOUS
  <2>6. t \in Seq(Nodes) /\ Len(t) = Len(<<n>>) - 1
    BY ONLY <2>4, <2>5, RemoveAtValues
  <2>7. t = <<>>
    BY <2>4, <2>6
  <2>8. AddedOnce(<<>>, <<n>>)
    BY <2>4, <2>5, <2>7 DEF AddedOnce
  <2>9. a = <<>> /\ d = <<n>>
    BY <1>8, <1>9, <1>11, <2>1, <2>3
  <2>. QED  BY <1>5, <1>8, <1>9, <2>8, <2>9
<1>14. CASE s # <<>> /\ \/ Grown(node', m_pRoot', n, key, s[Len(s)])
                        \/ Hung(node', m_pRoot', n, key, s[Len(s)])
  <2>1. PICK p : p = s[Len(s)]
    OBVIOUS
  <2>2. p \in used /\ p \in Nodes /\ p # n
    <3>1. Len(s) \in 1 .. Len(s)
      BY <1>10, <1>14
    <3>2. s[Len(s)] \in used
      BY <1>3, <3>1 DEF Spine
    <3>. QED  BY <1>1, <1>5, <2>1, <3>2
  <2>3. PICK rn : rn = [Blank(key) EXCEPT !.parent = p]
    OBVIOUS
  <2>4. rn.left = NoNode /\ rn.right = NoNode
    BY <2>3 DEF Blank
  <2>5. \E rp : node' = [node EXCEPT ![n] = rn, ![p] = rp]
    BY <1>14, <2>1, <2>3 DEF Grown, Hung
  <2>6. node'[n] = rn /\ \A m \in Nodes : m # n /\ m # p => node'[m] = node[m]
    BY <1>1, <1>5, <2>2, <2>5 DEF Heaps
  <2>7. \A m \in used : m # p => node'[m] = node[m]
    BY <1>1, <1>5, <2>6
  <2>8. PICK R : R = RightSeq(node, p)
    OBVIOUS
  <2>9. /\ R \in Seq(Nodes) /\ OrderOf(node', node[p].right) = R
        /\ \A q \in Seq(Nodes) : q = OrderOf(node', p) =>
             Joint(<<p>> \o R, q, OrderOf(node, m_pRoot), OrderOf(node', m_pRoot))
    BY <1>1, <1>2, <1>3, <1>6, <1>7, <1>14, <2>1, <2>7, <2>8, InsertTail
  <2>10. OrderOf(node', n) = <<n>>
    BY <1>5, <1>6, <1>7, <2>4, <2>6, OrderLeaf
  <2>11. OrderOf(node', p) = OrderOf(node', node'[p].left) \o <<p>> \o OrderOf(node', node'[p].right)
    BY <1>6, <1>7, <2>2, WalkUnfolds
  <2>12. m_pRoot' = m_pRoot
    BY <1>14 DEF Grown, Hung
  <2>13. CASE Grown(node', m_pRoot', n, key, p)
    <3>1. node'[p].left = n /\ node'[p].right = node[p].right
      <4>1. node'[p] = [node[p] EXCEPT !.left = n]
        BY <1>1, <1>5, <2>2, <2>13 DEF Grown, Heaps
      <4>. QED  BY <1>1, <2>2, <4>1 DEF Heaps, Records
    <3>2. PICK q : q = <<n>> \o <<p>> \o R
      OBVIOUS
    <3>3. q = OrderOf(node', p)
      BY <2>9, <2>10, <2>11, <3>1, <3>2, Zenon
    <3>4. q \in Seq(Nodes)
      <4>1. <<n>> \in Seq(Nodes) /\ <<p>> \in Seq(Nodes)
        BY <1>5, <2>2
      <4>2. <<n>> \o <<p>> \in Seq(Nodes)
        BY <4>1, ConcatInSeq
      <4>. QED  BY <2>9, <3>2, <4>2, ConcatInSeq
    <3>5. PICK z \in Seq(Nodes) : /\ OrderOf(node, m_pRoot) = (<<p>> \o R) \o z
                                  /\ OrderOf(node', m_pRoot) = q \o z
      BY ONLY <2>9, <3>3, <3>4, Zenon DEF Joint
    <3>6. AddedOnce((<<p>> \o R) \o z, (<<n>> \o <<p>> \o R) \o z)
      BY <1>5, <2>2, <2>9, GrownOrder
    <3>7. a = (<<p>> \o R) \o z /\ d = (<<n>> \o <<p>> \o R) \o z
      BY ONLY <1>8, <1>9, <2>12, <3>2, <3>5
    <3>8. AddedOnce(a, d)
      BY ONLY <3>6, <3>7
    <3>. QED  BY <1>5, <1>8, <1>9, <3>8
  <2>14. CASE Hung(node', m_pRoot', n, key, p)
    <3>1. node'[p].right = n /\ node'[p].left = NoNode
      <4>1. node'[p] = [node[p] EXCEPT !.right = n]
        BY <1>1, <1>5, <2>2, <2>14 DEF Hung, Heaps
      <4>2. node[p].left = NoNode
        <5>1. Len(s) \in 1 .. Len(s)
          BY <1>10, <1>14
        <5>. QED  BY <1>1, <1>3, <2>1, <5>1, SpineFacts
      <4>. QED  BY <1>1, <2>2, <4>1, <4>2 DEF Heaps, Records
    <3>2. PICK q : q = <<p>> \o <<n>>
      OBVIOUS
    <3>3. q \in Seq(Nodes) /\ <<p>> \in Seq(Nodes)
      BY <1>5, <2>2, <3>2
    <3>4. q = OrderOf(node', p)
      <4>1. OrderOf(node', p) = <<>> \o <<p>> \o <<n>>
        BY ONLY <1>11, <2>10, <2>11, <3>1, Zenon
      <4>2. <<>> \o <<p>> = <<p>>
        BY ONLY <3>3, ConcatEmpty
      <4>. QED  BY ONLY <3>2, <4>1, <4>2
    <3>5. PICK z \in Seq(Nodes) : /\ OrderOf(node, m_pRoot) = (<<p>> \o R) \o z
                                  /\ OrderOf(node', m_pRoot) = q \o z
      BY ONLY <2>9, <3>3, <3>4, Zenon DEF Joint
    <3>6. a = (<<p>> \o R) \o z /\ d = (<<p>> \o <<n>>) \o z
      BY ONLY <1>8, <1>9, <2>12, <3>2, <3>5
    <3>7. /\ AddedOnce(<<p>> \o z, (<<p>> \o <<n>>) \o z)
          /\ \A r \in Nodes : AddedOnce((<<p>> \o <<r>>) \o z, (<<p>> \o <<n>>) \o z)
      BY <1>5, <2>2, HungOrder
    <3>8. CASE node[p].right = NoNode
      <4>1. R = <<>>
        BY <2>8, <3>8 DEF RightSeq
      <4>2. <<p>> \o R = <<p>>
        BY ONLY <3>3, <4>1, ConcatEmpty
      <4>3. AddedOnce(a, d)
        BY ONLY <3>6, <3>7, <4>2
      <4>. QED  BY <1>5, <1>8, <1>9, <4>3
    <3>9. CASE node[p].right # NoNode
      <4>1. PICK r \in Nodes : R = <<r>>
        BY <1>1, <2>2, <2>8, <3>9, HeapFacts DEF RightSeq
      <4>2. AddedOnce(a, d)
        BY ONLY <3>6, <3>7, <4>1, r \in Nodes
      <4>. QED  BY <1>5, <1>8, <1>9, <4>2
    <3>. QED  BY <3>8, <3>9
  <2>. QED  BY <1>14, <2>1, <2>13, <2>14
<1>. QED  BY <1>5, <1>12, <1>13, <1>14

LEMMA DeleteOrder ==
    ASSUME TreeInv, NEW key \in Keys, deleteNode(key)
    PROVE  /\ used' = used
           /\ \E k \in 1 .. Len(InOrder) :
                InOrder[k] = m_pRoot /\ InOrder' = RemoveAt(InOrder, k)
<1>1. node \in Heaps /\ used \subseteq Nodes
  BY TypeHeap DEF TreeInv, TreeTypeOK
<1>2. PICK b \in Nat : Ordered(node, b) /\ \A n \in used : n <= b
  BY DEF TreeInv
<1>3. PICK s : Spine(s, node, m_pRoot, used)
  BY DEF TreeInv
<1>4. PICK r : r = node[m_pRoot].right
  OBVIOUS
<1>5. /\ s # <<>> /\ m_pRoot = s[1] /\ node' \in Heaps /\ used' = used
      /\ r \in Nodes \cup {NoNode}
      /\ m_pRoot' = IF r # NoNode THEN r ELSE IF Len(s) = 1 THEN NoNode ELSE s[2]
      /\ \A m \in Nodes : node'[m].key = node[m].key /\ node'[m].right = node[m].right
      /\ \A m \in Nodes : m # r => node'[m].left = node[m].left
      /\ r # NoNode => /\ node'[r].parent = NoNode
                       /\ node'[r].left = IF Len(s) = 1 THEN NoNode ELSE s[2]
  BY <1>2, <1>3, <1>4, DeleteIs
<1>6. Ordered(node', b)
  BY <1>2, <1>3, DeleteKeeps
<1>7. s \in Seq(Nodes) /\ Len(s) \in Nat /\ 1 \in 1 .. Len(s) /\ m_pRoot \in Nodes
  BY <1>3, <1>5 DEF Spine
<1>8. PICK A : A = OrderAfter(node, s, 1)
  OBVIOUS
<1>9. PICK R : R = RightSeq(node, m_pRoot)
  OBVIOUS
<1>10. A \in Seq(Nodes) /\ R \in Seq(Nodes) /\ OrderOf(node, m_pRoot) = A \o <<m_pRoot>> \o R
  BY <1>1, <1>2, <1>3, <1>5, <1>7, <1>8, <1>9, SpineWalk, OrderType
<1>11. OrderOf(node', NoNode) = <<>>
  BY <1>5, <1>2, <1>6, WalkUnfolds
\* The child on the right hangs on the root and on no other node.
<1>12. r # NoNode => /\ r \in Nodes /\ node[r].right = NoNode /\ node[r].parent = s[1]
                     /\ \A j \in 1 .. Len(s) : r # s[j]
  BY <1>3, <1>4, <1>5, <1>7 DEF Spine, Hangs
<1>13. ASSUME Len(s) # 1  PROVE OrderOf(node', s[2]) = A
  <2>1. PICK k \in Nat : k = Len(s)
    BY <1>7
  <2>2. 2 \in 1 .. Len(s) /\ 1 # Len(s) /\ 1 + 1 = 2
    BY ONLY <1>7, <1>13, <2>1
  <2>3. A = OrderOf(node, s[2])
    BY ONLY <1>8, <2>2 DEF OrderAfter
  <2>4. ASSUME NEW i \in 2 .. Len(s)
        PROVE  /\ i \in 1 .. Len(s) /\ s[i] \in Nodes /\ s[i] # r /\ s[i] # s[1]
    <3>1. i \in 1 .. Len(s) /\ i # 1
      BY ONLY <2>1, <2>4
    <3>2. s[i] \in Nodes /\ s[i] # NoNode /\ s[i] # s[1]
      BY <1>1, <1>3, <1>7, <3>1, HeapFacts, SpineFacts
    <3>. QED  BY <1>12, <3>1, <3>2
  <2>5. \A i \in 2 .. Len(s) : /\ node'[s[i]].left = node[s[i]].left
                               /\ node'[s[i]].right = node[s[i]].right
    BY <1>5, <2>4
  <2>6. ASSUME NEW i \in 2 .. Len(s), node[s[i]].right # NoNode
        PROVE  /\ node'[node[s[i]].right].left = NoNode
               /\ node'[node[s[i]].right].right = NoNode
    <3>1. PICK c : c = node[s[i]].right
      OBVIOUS
    <3>2. Hangs(node, c, s[i])
      BY <1>1, <1>3, <2>4, <2>6, <3>1, SpineFacts
    <3>3. c \in Nodes /\ node[c].left = NoNode /\ node[c].right = NoNode /\ node[c].parent = s[i]
      BY <3>2 DEF Hangs
    <3>4. c # NoNode /\ c # r
      BY <1>12, <2>4, <2>6, <3>1, <3>3
    <3>. QED  BY <1>5, <3>1, <3>3, <3>4
  <2>7. \A i \in 2 .. Len(s) : node[s[i]].right # NoNode =>
                                 /\ node'[node[s[i]].right].left = NoNode
                                 /\ node'[node[s[i]].right].right = NoNode
    BY <2>6
  <2>8. OrderOf(node', s[2]) = OrderOf(node, s[2])
    BY <1>1, <1>2, <1>3, <1>5, <1>6, <2>2, <2>5, <2>7, OrderSame
  <2>. QED  BY <2>3, <2>8
<1>14. Len(s) = 1 => A = <<>>
  BY <1>8 DEF OrderAfter
<1>15. OrderOf(node', m_pRoot') = A \o R
  <2>1. CASE r = NoNode
    <3>1. R = <<>> /\ A \o <<>> = A
      BY <1>4, <1>9, <1>10, <2>1, ConcatEmpty DEF RightSeq
    <3>2. OrderOf(node', m_pRoot') = A
      BY <1>5, <1>11, <1>13, <1>14, <2>1
    <3>. QED  BY <3>1, <3>2
  <2>2. CASE r # NoNode
    <3>1. R = <<r>> /\ r \in Nodes
      BY <1>4, <1>9, <1>12, <2>2 DEF RightSeq
    <3>2. OrderOf(node', r) = OrderOf(node', node'[r].left) \o <<r>> \o OrderOf(node', node'[r].right)
      BY <1>2, <1>5, <1>6, <3>1, WalkUnfolds
    <3>3. OrderOf(node', node'[r].left) = A
      BY <1>5, <1>11, <1>13, <1>14, <2>2
    <3>4. OrderOf(node', node'[r].right) = <<>>
      BY <1>5, <1>11, <1>12, <2>2
    <3>5. OrderOf(node', r) = (A \o R) \o <<>>
      BY ONLY <3>1, <3>2, <3>3, <3>4, Zenon
    <3>6. (A \o R) \o <<>> = A \o R
      BY <1>10, ConcatInSeq, ConcatEmpty
    <3>. QED  BY <1>5, <2>2, <3>5, <3>6
  <2>. QED  BY <2>1, <2>2
<1>16. PICK a : a = InOrder /\ a = A \o <<m_pRoot>> \o R
  BY <1>10, SameWalks
<1>17. InOrder' = A \o R
  BY <1>15, SameOrderNext
<1>18. Between(a, A, m_pRoot, R)
  BY <1>16 DEF Between
<1>19. PICK k : k = Len(A) + 1
  OBVIOUS
<1>20. k \in 1 .. Len(a) /\ a[k] = m_pRoot /\ RemoveAt(a, k) = A \o R
  <2>1. /\ Len(A) + 1 \in 1 .. Len(a) /\ a[Len(A) + 1] = m_pRoot
        /\ RemoveAt(a, Len(A) + 1) = A \o R
    BY ONLY <1>7, <1>10, <1>18, RemoveBetween
  <2>. QED  BY ONLY <1>19, <2>1
<1>. QED  BY <1>5, <1>16, <1>17, <1>20

(* insertNode adds one node to the order or puts it where one was, and      *)
(* deleteNode takes out the root alone; no other node changes its place.    *)
THEOREM TreeChangesOnce == TreeSpec => ChangesOnce
<1> DEFINE Step ==
      LET a == InOrder
          b == InOrder'
      IN  status' = "ok" /\ a # b =>
            IF used' = used
            THEN \E k \in 1 .. Len(a) : a[k] = m_pRoot /\ b = RemoveAt(a, k)
            ELSE \E k \in 1 .. Len(b) :
                   \/ a = RemoveAt(b, k)
                   \/ Len(a) = Len(b) /\ RemoveAt(a, k) = RemoveAt(b, k)
<1>1. ASSUME TreeInv, [TreeNext]_treeVars  PROVE [Step]_treeVars
  <2> SUFFICES ASSUME TreeNext, status' = "ok"  PROVE Step
    BY <1>1
  <2>1. ASSUME NEW key \in Keys, insertNode(key)  PROVE Step
    BY <1>1, <2>1, InsertOrder DEF AddedOnce
  <2>2. ASSUME NEW key \in Keys, deleteNode(key)  PROVE Step
    BY <1>1, <2>2, DeleteOrder
  <2>3. ~ minKey /\ ~ maxKey /\ ~ inorder_tree_walk /\ ~ Destroy
    BY DEF minKey, maxKey, inorder_tree_walk, Destroy, Fails
  <2>. QED  BY <2>1, <2>2, <2>3 DEF TreeNext
<1>. QED  BY <1>1, TreeInvHolds, PTL DEF TreeSpec, ChangesOnce
=============================================================================
