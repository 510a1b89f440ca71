---------------------------- MODULE AdListProofs ----------------------------
(***************************************************************************)
(* The pointers of adlist.c make up lists, for any finite memory, any      *)
(* values and any callers: an inductive invariant that gives every list    *)
(* the sequence of its nodes, and what follows from it.                    *)
(***************************************************************************)
EXTENDS AdList, DataLemmas, FiniteSetTheorems

\* The k-th node of c, or NULL outside.
At(c, k) == IF k \in 1 .. Len(c) THEN c[k] ELSE Nil

\* The header h and the links in nd spell the nodes c.
Linked(nd, h, c) ==
    /\ c \in Seq(Nodes) /\ Distinct(c)
    /\ h.len = Len(c) /\ h.head = At(c, 1) /\ h.tail = At(c, Len(c))
    /\ \A k \in 1 .. Len(c) : nd[c[k]].next = At(c, k + 1) /\ nd[c[k]].prev = At(c, k - 1)

LEMMA NilNoNode == Nil \notin Nodes /\ Nil \in Int /\ Nodes \subseteq Int
BY NodesAssumption DEF Nil

LEMMA AtSame ==
    ASSUME NEW c \in Seq(Nodes), Distinct(c), NEW k \in 1 .. Len(c), NEW j \in Int
    PROVE  c[k] = At(c, j) <=> k = j
<1>1. c[k] \in Nodes /\ c[k] # Nil
  BY NilNoNode
<1>. QED  BY <1>1 DEF At, Distinct

LEMMA AtType ==
    ASSUME NEW c \in Seq(Nodes), NEW j \in Int
    PROVE  /\ At(c, j) \in Range(c) \cup {Nil} /\ At(c, j) \in Nodes \cup {Nil}
           /\ j \in 1 .. Len(c) => At(c, j) = c[j] /\ At(c, j) \in Range(c) /\ At(c, j) \in Nodes
           /\ j \notin 1 .. Len(c) => At(c, j) = Nil
BY DEF At, Range

LEMMA RangeIs ==
    ASSUME NEW X, NEW c \in Seq(X)
    PROVE  /\ Len(c) \in Nat /\ DOMAIN c = 1 .. Len(c)
           /\ \A x : x \in Range(c) <=> \E k \in 1 .. Len(c) : c[k] = x
           /\ \A k \in 1 .. Len(c) : c[k] \in Range(c) /\ c[k] \in X
BY DEF Range

\* A member that is new joins after the i-th.
LEMMA SeqGains ==
    ASSUME NEW c \in Seq(Nodes), Distinct(c), NEW i \in 0 .. Len(c), NEW n \in Nodes \ Range(c),
           NEW t, t = InsertAt(c, i + 1, n)
    PROVE  /\ t \in Seq(Nodes) /\ Distinct(t) /\ Len(t) = Len(c) + 1
           /\ Range(t) = Range(c) \cup {n}
           /\ \A j \in 0 .. Len(t) + 1 :
                At(t, j) = IF j <= i THEN At(c, j) ELSE IF j = i + 1 THEN n ELSE At(c, j - 1)
           /\ \A j \in 1 .. Len(t) : t[j] = IF j <= i THEN c[j] ELSE IF j = i + 1 THEN n ELSE c[j - 1]
<1>1. Len(c) \in Nat /\ i \in Nat /\ i <= Len(c) /\ n \in Nodes
  OBVIOUS
<1>2. /\ t \in Seq(Nodes) /\ Len(t) = Len(c) + 1
      /\ \A j \in 1 .. Len(t) : t[j] = IF j <= i THEN c[j] ELSE IF j = i + 1 THEN n ELSE c[j - 1]
  <2>1. t \in Seq(Nodes) /\ Len(t) = Len(c) + 1 /\ Gains(t, c, i, n)
    BY <1>1, InsertAtValues
  <2>. QED  BY <2>1 DEF Gains
<1>3. \A k \in 1 .. Len(c) : c[k] # n
  BY RangeIs
<1>4. Distinct(t)
  <2>1. SUFFICES ASSUME NEW j \in 1 .. Len(t), NEW k \in 1 .. Len(t), t[j] = t[k]  PROVE j = k
    BY DEF Distinct
  <2>2. \A m \in 1 .. Len(t) :
          /\ m <= i => m \in 1 .. Len(c)
          /\ m > i + 1 => m - 1 \in 1 .. Len(c)
          /\ m \in Int /\ (m <= i \/ m = i + 1 \/ m > i + 1)
    BY <1>1, <1>2
  <2>3. /\ j <= i => t[j] = c[j]
        /\ j = i + 1 => t[j] = n
        /\ j > i + 1 => t[j] = c[j - 1]
    BY <1>1, <1>2, <2>2
  <2>4. /\ k <= i => t[k] = c[k]
        /\ k = i + 1 => t[k] = n
        /\ k > i + 1 => t[k] = c[k - 1]
    BY <1>1, <1>2, <2>2
  <2>5. \A x, y \in 1 .. Len(c) : c[x] = c[y] => x = y
    BY DEF Distinct
  <2>6. CASE j = i + 1 \/ k = i + 1
    BY <1>1, <1>3, <2>1, <2>2, <2>3, <2>4, <2>6
  <2>7. CASE j <= i /\ k <= i
    BY <2>1, <2>2, <2>3, <2>4, <2>5, <2>7
  <2>8. CASE j > i + 1 /\ k > i + 1
    <3>1. c[j - 1] = c[k - 1] /\ j - 1 \in 1 .. Len(c) /\ k - 1 \in 1 .. Len(c)
      BY <2>1, <2>2, <2>3, <2>4, <2>8
    <3>2. j - 1 = k - 1
      BY <2>5, <3>1
    <3>. QED  BY <2>2, <3>2
  <2>9. CASE j <= i /\ k > i + 1
    <3>1. c[j] = c[k - 1] /\ j \in 1 .. Len(c) /\ k - 1 \in 1 .. Len(c) /\ j # k - 1
      BY <1>1, <2>1, <2>2, <2>3, <2>4, <2>9
    <3>. QED  BY <2>5, <3>1
  <2>10. CASE j > i + 1 /\ k <= i
    <3>1. c[j - 1] = c[k] /\ j - 1 \in 1 .. Len(c) /\ k \in 1 .. Len(c) /\ j - 1 # k
      BY <1>1, <2>1, <2>2, <2>3, <2>4, <2>10
    <3>. QED  BY <2>5, <3>1
  <2>. QED  BY <2>2, <2>6, <2>7, <2>8, <2>9, <2>10
<1>5. Range(t) = Range(c) \cup {n}
  <2>1. ASSUME NEW x \in Range(t)  PROVE x \in Range(c) \cup {n}
    <3>1. PICK k \in 1 .. Len(t) : t[k] = x
      BY <1>2, RangeIs
    <3>2. \/ k \in 1 .. Len(c) /\ t[k] = c[k]
          \/ t[k] = n
          \/ k - 1 \in 1 .. Len(c) /\ t[k] = c[k - 1]
      BY <1>1, <1>2
    <3>. QED  BY <3>1, <3>2, RangeIs
  <2>2. ASSUME NEW x \in Range(c)  PROVE x \in Range(t)
    <3>1. PICK k \in 1 .. Len(c) : c[k] = x
      BY RangeIs
    <3>2. (k \in 1 .. Len(t) /\ t[k] = c[k]) \/ (k + 1 \in 1 .. Len(t) /\ t[k + 1] = c[k])
      BY <1>1, <1>2
    <3>. QED  BY <1>2, <3>1, <3>2, RangeIs
  <2>3. n \in Range(t)
    <3>1. i + 1 \in 1 .. Len(t) /\ t[i + 1] = n
      BY <1>1, <1>2
    <3>. QED  BY <1>2, <3>1, RangeIs
  <2>. QED  BY <2>1, <2>2, <2>3
<1>6. \A j \in 0 .. Len(t) + 1 :
        At(t, j) = IF j <= i THEN At(c, j) ELSE IF j = i + 1 THEN n ELSE At(c, j - 1)
  BY <1>1, <1>2 DEF At
<1>. QED  BY <1>2, <1>4, <1>5, <1>6

\* The k-th member goes.
LEMMA SeqLoses ==
    ASSUME NEW c \in Seq(Nodes), Distinct(c), NEW k \in 1 .. Len(c), NEW t, t = RemoveAt(c, k)
    PROVE  /\ t \in Seq(Nodes) /\ Distinct(t) /\ Len(t) = Len(c) - 1
           /\ Range(t) = Range(c) \ {c[k]}
           /\ \A j \in 0 .. Len(c) : At(t, j) = IF j < k THEN At(c, j) ELSE At(c, j + 1)
           /\ \A j \in 1 .. Len(t) : t[j] = IF j < k THEN c[j] ELSE c[j + 1]
<1>1. Len(c) \in Nat /\ k \in Nat /\ k >= 1 /\ k <= Len(c)
  OBVIOUS
<1>2. /\ t \in Seq(Nodes) /\ Len(t) = Len(c) - 1
      /\ \A j \in 1 .. Len(t) : t[j] = IF j < k THEN c[j] ELSE c[j + 1]
  BY RemoveAtValues
<1>3. Distinct(t)
  BY <1>1, <1>2 DEF Distinct
<1>4. ASSUME NEW x \in Range(t)  PROVE x \in Range(c) \ {c[k]}
  <2>1. PICK j \in 1 .. Len(t) : t[j] = x
    BY <1>2, RangeIs
  <2>2. \/ j \in 1 .. Len(c) /\ j # k /\ x = c[j]
        \/ j + 1 \in 1 .. Len(c) /\ j + 1 # k /\ x = c[j + 1]
    BY <1>1, <1>2, <2>1
  <2>. QED  BY <2>2, RangeIs DEF Distinct
<1>5. ASSUME NEW x \in Range(c) \ {c[k]}  PROVE x \in Range(t)
  <2>1. PICK j \in 1 .. Len(c) : c[j] = x
    BY RangeIs
  <2>2. (j \in 1 .. Len(t) /\ t[j] = x) \/ (j - 1 \in 1 .. Len(t) /\ t[j - 1] = x)
    BY <1>1, <1>2, <2>1
  <2>. QED  BY <1>2, <2>2, RangeIs
<1>6. \A j \in 0 .. Len(c) : At(t, j) = IF j < k THEN At(c, j) ELSE At(c, j + 1)
  BY <1>1, <1>2 DEF At
<1>. QED  BY <1>2, <1>3, <1>4, <1>5, <1>6

-----------------------------------------------------------------------------
(* One list under a change.                                                 *)

LEMMA LinksStay ==
    ASSUME NEW nd, NEW md, NEW h, NEW c, Linked(nd, h, c),
           \A m \in Range(c) : md[m].next = nd[m].next /\ md[m].prev = nd[m].prev
    PROVE  Linked(md, h, c)
<1>1. c \in Seq(Nodes)
  BY DEF Linked
<1>2. \A k \in 1 .. Len(c) : c[k] \in Range(c)
  BY <1>1, RangeIs
<1>. QED  BY <1>2 DEF Linked

\* Node n joins after the i-th.
LEMMA InsertLinks ==
    ASSUME NEW nd, NEW md, NEW h, NEW g, NEW c, Linked(nd, h, c),
           NEW i \in 0 .. Len(c), NEW n \in Nodes \ Range(c),
           md[n].next = At(c, i + 1), md[n].prev = At(c, i),
           \A m \in Range(c) : /\ md[m].next = IF m = At(c, i) THEN n ELSE nd[m].next
                               /\ md[m].prev = IF m = At(c, i + 1) THEN n ELSE nd[m].prev,
           g.len = h.len + 1,
           g.head = IF i = 0 THEN n ELSE h.head,
           g.tail = IF i = Len(c) THEN n ELSE h.tail
    PROVE  Linked(md, g, InsertAt(c, i + 1, n))
<1>1. PICK t : t = InsertAt(c, i + 1, n)
  OBVIOUS
<1>2. /\ c \in Seq(Nodes) /\ Distinct(c) /\ Len(c) \in Nat /\ i \in Nat /\ i <= Len(c)
      /\ \A k \in 1 .. Len(c) : c[k] \in Range(c)
  <2>1. c \in Seq(Nodes) /\ Distinct(c)
    BY DEF Linked
  <2>. QED  BY <2>1, RangeIs
<1>3. /\ t \in Seq(Nodes) /\ Distinct(t) /\ Len(t) = Len(c) + 1
      /\ \A j \in 0 .. Len(t) + 1 :
           At(t, j) = IF j <= i THEN At(c, j) ELSE IF j = i + 1 THEN n ELSE At(c, j - 1)
      /\ \A j \in 1 .. Len(t) : t[j] = IF j <= i THEN c[j] ELSE IF j = i + 1 THEN n ELSE c[j - 1]
  BY <1>1, <1>2, SeqGains
<1>4. g.len = Len(t) /\ g.head = At(t, 1) /\ g.tail = At(t, Len(t))
  <2>1. h.len = Len(c) /\ h.head = At(c, 1) /\ h.tail = At(c, Len(c))
    BY DEF Linked
  <2>2. At(t, 1) = IF i = 0 THEN n ELSE At(c, 1)
    BY <1>2, <1>3
  <2>3. At(t, Len(t)) = IF i = Len(c) THEN n ELSE At(c, Len(c))
    BY <1>2, <1>3
  <2>. QED  BY <1>3, <2>1, <2>2, <2>3
<1>5. ASSUME NEW k \in 1 .. Len(t)
      PROVE  md[t[k]].next = At(t, k + 1) /\ md[t[k]].prev = At(t, k - 1)
  <2>1. /\ k \in Int /\ k >= 1 /\ k <= Len(c) + 1
        /\ At(t, k + 1) = IF k + 1 <= i THEN At(c, k + 1) ELSE IF k = i THEN n ELSE At(c, k)
        /\ At(t, k - 1) = IF k - 1 <= i THEN At(c, k - 1) ELSE IF k - 1 = i + 1 THEN n ELSE At(c, k - 2)
    <3>1. k \in Int /\ k >= 1 /\ k <= Len(c) + 1 /\ k + 1 \in 0 .. Len(t) + 1 /\ k - 1 \in 0 .. Len(t) + 1
      BY <1>2, <1>3
    <3>2. /\ At(t, k + 1) = IF k + 1 <= i THEN At(c, k + 1) ELSE IF k + 1 = i + 1 THEN n ELSE At(c, (k + 1) - 1)
          /\ At(t, k - 1) = IF k - 1 <= i THEN At(c, k - 1) ELSE IF k - 1 = i + 1 THEN n ELSE At(c, (k - 1) - 1)
      BY <1>3, <3>1
    <3>3. (k + 1) - 1 = k /\ (k - 1) - 1 = k - 2 /\ (k + 1 = i + 1 <=> k = i)
      BY <1>2, <3>1
    <3>. QED  BY <3>1, <3>2, <3>3
  <2>2. CASE k <= i
    <3>1. k \in 1 .. Len(c) /\ t[k] = c[k] /\ c[k] \in Range(c)
      BY <1>2, <1>3, <2>1, <2>2
    <3>2. nd[c[k]].next = At(c, k + 1) /\ nd[c[k]].prev = At(c, k - 1)
      BY <3>1 DEF Linked
    <3>3. (c[k] = At(c, i) <=> k = i) /\ c[k] # At(c, i + 1)
      BY <1>2, <2>2, <3>1, AtSame
    <3>4. md[c[k]].next = (IF k = i THEN n ELSE At(c, k + 1)) /\ md[c[k]].prev = At(c, k - 1)
      BY <3>1, <3>2, <3>3
    <3>. QED  BY <1>2, <2>1, <2>2, <3>1, <3>4
  <2>3. CASE k = i + 1
    <3>1. t[k] = n
      BY <1>2, <1>3, <2>3
    <3>. QED  BY <1>2, <2>1, <2>3, <3>1
  <2>4. CASE k > i + 1
    <3>1. k - 1 \in 1 .. Len(c) /\ t[k] = c[k - 1] /\ c[k - 1] \in Range(c)
      BY <1>2, <1>3, <2>1, <2>4
    <3>2. nd[c[k - 1]].next = At(c, k) /\ nd[c[k - 1]].prev = At(c, k - 2)
      <4>1. (k - 1) + 1 = k /\ (k - 1) - 1 = k - 2
        BY <2>1
      <4>2. nd[c[k - 1]].next = At(c, (k - 1) + 1) /\ nd[c[k - 1]].prev = At(c, (k - 1) - 1)
        BY <3>1 DEF Linked
      <4>. QED  BY <4>1, <4>2
    <3>3. c[k - 1] # At(c, i) /\ (c[k - 1] = At(c, i + 1) <=> k - 1 = i + 1)
      BY <1>2, <2>1, <2>4, <3>1, AtSame
    <3>4. /\ md[c[k - 1]].next = At(c, k)
          /\ md[c[k - 1]].prev = IF k - 1 = i + 1 THEN n ELSE At(c, k - 2)
      BY <3>1, <3>2, <3>3
    <3>. QED  BY <1>2, <2>1, <2>4, <3>1, <3>4
  <2>. QED  BY <1>2, <2>1, <2>2, <2>3, <2>4
<1>. QED  BY <1>1, <1>3, <1>4, <1>5 DEF Linked

\* The k-th node goes.
LEMMA RemoveLinks ==
    ASSUME NEW nd, NEW md, NEW h, NEW g, NEW c, Linked(nd, h, c), NEW k \in 1 .. Len(c),
           \A m \in Range(c) \ {c[k]} :
              /\ md[m].next = IF m = At(c, k - 1) THEN At(c, k + 1) ELSE nd[m].next
              /\ md[m].prev = IF m = At(c, k + 1) THEN At(c, k - 1) ELSE nd[m].prev,
           g.len = h.len - 1,
           g.head = IF k = 1 THEN At(c, 2) ELSE h.head,
           g.tail = IF k = Len(c) THEN At(c, Len(c) - 1) ELSE h.tail
    PROVE  Linked(md, g, RemoveAt(c, k))
<1>1. PICK t : t = RemoveAt(c, k)
  OBVIOUS
<1>2. /\ c \in Seq(Nodes) /\ Distinct(c) /\ Len(c) \in Nat /\ k \in Nat /\ k >= 1 /\ k <= Len(c)
      /\ \A j \in 1 .. Len(c) : c[j] \in Range(c)
  <2>1. c \in Seq(Nodes) /\ Distinct(c)
    BY DEF Linked
  <2>. QED  BY <2>1, RangeIs
<1>3. /\ t \in Seq(Nodes) /\ Distinct(t) /\ Len(t) = Len(c) - 1
      /\ \A j \in 0 .. Len(c) : At(t, j) = IF j < k THEN At(c, j) ELSE At(c, j + 1)
      /\ \A j \in 1 .. Len(t) : t[j] = IF j < k THEN c[j] ELSE c[j + 1]
  BY <1>1, <1>2, SeqLoses
<1>4. g.len = Len(t) /\ g.head = At(t, 1) /\ g.tail = At(t, Len(t))
  <2>1. h.len = Len(c) /\ h.head = At(c, 1) /\ h.tail = At(c, Len(c))
    BY DEF Linked
  <2>2. At(t, 1) = IF k = 1 THEN At(c, 2) ELSE At(c, 1)
    <3>1. At(t, 1) = IF 1 < k THEN At(c, 1) ELSE At(c, 1 + 1)
      BY <1>2, <1>3
    <3>. QED  BY <1>2, <3>1
  <2>3. At(t, Len(t)) = IF k = Len(c) THEN At(c, Len(c) - 1) ELSE At(c, Len(c))
    <3>1. Len(t) \in 0 .. Len(c) /\ Len(t) + 1 = Len(c) /\ (Len(t) < k <=> k = Len(c)) /\ Len(t) = Len(c) - 1
      BY <1>2, <1>3
    <3>2. At(t, Len(t)) = IF Len(t) < k THEN At(c, Len(t)) ELSE At(c, Len(t) + 1)
      BY <1>3, <3>1
    <3>. QED  BY <3>1, <3>2
  <2>. QED  BY <1>3, <2>1, <2>2, <2>3
<1>5. ASSUME NEW j \in 1 .. Len(t)
      PROVE  md[t[j]].next = At(t, j + 1) /\ md[t[j]].prev = At(t, j - 1)
  <2>1. /\ j \in Int /\ j >= 1 /\ j < Len(c)
        /\ At(t, j + 1) = IF j + 1 < k THEN At(c, j + 1) ELSE At(c, j + 2)
        /\ At(t, j - 1) = IF j - 1 < k THEN At(c, j - 1) ELSE At(c, j)
    <3>1. /\ j \in Int /\ j >= 1 /\ j < Len(c) /\ j + 1 \in 0 .. Len(c) /\ j - 1 \in 0 .. Len(c)
          /\ (j + 1) + 1 = j + 2 /\ (j - 1) + 1 = j
      BY <1>2, <1>3
    <3>2. /\ At(t, j + 1) = IF j + 1 < k THEN At(c, j + 1) ELSE At(c, (j + 1) + 1)
          /\ At(t, j - 1) = IF j - 1 < k THEN At(c, j - 1) ELSE At(c, (j - 1) + 1)
      BY <1>3, <3>1
    <3>. QED  BY <3>1, <3>2
  <2>2. CASE j < k
    <3>1. j \in 1 .. Len(c) /\ t[j] = c[j] /\ c[j] \in Range(c) /\ c[j] # c[k]
      BY <1>2, <1>3, <2>1, <2>2 DEF Distinct
    <3>2. nd[c[j]].next = At(c, j + 1) /\ nd[c[j]].prev = At(c, j - 1)
      BY <3>1 DEF Linked
    <3>3. (c[j] = At(c, k - 1) <=> j = k - 1) /\ c[j] # At(c, k + 1)
      BY <1>2, <2>1, <2>2, <3>1, AtSame
    <3>4. md[c[j]].next = (IF j = k - 1 THEN At(c, k + 1) ELSE At(c, j + 1)) /\ md[c[j]].prev = At(c, j - 1)
      BY <3>1, <3>2, <3>3
    <3>5. (j = k - 1 => k + 1 = j + 2) /\ (j + 1 < k <=> j # k - 1) /\ j - 1 < k
      BY <1>2, <2>1, <2>2
    <3>. QED  BY <2>1, <3>1, <3>4, <3>5
  <2>3. CASE j >= k
    <3>1. j + 1 \in 1 .. Len(c) /\ t[j] = c[j + 1] /\ c[j + 1] \in Range(c) /\ c[j + 1] # c[k]
      BY <1>2, <1>3, <2>1, <2>3 DEF Distinct
    <3>2. nd[c[j + 1]].next = At(c, j + 2) /\ nd[c[j + 1]].prev = At(c, j)
      <4>1. (j + 1) + 1 = j + 2 /\ (j + 1) - 1 = j
        BY <2>1
      <4>2. nd[c[j + 1]].next = At(c, (j + 1) + 1) /\ nd[c[j + 1]].prev = At(c, (j + 1) - 1)
        BY <3>1 DEF Linked
      <4>. QED  BY <4>1, <4>2
    <3>3. c[j + 1] # At(c, k - 1) /\ (c[j + 1] = At(c, k + 1) <=> j + 1 = k + 1)
      BY <1>2, <2>1, <2>3, <3>1, AtSame
    <3>4. /\ md[c[j + 1]].next = At(c, j + 2)
          /\ md[c[j + 1]].prev = IF j + 1 = k + 1 THEN At(c, k - 1) ELSE At(c, j)
      BY <3>1, <3>2, <3>3
    <3>5. (j + 1 = k + 1 <=> j = k) /\ (j - 1 < k <=> j = k) /\ ~(j + 1 < k)
      BY <1>2, <2>1, <2>3
    <3>. QED  BY <2>1, <3>1, <3>4, <3>5
  <2>. QED  BY <1>2, <2>1, <2>2, <2>3
<1>. QED  BY <1>1, <1>3, <1>4, <1>5 DEF Linked

-----------------------------------------------------------------------------
(* The heap.  Every list has its nodes, no two lists share one, and what is *)
(* in no list is free and blank.                                            *)

HeapNodes   == [Nodes -> [prev : Nodes \cup {Nil}, next : Nodes \cup {Nil}, value : Values \cup {Nil}]]
HeapHeaders == [Lists -> [head : Nodes \cup {Nil}, tail : Nodes \cup {Nil}, len : Nat]]

Shape(nd, ls, us, s) ==
    /\ nd \in HeapNodes /\ ls \in HeapHeaders /\ s \in [Lists -> Seq(Nodes)] /\ us \subseteq Nodes
    /\ \A l \in Lists : Linked(nd, ls[l], s[l])
    /\ \A l, m \in Lists : l # m => Range(s[l]) \cap Range(s[m]) = {}
    /\ \A x : x \in us <=> \E l \in Lists : x \in Range(s[l])
    /\ \A n \in Nodes \ us : nd[n] = BlankNode

\* The sequences of all lists, with c for that of l.
With(s, l, c) == [m \in Lists |-> IF m = l THEN c ELSE s[m]]

\* Nodes nd after n joined c behind its i-th node, or c lost its k-th.
Joined(nd, c, i, n, v) ==
    [m \in Nodes |->
       IF m = n THEN [prev |-> At(c, i), next |-> At(c, i + 1), value |-> v]
       ELSE [prev  |-> IF m = At(c, i + 1) THEN n ELSE nd[m].prev,
             next  |-> IF m = At(c, i) THEN n ELSE nd[m].next,
             value |-> nd[m].value]]
JoinedHeader(h, c, i, n) ==
    [head |-> IF i = 0 THEN n ELSE h.head,
     tail |-> IF i = Len(c) THEN n ELSE h.tail,
     len  |-> h.len + 1]

Parted(nd, c, k) ==
    [m \in Nodes |->
       IF m = c[k] THEN BlankNode
       ELSE [prev  |-> IF m = At(c, k + 1) THEN At(c, k - 1) ELSE nd[m].prev,
             next  |-> IF m = At(c, k - 1) THEN At(c, k + 1) ELSE nd[m].next,
             value |-> nd[m].value]]
PartedHeader(h, c, k) ==
    [head |-> IF k = 1 THEN At(c, 2) ELSE h.head,
     tail |-> IF k = Len(c) THEN At(c, Len(c) - 1) ELSE h.tail,
     len  |-> h.len - 1]

LEMMA ShapeFacts ==
    ASSUME NEW nd, NEW ls, NEW us, NEW s, Shape(nd, ls, us, s), NEW l \in Lists
    PROVE  /\ s[l] \in Seq(Nodes) /\ Distinct(s[l]) /\ Len(s[l]) \in Nat
           /\ Linked(nd, ls[l], s[l])
           /\ ls[l].len = Len(s[l]) /\ ls[l].head = At(s[l], 1) /\ ls[l].tail = At(s[l], Len(s[l]))
           /\ Range(s[l]) \subseteq us /\ Range(s[l]) \subseteq Nodes
           /\ \A k \in 1 .. Len(s[l]) : /\ s[l][k] \in us /\ s[l][k] \in Nodes /\ s[l][k] # Nil
                                        /\ s[l][k] \in Range(s[l])
<1>1. s[l] \in Seq(Nodes) /\ Linked(nd, ls[l], s[l]) /\ Range(s[l]) \subseteq us /\ us \subseteq Nodes
  BY DEF Shape
<1>2. Distinct(s[l]) /\ ls[l].len = Len(s[l]) /\ ls[l].head = At(s[l], 1) /\ ls[l].tail = At(s[l], Len(s[l]))
  BY <1>1 DEF Linked
<1>. QED  BY <1>1, <1>2, RangeIs, NilNoNode

LEMMA ShapeInsert ==
    ASSUME NEW nd, NEW ls, NEW us, NEW s, Shape(nd, ls, us, s), NEW l \in Lists,
           NEW i \in 0 .. Len(s[l]), NEW n \in Nodes \ us, NEW v \in Values \cup {Nil},
           NEW md, md = Joined(nd, s[l], i, n, v),
           NEW ks, ks = [ls EXCEPT ![l] = JoinedHeader(ls[l], s[l], i, n)],
           NEW t, t = With(s, l, InsertAt(s[l], i + 1, n))
    PROVE  Shape(md, ks, us \cup {n}, t)
<1>1. PICK c \in Seq(Nodes) : c = s[l]
  BY ShapeFacts
<1>2. /\ Distinct(c) /\ Len(c) \in Nat /\ Linked(nd, ls[l], c) /\ Range(c) \subseteq us
      /\ i \in 0 .. Len(c) /\ i \in Int
  BY <1>1, ShapeFacts
<1>3. n \in Nodes /\ n \notin us /\ n \notin Range(c)
  BY <1>2
<1>4. /\ InsertAt(c, i + 1, n) \in Seq(Nodes) /\ Range(InsertAt(c, i + 1, n)) = Range(c) \cup {n}
  BY <1>2, <1>3, SeqGains
<1>5. At(c, i) \in Range(c) \cup {Nil} /\ At(c, i + 1) \in Range(c) \cup {Nil}
  BY <1>2, AtType
<1>6. /\ nd \in HeapNodes /\ ls \in HeapHeaders /\ us \subseteq Nodes
      /\ s \in [Lists -> Seq(Nodes)]
      /\ \A m \in Nodes \ us : nd[m] = BlankNode
      /\ \A x : x \in us <=> \E m \in Lists : x \in Range(s[m])
      /\ \A j, m \in Lists : j # m => Range(s[j]) \cap Range(s[m]) = {}
  BY DEF Shape
<1>7. md \in HeapNodes
  BY <1>1, <1>2, <1>3, <1>5, <1>6 DEF Joined, HeapNodes
<1>8. ks \in HeapHeaders /\ ks[l] = JoinedHeader(ls[l], c, i, n) /\ \A m \in Lists : m # l => ks[m] = ls[m]
  BY <1>1, <1>3, <1>6 DEF JoinedHeader, HeapHeaders
<1>9. t \in [Lists -> Seq(Nodes)] /\ t[l] = InsertAt(c, i + 1, n) /\ \A m \in Lists : m # l => t[m] = s[m]
  BY <1>1, <1>4, <1>6, Zenon DEF With
<1>10. /\ md[n] = [prev |-> At(c, i), next |-> At(c, i + 1), value |-> v]
       /\ \A m \in Nodes : m # n =>
            md[m] = [prev  |-> IF m = At(c, i + 1) THEN n ELSE nd[m].prev,
                     next  |-> IF m = At(c, i) THEN n ELSE nd[m].next,
                     value |-> nd[m].value]
  BY <1>1, <1>3 DEF Joined
<1>10a. ASSUME NEW m \in Nodes, m # n
        PROVE  /\ md[m].next = IF m = At(c, i) THEN n ELSE nd[m].next
               /\ md[m].prev = IF m = At(c, i + 1) THEN n ELSE nd[m].prev
  <2>1. PICK p : p = IF m = At(c, i + 1) THEN n ELSE nd[m].prev
    OBVIOUS
  <2>2. PICK q : q = IF m = At(c, i) THEN n ELSE nd[m].next
    OBVIOUS
  <2>3. md[m] = [prev |-> p, next |-> q, value |-> nd[m].value]
    BY <1>10, <1>10a, <2>1, <2>2
  <2>. QED  BY <2>1, <2>2, <2>3
<1>11. Linked(md, ks[l], t[l])
  <2>1. md[n].next = At(c, i + 1) /\ md[n].prev = At(c, i)
    BY <1>10
  <2>2. \A m \in Range(c) : /\ md[m].next = IF m = At(c, i) THEN n ELSE nd[m].next
                            /\ md[m].prev = IF m = At(c, i + 1) THEN n ELSE nd[m].prev
    <3>1. \A m \in Range(c) : m \in Nodes /\ m # n
      BY <1>2, <1>3, <1>6
    <3>. QED  BY <1>10a, <3>1
  <2>3. ks[l].len = ls[l].len + 1 /\ ks[l].head = (IF i = 0 THEN n ELSE ls[l].head)
        /\ ks[l].tail = IF i = Len(c) THEN n ELSE ls[l].tail
    BY <1>8 DEF JoinedHeader
  <2>4. Linked(md, ks[l], InsertAt(c, i + 1, n))
    <3>1. n \in Nodes \ Range(c)
      BY <1>3
    <3>. QED  BY ONLY <1>2, <2>1, <2>2, <2>3, <3>1, InsertLinks, SMTT(30)
  <2>. QED  BY <1>9, <2>4
<1>12. ASSUME NEW m \in Lists, m # l  PROVE Linked(md, ks[m], t[m])
  <2>1. Linked(nd, ls[m], s[m]) /\ Range(s[m]) \subseteq us /\ Range(s[m]) \cap Range(c) = {}
        /\ Range(s[m]) \subseteq Nodes /\ Nil \notin Nodes
    BY <1>1, <1>6, <1>12, ShapeFacts, NilNoNode
  <2>2. \A x \in Range(s[m]) : md[x].next = nd[x].next /\ md[x].prev = nd[x].prev
    <3>1. SUFFICES ASSUME NEW x \in Range(s[m])
                   PROVE  md[x].next = nd[x].next /\ md[x].prev = nd[x].prev
      OBVIOUS
    <3>2. x \in Nodes /\ x # n /\ x # At(c, i) /\ x # At(c, i + 1)
      BY <1>3, <1>5, <2>1
    <3>. QED  BY <1>10a, <3>2
  <2>3. Linked(md, ls[m], s[m])
    BY <2>1, <2>2, LinksStay
  <2>. QED  BY <1>8, <1>9, <1>12, <2>3
<1>13. \A j, m \in Lists : j # m => Range(t[j]) \cap Range(t[m]) = {}
  <2>1. \A m \in Lists : m # l => Range(s[m]) \subseteq us /\ Range(s[m]) \cap Range(c) = {}
    BY <1>1, <1>6
  <2>2. Range(t[l]) = Range(c) \cup {n} /\ \A m \in Lists : m # l => Range(t[m]) = Range(s[m])
    BY <1>4, <1>9
  <2>3. \A m \in Lists : m # l => Range(t[l]) \cap Range(t[m]) = {} /\ Range(t[m]) \cap Range(t[l]) = {}
    BY <1>3, <2>1, <2>2
  <2>4. \A j, m \in Lists : j # l /\ m # l /\ j # m => Range(t[j]) \cap Range(t[m]) = {}
    BY <1>6, <2>2
  <2>. QED  BY <2>3, <2>4
<1>14. \A x : x \in us \cup {n} <=> \E m \in Lists : x \in Range(t[m])
  <2>1. Range(t[l]) = Range(s[l]) \cup {n} /\ \A m \in Lists : m # l => Range(t[m]) = Range(s[m])
    BY <1>1, <1>4, <1>9
  <2>. QED  BY <1>6, <2>1
<1>15. \A m \in Nodes \ (us \cup {n}) : md[m] = BlankNode
  <2>1. SUFFICES ASSUME NEW m \in Nodes, m \notin us, m # n  PROVE md[m] = BlankNode
    OBVIOUS
  <2>2. nd[m] = BlankNode /\ m # At(c, i) /\ m # At(c, i + 1)
    BY <1>2, <1>5, <1>6, <2>1, NilNoNode
  <2>. QED  BY <1>10, <2>1, <2>2 DEF BlankNode
<1>16. \A m \in Lists : Linked(md, ks[m], t[m])
  BY <1>11, <1>12
<1>17. us \cup {n} \subseteq Nodes
  BY <1>3, <1>6
<1>. QED  BY <1>7, <1>8, <1>9, <1>13, <1>14, <1>15, <1>16, <1>17 DEF Shape

LEMMA ShapeRemove ==
    ASSUME NEW nd, NEW ls, NEW us, NEW s, Shape(nd, ls, us, s), NEW l \in Lists,
           NEW k \in 1 .. Len(s[l]),
           NEW md, md = Parted(nd, s[l], k),
           NEW ks, ks = [ls EXCEPT ![l] = PartedHeader(ls[l], s[l], k)],
           NEW t, t = With(s, l, RemoveAt(s[l], k))
    PROVE  Shape(md, ks, us \ {s[l][k]}, t)
<1>1. PICK c \in Seq(Nodes) : c = s[l]
  BY ShapeFacts
<1>2. /\ Distinct(c) /\ Len(c) \in Nat /\ Linked(nd, ls[l], c) /\ Range(c) \subseteq us
      /\ k \in 1 .. Len(c) /\ k \in Int /\ c[k] \in Nodes /\ c[k] \in Range(c) /\ ls[l].len = Len(c)
  BY <1>1, ShapeFacts
<1>4. RemoveAt(c, k) \in Seq(Nodes) /\ Range(RemoveAt(c, k)) = Range(c) \ {c[k]}
  BY <1>2, SeqLoses
<1>5. /\ At(c, k - 1) \in Range(c) \cup {Nil} /\ At(c, k + 1) \in Range(c) \cup {Nil}
      /\ At(c, 2) \in Nodes \cup {Nil} /\ At(c, Len(c) - 1) \in Nodes \cup {Nil}
  BY <1>2, AtType
<1>6. /\ nd \in HeapNodes /\ ls \in HeapHeaders /\ us \subseteq Nodes
      /\ s \in [Lists -> Seq(Nodes)]
      /\ \A m \in Nodes \ us : nd[m] = BlankNode
      /\ \A x : x \in us <=> \E m \in Lists : x \in Range(s[m])
      /\ \A j, m \in Lists : j # m => Range(s[j]) \cap Range(s[m]) = {}
  BY DEF Shape
<1>7. md \in HeapNodes
  BY <1>1, <1>2, <1>5, <1>6 DEF Parted, HeapNodes, BlankNode
<1>8. ks \in HeapHeaders /\ ks[l] = PartedHeader(ls[l], c, k) /\ \A m \in Lists : m # l => ks[m] = ls[m]
  BY <1>1, <1>2, <1>5, <1>6 DEF PartedHeader, HeapHeaders
<1>9. t \in [Lists -> Seq(Nodes)] /\ t[l] = RemoveAt(c, k) /\ \A m \in Lists : m # l => t[m] = s[m]
  BY <1>1, <1>4, <1>6, Zenon DEF With
<1>10. /\ md[c[k]] = BlankNode
       /\ \A m \in Nodes : m # c[k] =>
            md[m] = [prev  |-> IF m = At(c, k + 1) THEN At(c, k - 1) ELSE nd[m].prev,
                     next  |-> IF m = At(c, k - 1) THEN At(c, k + 1) ELSE nd[m].next,
                     value |-> nd[m].value]
  BY <1>1, <1>2 DEF Parted
<1>10a. ASSUME NEW m \in Nodes, m # c[k]
        PROVE  /\ md[m].next = IF m = At(c, k - 1) THEN At(c, k + 1) ELSE nd[m].next
               /\ md[m].prev = IF m = At(c, k + 1) THEN At(c, k - 1) ELSE nd[m].prev
  <2>1. PICK p : p = IF m = At(c, k + 1) THEN At(c, k - 1) ELSE nd[m].prev
    OBVIOUS
  <2>2. PICK q : q = IF m = At(c, k - 1) THEN At(c, k + 1) ELSE nd[m].next
    OBVIOUS
  <2>3. md[m] = [prev |-> p, next |-> q, value |-> nd[m].value]
    BY <1>10, <1>10a, <2>1, <2>2
  <2>. QED  BY <2>1, <2>2, <2>3
<1>11. Linked(md, ks[l], t[l])
  <2>2. \A m \in Range(c) \ {c[k]} :
           /\ md[m].next = IF m = At(c, k - 1) THEN At(c, k + 1) ELSE nd[m].next
           /\ md[m].prev = IF m = At(c, k + 1) THEN At(c, k - 1) ELSE nd[m].prev
    <3>1. \A m \in Range(c) \ {c[k]} : m \in Nodes /\ m # c[k]
      BY <1>2, <1>6
    <3>. QED  BY <1>10a, <3>1
  <2>3. ks[l].len = ls[l].len - 1 /\ ks[l].head = (IF k = 1 THEN At(c, 2) ELSE ls[l].head)
        /\ ks[l].tail = IF k = Len(c) THEN At(c, Len(c) - 1) ELSE ls[l].tail
    BY <1>8 DEF PartedHeader
  <2>4. Linked(md, ks[l], RemoveAt(c, k))
    BY <1>2, <2>2, <2>3, RemoveLinks, ZenonT(40)
  <2>. QED  BY <1>9, <2>4
<1>12. ASSUME NEW m \in Lists, m # l  PROVE Linked(md, ks[m], t[m])
  <2>1. Linked(nd, ls[m], s[m]) /\ Range(s[m]) \cap Range(c) = {}
        /\ Range(s[m]) \subseteq Nodes /\ Nil \notin Nodes
    BY <1>1, <1>6, <1>12, ShapeFacts, NilNoNode
  <2>2. \A x \in Range(s[m]) : md[x].next = nd[x].next /\ md[x].prev = nd[x].prev
    <3>1. SUFFICES ASSUME NEW x \in Range(s[m])
                   PROVE  md[x].next = nd[x].next /\ md[x].prev = nd[x].prev
      OBVIOUS
    <3>2. x \in Nodes /\ x # c[k] /\ x # At(c, k - 1) /\ x # At(c, k + 1)
      BY <1>2, <1>5, <2>1
    <3>. QED  BY <1>10a, <3>2
  <2>3. Linked(md, ls[m], s[m])
    BY <2>1, <2>2, LinksStay
  <2>. QED  BY <1>8, <1>9, <1>12, <2>3
<1>13. \A j, m \in Lists : j # m => Range(t[j]) \cap Range(t[m]) = {}
  <2>1. \A m \in Lists : m # l => Range(s[m]) \cap Range(c) = {}
    BY <1>1, <1>6
  <2>2. Range(t[l]) \subseteq Range(c) /\ \A m \in Lists : m # l => Range(t[m]) = Range(s[m])
    BY <1>4, <1>9
  <2>. QED  BY <1>6, <2>1, <2>2, ZenonT(40)
<1>14. \A x : x \in us \ {s[l][k]} <=> \E m \in Lists : x \in Range(t[m])
  <2>1. /\ Range(t[l]) = Range(s[l]) \ {s[l][k]} /\ \A m \in Lists : m # l => Range(t[m]) = Range(s[m])
        /\ \A m \in Lists : m # l => s[l][k] \notin Range(s[m])
    BY <1>1, <1>2, <1>4, <1>6, <1>9
  <2>. QED  BY <1>6, <2>1
<1>15. \A m \in Nodes \ (us \ {s[l][k]}) : md[m] = BlankNode
  <2>1. SUFFICES ASSUME NEW m \in Nodes, m \notin us, m # c[k]  PROVE md[m] = BlankNode
    BY <1>1, <1>10
  <2>2. nd[m] = BlankNode /\ m # At(c, k - 1) /\ m # At(c, k + 1)
    BY <1>2, <1>5, <1>6, <2>1, NilNoNode
  <2>. QED  BY <1>10, <2>1, <2>2 DEF BlankNode
<1>16. \A m \in Lists : Linked(md, ks[m], t[m])
  BY <1>11, <1>12
<1>17. us \ {s[l][k]} \subseteq Nodes
  BY <1>6
<1>. QED  BY <1>7, <1>8, <1>9, <1>13, <1>14, <1>15, <1>16, <1>17 DEF Shape

\* All nodes of a list go.
LEMMA ShapeDiscard ==
    ASSUME NEW nd, NEW ls, NEW us, NEW s, Shape(nd, ls, us, s), NEW l \in Lists,
           NEW md, md = [n \in Nodes |-> IF n \in Range(s[l]) THEN BlankNode ELSE nd[n]],
           NEW ks, ks = [ls EXCEPT ![l] = EmptyList],
           NEW t, t = With(s, l, <<>>)
    PROVE  Shape(md, ks, us \ Range(s[l]), t)
<1>1. /\ nd \in HeapNodes /\ ls \in HeapHeaders /\ us \subseteq Nodes
      /\ s \in [Lists -> Seq(Nodes)]
      /\ \A m \in Nodes \ us : nd[m] = BlankNode
      /\ \A x : x \in us <=> \E m \in Lists : x \in Range(s[m])
      /\ \A j, m \in Lists : j # m => Range(s[j]) \cap Range(s[m]) = {}
  BY DEF Shape
<1>2. md \in HeapNodes /\ \A m \in Nodes : m \notin Range(s[l]) => md[m] = nd[m]
  BY <1>1 DEF HeapNodes, BlankNode
<1>3. ks \in HeapHeaders /\ ks[l] = EmptyList /\ \A m \in Lists : m # l => ks[m] = ls[m]
  BY <1>1 DEF EmptyList, HeapHeaders
<1>4. t \in [Lists -> Seq(Nodes)] /\ t[l] = <<>> /\ \A m \in Lists : m # l => t[m] = s[m]
  BY <1>1 DEF With
<1>5. Linked(md, EmptyList, <<>>)
  BY DEF Linked, EmptyList, At, Distinct
<1>6. ASSUME NEW m \in Lists, m # l  PROVE Linked(md, ks[m], t[m])
  <2>1. Linked(nd, ls[m], s[m]) /\ Range(s[m]) \cap Range(s[l]) = {} /\ Range(s[m]) \subseteq Nodes
    BY <1>1, <1>6, ShapeFacts
  <2>2. \A x \in Range(s[m]) : md[x].next = nd[x].next /\ md[x].prev = nd[x].prev
    BY <1>2, <2>1
  <2>3. Linked(md, ls[m], s[m])
    BY <2>1, <2>2, LinksStay
  <2>. QED  BY <1>3, <1>4, <1>6, <2>3
<1>7. /\ Range(t[l]) = {}
      /\ \A m \in Lists : m # l => Range(t[m]) = Range(s[m]) /\ Range(s[m]) \cap Range(s[l]) = {}
  BY <1>1, <1>4, RangeEmpty
<1>8. \A j, m \in Lists : j # m => Range(t[j]) \cap Range(t[m]) = {}
  BY <1>1, <1>7
<1>9. \A x : x \in us \ Range(s[l]) <=> \E m \in Lists : x \in Range(t[m])
  BY <1>1, <1>7
<1>10. \A m \in Nodes \ (us \ Range(s[l])) : md[m] = BlankNode
  BY <1>1
<1>11. \A m \in Lists : Linked(md, ks[m], t[m])
  BY <1>3, <1>4, <1>5, <1>6
<1>. QED  BY <1>1, <1>2, <1>3, <1>4, <1>8, <1>9, <1>10, <1>11 DEF Shape

-----------------------------------------------------------------------------
(* What the functions do to the nodes, in these terms.                      *)

LEMMA NodeIs ==
    ASSUME NEW nd \in HeapNodes, NEW m \in Nodes
    PROVE  nd[m] = [prev |-> nd[m].prev, next |-> nd[m].next, value |-> nd[m].value]
BY DEF HeapNodes

LEMMA PushHeadJoins ==
    ASSUME NEW s, Shape(node, list, used, s), NEW l \in Lists, NEW n \in Nodes \ used, NEW v,
           PushHead(l, n, v)
    PROVE  /\ node' = Joined(node, s[l], 0, n, v)
           /\ list' = [list EXCEPT ![l] = JoinedHeader(list[l], s[l], 0, n)]
<1>1. PICK c \in Seq(Nodes) : c = s[l]
  BY ShapeFacts
<1>2. /\ Len(c) \in Nat /\ list[l].len = Len(c) /\ list[l].head = At(c, 1) /\ list[l].tail = At(c, Len(c))
      /\ \A k \in 1 .. Len(c) : c[k] \in used /\ c[k] \in Nodes
  BY <1>1, ShapeFacts
<1>3. /\ node \in HeapNodes /\ list \in HeapHeaders /\ n \in Nodes /\ n \notin used /\ Nil \notin Nodes
      /\ DOMAIN node = Nodes
      /\ list[l] = [head |-> list[l].head, tail |-> list[l].tail, len |-> list[l].len]
  BY NilNoNode DEF Shape, HeapNodes, HeapHeaders
<1>4. At(c, 0) = Nil /\ At(c, 0 + 1) = At(c, 1) /\ (Len(c) # 0 => At(c, 1) = c[1])
      /\ (Len(c) = 0 => At(c, 1) = Nil /\ At(c, Len(c)) = Nil)
  BY <1>2 DEF At
<1>5. CASE Len(c) = 0
  <2>1. /\ node' = [node EXCEPT ![n] = [prev |-> Nil, next |-> Nil, value |-> v]]
        /\ list' = [list EXCEPT ![l] = [head |-> n, tail |-> n, len |-> 1]]
    BY <1>2, <1>5 DEF PushHead
  <2>2. ASSUME NEW m \in Nodes  PROVE node'[m] = Joined(node, c, 0, n, v)[m]
    <3>1. CASE m = n
      BY <1>3, <1>4, <1>5, <2>1, <3>1 DEF Joined
    <3>2. CASE m # n
      <4>1. node'[m] = node[m] /\ m # Nil
        BY <1>3, <2>1, <3>2
      <4>2. Joined(node, c, 0, n, v)[m] = [prev |-> node[m].prev, next |-> node[m].next, value |-> node[m].value]
        BY <1>4, <1>5, <3>2, <4>1 DEF Joined
      <4>. QED  BY <1>3, <4>1, <4>2, NodeIs
    <3>. QED  BY <3>1, <3>2
  <2>3. node' = Joined(node, c, 0, n, v)
    BY <1>3, <2>1, <2>2 DEF Joined
  <2>4. JoinedHeader(list[l], c, 0, n) = [head |-> n, tail |-> n, len |-> 1]
    BY <1>2, <1>5 DEF JoinedHeader
  <2>. QED  BY <1>1, <2>1, <2>3, <2>4
<1>6. CASE Len(c) # 0
  <2>0. PICK h \in Nodes : h = c[1]
    BY <1>2, <1>6
  <2>1. /\ node' = [node EXCEPT ![n] = [prev |-> Nil, next |-> h, value |-> v], ![h].prev = n]
        /\ list' = [list EXCEPT ![l].head = n, ![l].len = @ + 1]
        /\ h # n /\ h = list[l].head
    BY <1>2, <1>3, <1>4, <1>6, <2>0 DEF PushHead
  <2>2. ASSUME NEW m \in Nodes  PROVE node'[m] = Joined(node, c, 0, n, v)[m]
    <3>1. CASE m = n
      <4>1. node'[m] = [prev |-> Nil, next |-> h, value |-> v]
        BY <1>3, <2>1, <3>1
      <4>2. Joined(node, c, 0, n, v)[m] = [prev |-> Nil, next |-> h, value |-> v]
        BY <1>4, <1>6, <2>0, <3>1 DEF Joined
      <4>. QED  BY <4>1, <4>2
    <3>2. CASE m = h
      <4>1. node'[m] = [node[m] EXCEPT !.prev = n]
        BY <1>3, <2>1, <3>2
      <4>2. Joined(node, c, 0, n, v)[m] = [prev |-> n, next |-> node[m].next, value |-> node[m].value]
        BY <1>3, <1>4, <1>6, <2>0, <2>1, <3>2 DEF Joined
      <4>3. [node[m] EXCEPT !.prev = n] = [prev |-> n, next |-> node[m].next, value |-> node[m].value]
        BY <1>3 DEF HeapNodes
      <4>. QED  BY <4>1, <4>2, <4>3
    <3>3. CASE m # n /\ m # h
      <4>1. node'[m] = node[m] /\ m # Nil
        BY <1>3, <2>1, <3>3
      <4>2. Joined(node, c, 0, n, v)[m] = [prev |-> node[m].prev, next |-> node[m].next, value |-> node[m].value]
        BY <1>4, <1>6, <2>0, <3>3, <4>1 DEF Joined
      <4>. QED  BY <1>3, <4>1, <4>2, NodeIs
    <3>. QED  BY <3>1, <3>2, <3>3
  <2>3. node' = Joined(node, c, 0, n, v)
    BY <1>3, <2>1, <2>2 DEF Joined
  <2>4. JoinedHeader(list[l], c, 0, n) = [head |-> n, tail |-> list[l].tail, len |-> list[l].len + 1]
    BY <1>2, <1>6 DEF JoinedHeader
  <2>5. list' = [list EXCEPT ![l] = [head |-> n, tail |-> list[l].tail, len |-> list[l].len + 1]]
    BY <1>3, <2>1, SMTT(30) DEF HeapHeaders
  <2>. QED  BY <1>1, <2>3, <2>4, <2>5
<1>. QED  BY <1>5, <1>6

LEMMA PushTailJoins ==
    ASSUME NEW s, Shape(node, list, used, s), NEW l \in Lists, NEW n \in Nodes \ used, NEW v,
           PushTail(l, n, v)
    PROVE  /\ node' = Joined(node, s[l], Len(s[l]), n, v)
           /\ list' = [list EXCEPT ![l] = JoinedHeader(list[l], s[l], Len(s[l]), n)]
<1>1. PICK c \in Seq(Nodes) : c = s[l]
  BY ShapeFacts
<1>2. /\ Len(c) \in Nat /\ list[l].len = Len(c) /\ list[l].head = At(c, 1) /\ list[l].tail = At(c, Len(c))
      /\ \A k \in 1 .. Len(c) : c[k] \in used /\ c[k] \in Nodes
  BY <1>1, ShapeFacts
<1>3. /\ node \in HeapNodes /\ list \in HeapHeaders /\ n \in Nodes /\ n \notin used /\ Nil \notin Nodes
      /\ DOMAIN node = Nodes
      /\ list[l] = [head |-> list[l].head, tail |-> list[l].tail, len |-> list[l].len]
  BY NilNoNode DEF Shape, HeapNodes, HeapHeaders
<1>4. At(c, Len(c) + 1) = Nil /\ (Len(c) # 0 => At(c, Len(c)) = c[Len(c)])
      /\ (Len(c) = 0 => At(c, Len(c)) = Nil)
  BY <1>2 DEF At
<1>5. CASE Len(c) = 0
  <2>1. /\ node' = [node EXCEPT ![n] = [prev |-> Nil, next |-> Nil, value |-> v]]
        /\ list' = [list EXCEPT ![l] = [head |-> n, tail |-> n, len |-> 1]]
    BY <1>2, <1>5 DEF PushTail
  <2>2. ASSUME NEW m \in Nodes  PROVE node'[m] = Joined(node, c, Len(c), n, v)[m]
    <3>1. CASE m = n
      BY <1>3, <1>4, <1>5, <2>1, <3>1 DEF Joined
    <3>2. CASE m # n
      <4>1. node'[m] = node[m] /\ m # Nil
        BY <1>3, <2>1, <3>2
      <4>2. Joined(node, c, Len(c), n, v)[m] = [prev |-> node[m].prev, next |-> node[m].next, value |-> node[m].value]
        BY <1>4, <1>5, <3>2, <4>1 DEF Joined
      <4>. QED  BY <1>3, <4>1, <4>2, NodeIs
    <3>. QED  BY <3>1, <3>2
  <2>3. node' = Joined(node, c, Len(c), n, v)
    BY <1>3, <2>1, <2>2 DEF Joined
  <2>4. JoinedHeader(list[l], c, Len(c), n) = [head |-> n, tail |-> n, len |-> 1]
    BY <1>2, <1>5 DEF JoinedHeader
  <2>. QED  BY <1>1, <2>1, <2>3, <2>4
<1>6. CASE Len(c) # 0
  <2>0. PICK h \in Nodes : h = c[Len(c)] /\ h \in used
    BY <1>2, <1>6
  <2>1. /\ node' = [node EXCEPT ![n] = [prev |-> h, next |-> Nil, value |-> v], ![h].next = n]
        /\ list' = [list EXCEPT ![l].tail = n, ![l].len = @ + 1]
        /\ h # n /\ h = list[l].tail
    BY <1>2, <1>3, <1>4, <1>6, <2>0 DEF PushTail
  <2>2. ASSUME NEW m \in Nodes  PROVE node'[m] = Joined(node, c, Len(c), n, v)[m]
    <3>1. CASE m = n
      <4>1. node'[m] = [prev |-> h, next |-> Nil, value |-> v]
        BY <1>3, <2>1, <3>1
      <4>2. Joined(node, c, Len(c), n, v)[m] = [prev |-> h, next |-> Nil, value |-> v]
        BY <1>4, <1>6, <2>0, <3>1 DEF Joined
      <4>. QED  BY <4>1, <4>2
    <3>2. CASE m = h
      <4>1. node'[m] = [node[m] EXCEPT !.next = n]
        BY <1>3, <2>1, <3>2
      <4>2. Joined(node, c, Len(c), n, v)[m] = [prev |-> node[m].prev, next |-> n, value |-> node[m].value]
        BY <1>3, <1>4, <1>6, <2>0, <2>1, <3>2 DEF Joined
      <4>3. [node[m] EXCEPT !.next = n] = [prev |-> node[m].prev, next |-> n, value |-> node[m].value]
        BY <1>3 DEF HeapNodes
      <4>. QED  BY <4>1, <4>2, <4>3
    <3>3. CASE m # n /\ m # h
      <4>1. node'[m] = node[m] /\ m # Nil
        BY <1>3, <2>1, <3>3
      <4>2. Joined(node, c, Len(c), n, v)[m] = [prev |-> node[m].prev, next |-> node[m].next, value |-> node[m].value]
        BY <1>4, <1>6, <2>0, <3>3, <4>1 DEF Joined
      <4>. QED  BY <1>3, <4>1, <4>2, NodeIs
    <3>. QED  BY <3>1, <3>2, <3>3
  <2>3. node' = Joined(node, c, Len(c), n, v)
    BY <1>3, <2>1, <2>2 DEF Joined
  <2>4. JoinedHeader(list[l], c, Len(c), n) = [head |-> list[l].head, tail |-> n, len |-> list[l].len + 1]
    BY <1>2, <1>6 DEF JoinedHeader
  <2>5. list' = [list EXCEPT ![l] = [head |-> list[l].head, tail |-> n, len |-> list[l].len + 1]]
    BY <1>3, <2>1 DEF HeapHeaders
  <2>. QED  BY <1>1, <2>3, <2>4, <2>5
<1>. QED  BY <1>5, <1>6

-----------------------------------------------------------------------------
(* What the walks find.                                                     *)

LEMMA WalkIs ==
    ASSUME NEW f, NEW X, NEW e \in [Nat -> X], \A k \in Nat : e[k + 1] = Step(e[k], f)
    PROVE  \A k \in Nat : Walk(e[0], f, k) = e[k]
<1> DEFINE Eqn(g) == g = [j \in Nat |-> IF j = 0 THEN e[0] ELSE Step(g[j - 1], f)]
<1>1. Eqn(e)
  <2>1. ASSUME NEW j \in Nat  PROVE e[j] = IF j = 0 THEN e[0] ELSE Step(e[j - 1], f)
    <3>1. j # 0 => j - 1 \in Nat /\ (j - 1) + 1 = j
      OBVIOUS
    <3>. QED  BY <3>1
  <2>. QED  BY <2>1
<1> HIDE DEF Eqn
<1>2. PICK g : g = CHOOSE h : Eqn(h)
  OBVIOUS
<1>3. Eqn(g)
  BY <1>1, <1>2, Zenon
<1>4. g[0] = e[0] /\ \A j \in Nat : g[j + 1] = Step(g[j], f)
  <2>1. \A j \in Nat : g[j] = IF j = 0 THEN e[0] ELSE Step(g[j - 1], f)
    BY <1>3 DEF Eqn
  <2>2. \A j \in Nat : j + 1 \in Nat /\ j + 1 # 0 /\ (j + 1) - 1 = j
    OBVIOUS
  <2>. QED  BY <2>1, <2>2
<1>5. \A k \in Nat : g[k] = e[k]
  <2> DEFINE T == {k \in Nat : g[k] = e[k]}
  <2>1. 0 \in T
    BY <1>4
  <2>2. \A k \in Nat : k \in T => k + 1 \in T
    BY <1>4
  <2> HIDE DEF T
  <2>3. Nat \subseteq T
    BY <2>1, <2>2, SetInduction
  <2>. QED  BY <2>3 DEF T
<1>6. \A k \in Nat : Walk(e[0], f, k) = g[k]
  BY <1>2 DEF Walk, Eqn
<1>. QED  BY <1>5, <1>6

\* Forward from the head, and back from the tail.
LEMMA WalksAt ==
    ASSUME NEW h, NEW c, Linked(node, h, c), NEW k \in Nat
    PROVE  /\ Walk(h.head, "next", k) = At(c, k + 1)
           /\ Walk(h.tail, "prev", k) = At(c, Len(c) - k)
<1>1. /\ c \in Seq(Nodes) /\ Len(c) \in Nat /\ h.head = At(c, 1) /\ h.tail = At(c, Len(c))
      /\ \A j \in 1 .. Len(c) : node[c[j]].next = At(c, j + 1) /\ node[c[j]].prev = At(c, j - 1)
  BY DEF Linked
<1>2. \A j \in Int : At(c, j) \in Nodes \cup {Nil}
  BY <1>1, AtType
<1>3. ASSUME NEW j \in Int
      PROVE  /\ j >= 1 => Step(At(c, j), "next") = At(c, j + 1)
             /\ j <= Len(c) => Step(At(c, j), "prev") = At(c, j - 1)
  <2>1. CASE j \in 1 .. Len(c)
    <3>1. At(c, j) = c[j] /\ c[j] # Nil
      BY <1>1, <2>1, NilNoNode DEF At
    <3>. QED  BY <1>1, <2>1, <3>1 DEF Step
  <2>2. CASE j \notin 1 .. Len(c)
    <3>1. At(c, j) = Nil /\ (j >= 1 => At(c, j + 1) = Nil) /\ (j <= Len(c) => At(c, j - 1) = Nil)
      BY <1>1, <2>2 DEF At
    <3>. QED  BY <3>1 DEF Step
  <2>. QED  BY <2>1, <2>2
<1>4. Walk(h.head, "next", k) = At(c, k + 1)
  <2> DEFINE e == [j \in Nat |-> At(c, j + 1)]
  <2>1. e \in [Nat -> Nodes \cup {Nil}]
    BY <1>2
  <2>2. \A j \in Nat : e[j] = At(c, j + 1)
    OBVIOUS
  <2> HIDE DEF e
  <2>3. ASSUME NEW j \in Nat  PROVE e[j + 1] = Step(e[j], "next")
    <3>1. e[j + 1] = At(c, (j + 1) + 1) /\ e[j] = At(c, j + 1) /\ j + 1 \in Int /\ j + 1 >= 1
      BY <2>2
    <3>. QED  BY <1>3, <3>1
  <2>4. Walk(e[0], "next", k) = e[k]
    BY <2>1, <2>3, WalkIs
  <2>5. e[0] = h.head
    BY <1>1, <2>2
  <2>. QED  BY <2>2, <2>4, <2>5
<1>5. Walk(h.tail, "prev", k) = At(c, Len(c) - k)
  <2> DEFINE e == [j \in Nat |-> At(c, Len(c) - j)]
  <2>1. e \in [Nat -> Nodes \cup {Nil}]
    BY <1>1, <1>2
  <2>2. \A j \in Nat : e[j] = At(c, Len(c) - j)
    OBVIOUS
  <2> HIDE DEF e
  <2>3. ASSUME NEW j \in Nat  PROVE e[j + 1] = Step(e[j], "prev")
    <3>1. /\ e[j + 1] = At(c, Len(c) - (j + 1)) /\ e[j] = At(c, Len(c) - j)
          /\ Len(c) - j \in Int /\ Len(c) - j <= Len(c) /\ (Len(c) - j) - 1 = Len(c) - (j + 1)
      BY <1>1, <2>2
    <3>2. Step(At(c, Len(c) - j), "prev") = At(c, (Len(c) - j) - 1)
      BY <1>3, <3>1
    <3>. QED  BY <3>1, <3>2
  <2>4. Walk(e[0], "prev", k) = e[k]
    BY <2>1, <2>3, WalkIs
  <2>5. e[0] = h.tail
    BY <1>1, <2>2
  <2>. QED  BY <2>2, <2>4, <2>5
<1>. QED  BY <1>4, <1>5

\* The values of the nodes c.
Vals(nd, c) == [k \in 1 .. Len(c) |-> nd[c[k]].value]

LEMMA ChainIs ==
    ASSUME NEW s, Shape(node, list, used, s), NEW l \in Lists
    PROVE  Chain(l) = s[l] /\ Contents(l) = Vals(node, s[l])
<1>1. PICK c \in Seq(Nodes) : c = s[l]
  BY ShapeFacts
<1>2. Linked(node, list[l], c) /\ list[l].len = Len(c) /\ Len(c) \in Nat
  BY <1>1, ShapeFacts
<1>3. ASSUME NEW k \in 1 .. Len(c)  PROVE Walk(list[l].head, "next", k - 1) = c[k]
  <2>1. k - 1 \in Nat /\ (k - 1) + 1 = k
    BY <1>2
  <2>2. Walk(list[l].head, "next", k - 1) = At(c, (k - 1) + 1)
    BY <1>2, <2>1, WalksAt
  <2>. QED  BY <2>1, <2>2 DEF At
<1>4. Chain(l) = c
  BY <1>2, <1>3 DEF Chain
<1>5. Contents(l) = Vals(node, c)
  BY <1>2, <1>4, Zenon DEF Contents, Vals
<1>. QED  BY <1>1, <1>4, <1>5

\* A node with both links changed.
Relinked(r, p, q) ==
    /\ [r EXCEPT !.next = q, !.prev = p] = [prev |-> p, next |-> q, value |-> r.value]
    /\ [[r EXCEPT !.next = q] EXCEPT !.prev = p] = [prev |-> p, next |-> q, value |-> r.value]

LEMMA NodeUpdate ==
    ASSUME NEW nd \in HeapNodes, NEW m \in Nodes
    PROVE  \A p, q : Relinked(nd[m], p, q)
<1> SUFFICES ASSUME NEW p, NEW q  PROVE Relinked(nd[m], p, q)
  OBVIOUS
<1>1. PICK r : r = nd[m]
  OBVIOUS
<1>2. DOMAIN r = {"prev", "next", "value"}
  BY <1>1 DEF HeapNodes
<1>3. [r EXCEPT !.next = q, !.prev = p]
        = [f \in {"prev", "next", "value"} |-> IF f = "prev" THEN p ELSE IF f = "next" THEN q ELSE r[f]]
  BY <1>2
<1>4. [r EXCEPT !.next = q, !.prev = p] = [prev |-> p, next |-> q, value |-> r.value]
  BY <1>3
<1>5. [[r EXCEPT !.next = q] EXCEPT !.prev = p] = [r EXCEPT !.next = q, !.prev = p]
  BY <1>2
<1>. QED  BY <1>1, <1>4, <1>5 DEF Relinked

LEMMA MemberAt ==
    ASSUME NEW s, Shape(node, list, used, s), NEW l \in Lists, NEW x \in Range(Chain(l))
    PROVE  \E k \in 1 .. Len(s[l]) :
              /\ s[l][k] = x /\ x \in Nodes /\ x \in used
              /\ node[x].next = At(s[l], k + 1) /\ node[x].prev = At(s[l], k - 1)
<1>1. x \in Range(s[l]) /\ s[l] \in Seq(Nodes) /\ Linked(node, list[l], s[l])
  BY ChainIs, ShapeFacts
<1>2. PICK k \in 1 .. Len(s[l]) : s[l][k] = x
  BY <1>1, RangeIs
<1>3. x \in Nodes /\ x \in used
  BY <1>2, ShapeFacts
<1>4. node[s[l][k]].next = At(s[l], k + 1) /\ node[s[l][k]].prev = At(s[l], k - 1)
  BY <1>1 DEF Linked
<1>. QED  BY <1>2, <1>3, <1>4

\* The node that the allocator gives is none of those in use.
LEMMA FreshIs ==
    ASSUME use \in Uses, Room # {}
    PROVE  FreshNode \in Nodes \ used
<1>1. use.nodes \subseteq Nodes
  BY UsesAssumption
<1>2. Room \subseteq Nodes \ used /\ Room \subseteq Nat
  BY <1>1, NodesAssumption DEF Room
<1>3. \E n \in Room : \A m \in Room : n <= m
  BY <1>2, LeastNatural
<1>4. FreshNode \in Room
  BY <1>3, Zenon DEF FreshNode
<1>. QED  BY <1>2, <1>4

LEMMA InsertNodeJoins ==
    ASSUME NEW s, Shape(node, list, used, s), NEW l \in Lists, NEW old \in Nodes, NEW v,
           NEW after \in BOOLEAN, use \in Uses, listInsertNode(l, old, v, after)
    PROVE  \E i \in 0 .. Len(s[l]) :
              /\ node' = Joined(node, s[l], i, FreshNode, v)
              /\ list' = [list EXCEPT ![l] = JoinedHeader(list[l], s[l], i, FreshNode)]
<1>1. PICK c \in Seq(Nodes) : c = s[l]
  BY ShapeFacts
<1>2. /\ Len(c) \in Nat /\ list[l].len = Len(c) /\ list[l].head = At(c, 1) /\ list[l].tail = At(c, Len(c))
      /\ Distinct(c)
  BY <1>1, ShapeFacts
<1>3. PICK n \in Nodes \ used : n = FreshNode
  BY FreshIs DEF listInsertNode, Insertion
<1>4. old \in Range(Chain(l))
  BY DEF listInsertNode
<1>5. PICK k \in 1 .. Len(c) :
           /\ c[k] = old /\ node[old].next = At(c, k + 1) /\ node[old].prev = At(c, k - 1)
  BY <1>1, <1>4, MemberAt
<1>6. PICK i \in 0 .. Len(c) : i = IF after THEN k ELSE k - 1
  BY <1>2
<1>7. At(c, i) = (IF after THEN old ELSE node[old].prev) /\ At(c, i + 1) = (IF after THEN node[old].next ELSE old)
  <2>1. At(c, k) = old
    BY <1>5 DEF At
  <2>. QED  BY <1>2, <1>5, <1>6, <2>1
<1>8. PICK p, q : p = At(c, i) /\ q = At(c, i + 1)
  OBVIOUS
<1>9. node' = [m \in Nodes |->
             IF m = n THEN [prev |-> p, next |-> q, value |-> v]
             ELSE [node[m] EXCEPT !.next = IF m = p THEN n ELSE @,
                                  !.prev = IF m = q THEN n ELSE @]]
  BY <1>3, <1>7, <1>8 DEF listInsertNode
<1>10. node' = Joined(node, c, i, n, v)
  <2>1. ASSUME NEW m \in Nodes
        PROVE  [node[m] EXCEPT !.next = IF m = p THEN n ELSE @, !.prev = IF m = q THEN n ELSE @]
                 = [prev |-> IF m = q THEN n ELSE node[m].prev,
                    next |-> IF m = p THEN n ELSE node[m].next, value |-> node[m].value]
    <3>1. PICK y, z : y = (IF m = p THEN n ELSE node[m].next) /\ z = (IF m = q THEN n ELSE node[m].prev)
      OBVIOUS
    <3>2. [node[m] EXCEPT !.next = y, !.prev = z] = [prev |-> z, next |-> y, value |-> node[m].value]
      <4>1. node \in HeapNodes
        BY DEF Shape
      <4>2. Relinked(node[m], z, y)
        BY <4>1, NodeUpdate
      <4>. QED  BY <4>2 DEF Relinked
    <3>. QED  BY <3>1, <3>2
  <2>. QED  BY <1>8, <1>9, <2>1 DEF Joined
<1>11. (i = 0 <=> ~after /\ list[l].head = old) /\ (i = Len(c) <=> after /\ list[l].tail = old)
  <2>1. (c[k] = At(c, 1) <=> k = 1) /\ (c[k] = At(c, Len(c)) <=> k = Len(c))
    BY <1>2, AtSame
  <2>. QED  BY <1>2, <1>5, <1>6, <2>1
<1>12. list' = [list EXCEPT ![l] = JoinedHeader(list[l], c, i, n)]
  <2>1. list' = [list EXCEPT ![l] =
             [head |-> IF ~after /\ list[l].head = old THEN n ELSE list[l].head,
              tail |-> IF after /\ list[l].tail = old THEN n ELSE list[l].tail,
              len  |-> list[l].len + 1]]
    BY <1>3 DEF listInsertNode, Shape, HeapHeaders
  <2>. QED  BY <1>11, <2>1 DEF JoinedHeader
<1>. QED  BY <1>1, <1>3, <1>10, <1>12

LEMMA DelNodeParts ==
    ASSUME NEW s, Shape(node, list, used, s), NEW l \in Lists, NEW n \in Nodes, listDelNode(l, n)
    PROVE  \E k \in 1 .. Len(s[l]) :
              /\ s[l][k] = n /\ used' = used \ {s[l][k]}
              /\ node' = Parted(node, s[l], k)
              /\ list' = [list EXCEPT ![l] = PartedHeader(list[l], s[l], k)]
<1>1. PICK c \in Seq(Nodes) : c = s[l]
  BY ShapeFacts
<1>2. /\ Len(c) \in Nat /\ list[l].len = Len(c) /\ list[l].head = At(c, 1) /\ list[l].tail = At(c, Len(c))
      /\ Distinct(c) /\ \A j \in 1 .. Len(c) : c[j] # Nil
  BY <1>1, ShapeFacts
<1>4. n \in Range(Chain(l))
  BY DEF listDelNode
<1>5. PICK k \in 1 .. Len(c) :
           c[k] = n /\ node[n].next = At(c, k + 1) /\ node[n].prev = At(c, k - 1)
  BY <1>1, <1>4, MemberAt
<1>8. PICK p, q : p = At(c, k - 1) /\ q = At(c, k + 1)
  OBVIOUS
<1>9. node' = [m \in Nodes |->
             IF m = n THEN BlankNode
             ELSE [node[m] EXCEPT !.next = IF m = p THEN q ELSE @,
                                  !.prev = IF m = q THEN p ELSE @]]
  BY <1>5, <1>8 DEF listDelNode
<1>10. node' = Parted(node, c, k)
  <2>1. ASSUME NEW m \in Nodes
        PROVE  [node[m] EXCEPT !.next = IF m = p THEN q ELSE @, !.prev = IF m = q THEN p ELSE @]
                 = [prev |-> IF m = q THEN p ELSE node[m].prev,
                    next |-> IF m = p THEN q ELSE node[m].next, value |-> node[m].value]
    <3>1. PICK y, z : y = (IF m = p THEN q ELSE node[m].next) /\ z = (IF m = q THEN p ELSE node[m].prev)
      OBVIOUS
    <3>2. [node[m] EXCEPT !.next = y, !.prev = z] = [prev |-> z, next |-> y, value |-> node[m].value]
      <4>1. node \in HeapNodes
        BY DEF Shape
      <4>2. Relinked(node[m], z, y)
        BY <4>1, NodeUpdate
      <4>. QED  BY <4>2 DEF Relinked
    <3>. QED  BY <3>1, <3>2
  <2>. QED  BY <1>5, <1>8, <1>9, <2>1 DEF Parted
<1>11. (p = Nil <=> k = 1) /\ (q = Nil <=> k = Len(c)) /\ (k = 1 => q = At(c, 2))
       /\ (k = Len(c) => p = At(c, Len(c) - 1))
  BY <1>2, <1>8 DEF At
<1>12. list' = [list EXCEPT ![l] = PartedHeader(list[l], c, k)]
  <2>1. list' = [list EXCEPT ![l] =
             [head |-> IF p = Nil THEN q ELSE list[l].head,
              tail |-> IF q = Nil THEN p ELSE list[l].tail,
              len  |-> list[l].len - 1]]
    BY <1>5, <1>8 DEF listDelNode, Shape, HeapHeaders
  <2>. QED  BY <1>11, <2>1 DEF PartedHeader
<1>13. used' = used \ {c[k]}
  BY <1>5 DEF listDelNode, FreeNodes
<1>. QED  BY <1>1, <1>5, <1>10, <1>12, <1>13

\* listRotate is a removal of the last node and its insertion as the first.
LEMMA RotateMoves ==
    ASSUME NEW s, Shape(node, list, used, s), NEW l \in Lists, listRotate(l),
           NEW c, c = s[l], NEW x, x = c[Len(c)], NEW b, b = RemoveAt(c, Len(c)),
           NEW md, md = Parted(node, c, Len(c)), NEW g, g = PartedHeader(list[l], c, Len(c))
    PROVE  /\ Len(c) > 1
           /\ node' = Joined(md, b, 0, x, node[x].value)
           /\ list' = [list EXCEPT ![l] = JoinedHeader(g, b, 0, x)]
<1>1. /\ c \in Seq(Nodes) /\ Len(c) \in Nat /\ Distinct(c)
      /\ list[l].len = Len(c) /\ list[l].head = At(c, 1) /\ list[l].tail = At(c, Len(c))
      /\ \A j \in 1 .. Len(c) : c[j] \in Nodes /\ c[j] # Nil
      /\ Linked(node, list[l], c)
  BY ShapeFacts
<1>2. Len(c) > 1
  BY <1>1 DEF listRotate
<1>3. PICK e \in Nat : e = Len(c) - 1
  BY <1>1, <1>2
<1>4. /\ e \in 1 .. Len(c) /\ Len(c) \in 1 .. Len(c) /\ 1 \in 1 .. Len(c) /\ e # Len(c) /\ e + 1 = Len(c)
      /\ At(c, Len(c)) = c[Len(c)] /\ At(c, 1) = c[1] /\ At(c, e) = c[e] /\ At(c, Len(c) + 1) = Nil
      /\ At(c, Len(c) - 1) = c[e]
  BY <1>1, <1>2, <1>3 DEF At
<1>5. PICK h \in Nodes : h = c[1]
  BY <1>1, <1>4
<1>6. PICK p \in Nodes : p = c[e]
  BY <1>1, <1>4
<1>7. x \in Nodes /\ x # h /\ x # p /\ h # Nil /\ p # Nil /\ x # Nil
  BY <1>1, <1>2, <1>4, <1>5, <1>6, NilNoNode DEF Distinct
<1>8. list[l].tail = x /\ list[l].head = h /\ node[x].prev = p
  <2>1. node[c[Len(c)]].prev = At(c, Len(c) - 1)
    BY <1>1, <1>4 DEF Linked
  <2>. QED  BY <1>1, <1>4, <1>5, <1>6, <2>1
<1>9. /\ node' = [[[node EXCEPT ![p].next = Nil] EXCEPT ![x] = [@ EXCEPT !.next = h, !.prev = Nil]]
                      EXCEPT ![h].prev = x]
      /\ list' = [list EXCEPT ![l] = [@ EXCEPT !.head = x, !.tail = p]]
  BY <1>8 DEF listRotate
<1>10. Len(b) = e /\ At(b, 1) = h /\ At(b, 0) = Nil
  <2>1. /\ Len(b) = Len(c) - 1
        /\ \A j \in 0 .. Len(c) : At(b, j) = IF j < Len(c) THEN At(c, j) ELSE At(c, j + 1)
    BY ONLY <1>1, <1>4, b = RemoveAt(c, Len(c)), SeqLoses
  <2>2. At(b, 1) = At(c, 1) /\ At(b, 0) = At(c, 0) /\ At(c, 0) = Nil
    <3>1. 0 \in 0 .. Len(c) /\ 1 \in 0 .. Len(c) /\ 0 < Len(c) /\ 1 < Len(c)
      BY <1>1, <1>2
    <3>. QED  BY <2>1, <3>1 DEF At
  <2>. QED  BY <1>3, <1>4, <1>5, <2>1, <2>2
<1>11. ASSUME NEW m \in Nodes, m # x
       PROVE  md[m] = [prev |-> node[m].prev, next |-> IF m = p THEN Nil ELSE node[m].next,
                       value |-> node[m].value]
  <2>1. m # Nil
    BY NilNoNode
  <2>. QED  BY <1>4, <1>6, <1>11, <2>1 DEF Parted
<1>12. ASSUME NEW m \in Nodes  PROVE node'[m] = Joined(md, b, 0, x, node[x].value)[m]
  <2>0. node \in HeapNodes /\ DOMAIN node = Nodes
    BY DEF Shape, HeapNodes
  <2>1. CASE m = x
    <3>1. node'[m] = [node[m] EXCEPT !.next = h, !.prev = Nil]
      BY <1>7, <1>9, <2>0, <2>1
    <3>2. [node[m] EXCEPT !.next = h, !.prev = Nil] = [prev |-> Nil, next |-> h, value |-> node[m].value]
      <4>1. Relinked(node[m], Nil, h)
        BY <2>0, NodeUpdate
      <4>. QED  BY <4>1 DEF Relinked
    <3>3. Joined(md, b, 0, x, node[x].value)[m] = [prev |-> Nil, next |-> h, value |-> node[x].value]
      BY <1>10, <2>1 DEF Joined
    <3>. QED  BY <2>1, <3>1, <3>2, <3>3
  <2>2. CASE m # x
    <3>0. m # Nil
      BY NilNoNode
    <3>1. Joined(md, b, 0, x, node[x].value)[m]
            = [prev |-> IF m = h THEN x ELSE md[m].prev, next |-> md[m].next, value |-> md[m].value]
      BY <1>10, <2>2, <3>0 DEF Joined
    <3>2. md[m].prev = node[m].prev /\ md[m].value = node[m].value
          /\ md[m].next = IF m = p THEN Nil ELSE node[m].next
      <4>1. PICK y : y = IF m = p THEN Nil ELSE node[m].next
        OBVIOUS
      <4>2. md[m] = [prev |-> node[m].prev, next |-> y, value |-> node[m].value]
        BY <1>11, <2>2, <4>1
      <4>. QED  BY <4>1, <4>2
    <3>3. CASE m = h /\ m = p
      <4>1. node'[m] = [[node[m] EXCEPT !.next = Nil] EXCEPT !.prev = x]
        BY <1>7, <1>9, <2>0, <3>3
      <4>2. [[node[m] EXCEPT !.next = Nil] EXCEPT !.prev = x] = [prev |-> x, next |-> Nil, value |-> node[m].value]
        <5>1. Relinked(node[m], x, Nil)
          BY <2>0, NodeUpdate
        <5>. QED  BY <5>1 DEF Relinked
      <4>. QED  BY <3>1, <3>2, <3>3, <4>1, <4>2
    <3>4. CASE m = h /\ m # p
      <4>1. node'[m] = [node[m] EXCEPT !.prev = x]
        BY <1>7, <1>9, <2>0, <3>4
      <4>2. [node[m] EXCEPT !.prev = x] = [prev |-> x, next |-> node[m].next, value |-> node[m].value]
        BY <2>0 DEF HeapNodes
      <4>. QED  BY <3>1, <3>2, <3>4, <4>1, <4>2
    <3>5. CASE m # h /\ m = p
      <4>1. node'[m] = [node[m] EXCEPT !.next = Nil]
        BY <1>7, <1>9, <2>0, <3>5
      <4>2. [node[m] EXCEPT !.next = Nil] = [prev |-> node[m].prev, next |-> Nil, value |-> node[m].value]
        BY <2>0 DEF HeapNodes
      <4>. QED  BY <3>1, <3>2, <3>5, <4>1, <4>2
    <3>6. CASE m # h /\ m # p
      <4>1. node'[m] = node[m]
        BY <1>9, <2>0, <2>2, <3>6
      <4>. QED  BY <2>0, <3>1, <3>2, <3>6, <4>1, NodeIs
    <3>. QED  BY <3>3, <3>4, <3>5, <3>6
  <2>. QED  BY <2>1, <2>2
<1>13. node' = Joined(md, b, 0, x, node[x].value)
  <2>1. DOMAIN node' = Nodes /\ node' = [m \in Nodes |-> node'[m]]
    BY <1>9 DEF Shape, HeapNodes
  <2>2. Joined(md, b, 0, x, node[x].value) = [m \in Nodes |-> Joined(md, b, 0, x, node[x].value)[m]]
    BY DEF Joined
  <2>. QED  BY <1>12, <2>1, <2>2
<1>14. JoinedHeader(g, b, 0, x) = [head |-> x, tail |-> p, len |-> Len(c)]
  <2>1. g = [head |-> h, tail |-> p, len |-> e]
    BY <1>1, <1>2, <1>3, <1>4, <1>6, <1>8 DEF PartedHeader
  <2>2. 0 # Len(b) /\ e + 1 = Len(c)
    BY <1>2, <1>3, <1>4, <1>10
  <2>. QED  BY <2>1, <2>2 DEF JoinedHeader
<1>15. list' = [list EXCEPT ![l] = [head |-> x, tail |-> p, len |-> Len(c)]]
  <2>0. PICK r : r = list[l]
    OBVIOUS
  <2>1. DOMAIN r = {"head", "tail", "len"} /\ r.len = Len(c)
    BY <1>1, <2>0 DEF Shape, HeapHeaders
  <2>2. [r EXCEPT !.head = x, !.tail = p]
          = [f \in {"head", "tail", "len"} |-> IF f = "head" THEN x ELSE IF f = "tail" THEN p ELSE r[f]]
    BY <2>1
  <2>3. [r EXCEPT !.head = x, !.tail = p] = [head |-> x, tail |-> p, len |-> Len(c)]
    BY <2>1, <2>2
  <2>. QED  BY <1>9, <2>0, <2>3
<1>. QED  BY <1>2, <1>13, <1>14, <1>15

-----------------------------------------------------------------------------
(* The invariant.                                                           *)

V == Values \cup {Nil}
IterType ==
    [of : Lists \cup {"none"}, next : Nodes \cup {Nil}, dir : {"head", "tail"},
     cur : Nodes \cup {Nil}, ended : BOOLEAN, start : Seq(V), seen : Seq(V)]

\* The node after n in the direction of an iterator.
Ahead(nd, n, dir) == IF dir = "head" THEN nd[n].next ELSE nd[n].prev

\* Of the list with nodes c, the iterator it will still meet the nodes r.
Rest(it, nd, c, r) ==
    /\ r \in Seq(Nodes) /\ Distinct(r) /\ Range(r) \subseteq Range(c)
    /\ it.next = At(r, 1) /\ it.cur \notin Range(r)
    /\ \A k \in 1 .. Len(r) : Ahead(nd, r[k], it.dir) = At(r, k + 1)
    /\ it.start = it.seen \o Vals(nd, r)
    /\ it.ended => r = <<>>

IterFits(it, nd, lv, s) ==
    it.of # "none" => it.of \in lv /\ \E r : Rest(it, nd, s[it.of], r)

\* listDup has copied the nodes b of a, and goes on at cp.
Copied(cp, nd, a, b, methods) ==
    /\ Len(b) <= Len(a) /\ cp = At(a, Len(b) + 1)
    /\ \A j \in 1 .. Len(b) : Key(nd[b[j]].value) = Key(nd[a[j]].value)
    /\ "dup" \in methods =>
         \A i \in 1 .. Len(a), j \in 1 .. Len(b) : nd[b[j]].value # nd[a[i]].value

CopyFits(cp, nd, lv, it, s, methods) ==
    cp # Idle => /\ lv = Lists /\ it.of # "copy"
                 /\ Copied(cp, nd, s["orig"], s["copy"], methods)

Ordered(s, nd, ls, us, lv, it, cp, u) ==
    /\ Shape(nd, ls, us, s)
    /\ \A l \in Lists : l \notin lv => s[l] = <<>>
    /\ IterFits(it, nd, lv, s)
    /\ CopyFits(cp, nd, lv, it, s, u.methods)

Types ==
    /\ use \in Uses /\ live \subseteq Lists /\ freed \subseteq Values
    /\ status \in {"ok", "null", "wild"} /\ copying \in Nodes \cup {Nil, Idle}
    /\ iter \in IterType
    /\ \A n \in used : node[n].value \in Values

AdInv == Types /\ \E s : Ordered(s, node, list, used, live, iter, copying, use)

-----------------------------------------------------------------------------
(* What a change leaves alone.                                              *)

LEMMA JoinedOthers ==
    ASSUME NEW nd \in HeapNodes, NEW c \in Seq(Nodes), NEW i \in 0 .. Len(c),
           NEW n \in Nodes, NEW v, NEW m \in Nodes, m # n
    PROVE  /\ m \notin Range(c) => Joined(nd, c, i, n, v)[m] = nd[m]
           /\ Joined(nd, c, i, n, v)[m].value = nd[m].value
           /\ Joined(nd, c, i, n, v)[n].value = v
<1>1. At(c, i) \in Range(c) \cup {Nil} /\ At(c, i + 1) \in Range(c) \cup {Nil} /\ m # Nil
  BY AtType, NilNoNode
<1>2. PICK p : p = IF m = At(c, i + 1) THEN n ELSE nd[m].prev
  OBVIOUS
<1>3. PICK q : q = IF m = At(c, i) THEN n ELSE nd[m].next
  OBVIOUS
<1>4. Joined(nd, c, i, n, v)[m] = [prev |-> p, next |-> q, value |-> nd[m].value]
  BY <1>2, <1>3 DEF Joined
<1>5. Joined(nd, c, i, n, v)[n] = [prev |-> At(c, i), next |-> At(c, i + 1), value |-> v]
  BY DEF Joined
<1>6. m \notin Range(c) => p = nd[m].prev /\ q = nd[m].next
  BY <1>1, <1>2, <1>3
<1>. QED  BY <1>4, <1>5, <1>6, NodeIs

LEMMA PartedOthers ==
    ASSUME NEW nd \in HeapNodes, NEW c \in Seq(Nodes), NEW k \in 1 .. Len(c),
           NEW m \in Nodes, m # c[k]
    PROVE  /\ m \notin Range(c) => Parted(nd, c, k)[m] = nd[m]
           /\ Parted(nd, c, k)[m].value = nd[m].value
           /\ m # At(c, k - 1) => Parted(nd, c, k)[m].next = nd[m].next
           /\ m # At(c, k + 1) => Parted(nd, c, k)[m].prev = nd[m].prev
<1>1. At(c, k - 1) \in Range(c) \cup {Nil} /\ At(c, k + 1) \in Range(c) \cup {Nil} /\ m # Nil
  BY AtType, NilNoNode
<1>2. PICK p : p = IF m = At(c, k + 1) THEN At(c, k - 1) ELSE nd[m].prev
  OBVIOUS
<1>3. PICK q : q = IF m = At(c, k - 1) THEN At(c, k + 1) ELSE nd[m].next
  OBVIOUS
<1>4. Parted(nd, c, k)[m] = [prev |-> p, next |-> q, value |-> nd[m].value]
  BY <1>2, <1>3 DEF Parted
<1>5. m \notin Range(c) => p = nd[m].prev /\ q = nd[m].next
  BY <1>1, <1>2, <1>3
<1>6. Parted(nd, c, k)[m].prev = p /\ Parted(nd, c, k)[m].next = q /\ Parted(nd, c, k)[m].value = nd[m].value
  BY <1>4
<1>. QED  BY <1>2, <1>3, <1>4, <1>5, <1>6, NodeIs

LEMMA ValsSame ==
    ASSUME NEW r \in Seq(Nodes), NEW nd, NEW md, \A m \in Range(r) : md[m].value = nd[m].value
    PROVE  Vals(md, r) = Vals(nd, r)
<1>1. \A k \in 1 .. Len(r) : r[k] \in Range(r)
  BY RangeIs
<1>. QED  BY <1>1 DEF Vals

\* Iterators that differ in the node returned last.
Alike(it, jt) ==
    /\ jt.next = it.next /\ jt.dir = it.dir /\ jt.start = it.start /\ jt.seen = it.seen
    /\ jt.ended = it.ended

SameAhead(nd, md, dir, r) ==
    \A m \in Range(r) : Ahead(md, m, dir) = Ahead(nd, m, dir) /\ md[m].value = nd[m].value

LEMMA RestStays ==
    ASSUME NEW it, NEW jt, NEW nd, NEW md, NEW c, NEW d, NEW r, Rest(it, nd, c, r),
           Range(r) \subseteq Range(d), Alike(it, jt), jt.cur \notin Range(r),
           SameAhead(nd, md, it.dir, r)
    PROVE  Rest(jt, md, d, r)
<1>1. r \in Seq(Nodes)
  BY DEF Rest
<1>2. Vals(md, r) = Vals(nd, r)
  BY <1>1, ValsSame DEF SameAhead
<1>3. \A k \in 1 .. Len(r) : r[k] \in Range(r)
  BY <1>1, RangeIs
<1>4. \A k \in 1 .. Len(r) : Ahead(md, r[k], jt.dir) = At(r, k + 1)
  BY <1>3 DEF Rest, Alike, SameAhead
<1>. QED  BY <1>2, <1>4 DEF Rest, Alike

\* The iterated list is not touched.
LEMMA IterStays ==
    ASSUME NEW it, NEW nd, NEW md, NEW lv, NEW lw, NEW s, NEW t, IterFits(it, nd, lv, s),
           it.of # "none" => /\ it.of \in lw /\ t[it.of] = s[it.of]
                             /\ \A m \in Range(s[it.of]) : md[m] = nd[m]
    PROVE  IterFits(it, md, lw, t)
<1>1. SUFFICES ASSUME it.of # "none"  PROVE it.of \in lw /\ \E r : Rest(it, md, t[it.of], r)
  BY DEF IterFits
<1>2. PICK r : Rest(it, nd, s[it.of], r)
  BY <1>1 DEF IterFits
<1>3. Range(r) \subseteq Range(s[it.of]) /\ it.cur \notin Range(r)
  BY <1>2 DEF Rest
<1>4. SameAhead(nd, md, it.dir, r) /\ Alike(it, it)
  BY <1>1, <1>3 DEF Ahead, SameAhead, Alike
<1>5. Rest(it, md, t[it.of], r)
  BY <1>1, <1>2, <1>3, <1>4, RestStays
<1>. QED  BY <1>1, <1>5

\* The node that the iterator returned last goes.
LEMMA IterAfterDelete ==
    ASSUME NEW nd, NEW ls, NEW us, NEW s, Shape(nd, ls, us, s), NEW l \in Lists,
           NEW k \in 1 .. Len(s[l]), NEW x, x = s[l][k],
           NEW it \in IterType, NEW lv, IterFits(it, nd, lv, s), it.of # l \/ it.cur = x,
           NEW jt, jt = [it EXCEPT !.cur = IF it.cur = x THEN Nil ELSE it.cur]
    PROVE  IterFits(jt, Parted(nd, s[l], k), lv, With(s, l, RemoveAt(s[l], k)))
<1>0. /\ jt.of = it.of /\ Alike(it, jt)
      /\ jt.cur = IF it.cur = x THEN Nil ELSE it.cur
  BY DEF IterType, Alike
<1>1. PICK c \in Seq(Nodes) : c = s[l]
  BY ShapeFacts
<1>2. PICK md : md = Parted(nd, c, k)
  OBVIOUS
<1>3. PICK t : t = With(s, l, RemoveAt(s[l], k))
  OBVIOUS
<1>4. SUFFICES ASSUME it.of # "none"  PROVE it.of \in lv /\ \E r : Rest(jt, md, t[it.of], r)
  BY <1>0, <1>1, <1>2, <1>3 DEF IterFits
<1>5. it.of \in lv /\ it.of \in Lists
  BY <1>4 DEF IterFits, IterType
<1>6. PICK r : Rest(it, nd, s[it.of], r)
  BY <1>4 DEF IterFits
<1>7. r \in Seq(Nodes) /\ Range(r) \subseteq Range(s[it.of]) /\ it.cur \notin Range(r)
  BY <1>6 DEF Rest
<1>8. /\ nd \in HeapNodes /\ Distinct(c) /\ k \in 1 .. Len(c) /\ x = c[k] /\ x \in Nodes /\ x # Nil
      /\ Linked(nd, ls[l], c) /\ x \in Range(c)
  <2>1. nd \in HeapNodes
    BY DEF Shape
  <2>. QED  BY <1>1, <2>1, ShapeFacts
<1>9. Range(r) \subseteq Nodes /\ Nil \notin Range(r)
  <2>1. Range(r) \subseteq Nodes
    BY <1>5, <1>7, ShapeFacts
  <2>. QED  BY <2>1, NilNoNode
<1>10. jt.cur \notin Range(r)
  BY <1>0, <1>7, <1>9
<1>11. CASE it.of # l
  <2>1. t[it.of] = s[it.of]
    BY <1>3, <1>5, <1>11 DEF With
  <2>2. Range(r) \cap Range(c) = {}
    BY <1>1, <1>5, <1>7, <1>11 DEF Shape
  <2>3. \A m \in Range(r) : md[m] = nd[m]
    BY <1>2, <1>8, <1>9, <2>2, PartedOthers
  <2>4. SameAhead(nd, md, it.dir, r)
    BY <2>3 DEF Ahead, SameAhead
  <2>5. Rest(jt, md, t[it.of], r)
    <3>1. Range(r) \subseteq Range(t[it.of])
      BY <1>7, <2>1
    <3>3. Alike(it, jt)
      BY <1>0
    <3>. QED  BY ONLY <1>6, <1>10, <2>4, <3>1, <3>3, RestStays
  <2>. QED  BY <1>5, <2>5
<1>12. CASE it.of = l
  <2>1. t[l] = RemoveAt(c, k) /\ Range(RemoveAt(c, k)) = Range(c) \ {x}
    <3>1. t[l] = RemoveAt(c, k)
      BY <1>1, <1>3 DEF With
    <3>. QED  BY <1>8, <3>1, SeqLoses
  <2>2. it.cur = x /\ x \notin Range(r) /\ Range(r) \subseteq Range(t[l])
    BY <1>1, <1>7, <1>12, <2>1
  <2>3. ASSUME NEW m \in Range(r)
        PROVE  Ahead(md, m, it.dir) = Ahead(nd, m, it.dir) /\ md[m].value = nd[m].value
    <3>1. m \in Nodes /\ m # c[k]
      BY <1>8, <1>9, <2>2
    <3>2. PICK j \in 1 .. Len(r) : r[j] = m
      BY <1>7, RangeIs
    <3>3. Ahead(nd, m, it.dir) = At(r, j + 1)
      BY <1>6, <3>2 DEF Rest
    <3>4. Ahead(nd, m, it.dir) # x
      <4>1. At(r, j + 1) \in Range(r) \cup {Nil}
        BY <1>7, AtType
      <4>. QED  BY <1>8, <2>2, <3>3, <4>1
    <3>5. m = At(c, k - 1) => nd[m].next = x
      <4>1. SUFFICES ASSUME m = At(c, k - 1)  PROVE nd[m].next = x
        OBVIOUS
      <4>2. k - 1 \in 1 .. Len(c) /\ c[k - 1] = m /\ (k - 1) + 1 = k
        BY <1>8, <3>1, <4>1, NilNoNode DEF At
      <4>3. nd[c[k - 1]].next = At(c, (k - 1) + 1)
        BY <1>8, <4>2 DEF Linked
      <4>. QED  BY <1>8, <4>2, <4>3 DEF At
    <3>6. m = At(c, k + 1) => nd[m].prev = x
      <4>1. SUFFICES ASSUME m = At(c, k + 1)  PROVE nd[m].prev = x
        OBVIOUS
      <4>2. k + 1 \in 1 .. Len(c) /\ c[k + 1] = m /\ (k + 1) - 1 = k
        BY <1>8, <3>1, <4>1, NilNoNode DEF At
      <4>3. nd[c[k + 1]].prev = At(c, (k + 1) - 1)
        BY <1>8, <4>2 DEF Linked
      <4>. QED  BY <1>8, <4>2, <4>3 DEF At
    <3>7. /\ md[m].value = nd[m].value
          /\ m # At(c, k - 1) => md[m].next = nd[m].next
          /\ m # At(c, k + 1) => md[m].prev = nd[m].prev
      BY <1>2, <1>8, <3>1, PartedOthers
    <3>. QED  BY <3>4, <3>5, <3>6, <3>7 DEF Ahead
  <2>4. Rest(jt, md, t[it.of], r)
    <3>1. Range(r) \subseteq Range(t[it.of])
      BY <1>12, <2>2
    <3>2. SameAhead(nd, md, it.dir, r)
      BY <2>3 DEF SameAhead
    <3>3. Alike(it, jt)
      BY <1>0
    <3>. QED  BY ONLY <1>6, <1>10, <3>1, <3>2, <3>3, RestStays
  <2>. QED  BY <1>5, <2>4
<1>. QED  BY <1>11, <1>12

-----------------------------------------------------------------------------
(* Steps of the caller.                                                     *)

Fit(s) == Ordered(s, node, list, used, live, iter, copying, use)

\* While nothing is copied.
LEMMA IdleFits ==
    ASSUME NEW cp, cp = Idle, NEW nd, NEW lv, NEW it, NEW s, NEW m
    PROVE  CopyFits(cp, nd, lv, it, s, m)
BY DEF CopyFits

LEMMA InsertStep ==
    ASSUME Types, NEW s, Fit(s), NEW l \in Lists, l \in live, iter.of # l,
           NEW n \in Nodes \ used, NEW i \in 0 .. Len(s[l]), NEW v \in Values,
           node' = Joined(node, s[l], i, n, v),
           list' = [list EXCEPT ![l] = JoinedHeader(list[l], s[l], i, n)],
           used' = used \cup {n}, UNCHANGED <<use, live, iter, freed, status>>,
           NEW t, t = With(s, l, InsertAt(s[l], i + 1, n)),
           copying' \in Nodes \cup {Nil, Idle}, CopyFits(copying', node', live, iter, t, use.methods)
    PROVE  Types' /\ Fit(t)'
<1>1. Shape(node, list, used, s) /\ IterFits(iter, node, live, s) /\ \A m \in Lists : m \notin live => s[m] = <<>>
  BY DEF Fit, Ordered
<1>2. node \in HeapNodes /\ s[l] \in Seq(Nodes) /\ n \in Nodes /\ used \subseteq Nodes
  BY <1>1, ShapeFacts DEF Shape
<1>3. Shape(node', list', used', t)
  <2>1. v \in Values \cup {Nil}
    OBVIOUS
  <2>. QED  BY <1>1, <2>1, ShapeInsert
<1>4. \A m \in Lists : m # l => t[m] = s[m]
  BY DEF With
<1>5. \A m \in used : node'[m].value = node[m].value
  BY <1>2, JoinedOthers
<1>6. node'[n].value = v
  BY <1>2 DEF Joined
<1>7. Types'
  BY <1>5, <1>6 DEF Types
<1>8. IterFits(iter, node', live, t)
  <2>1. ASSUME iter.of # "none"
        PROVE  /\ iter.of \in live /\ t[iter.of] = s[iter.of]
               /\ \A m \in Range(s[iter.of]) : node'[m] = node[m]
    <3>1. iter.of \in live /\ iter.of \in Lists
      BY <1>1, <2>1 DEF IterFits, Types
    <3>2. Range(s[iter.of]) \cap Range(s[l]) = {} /\ Range(s[iter.of]) \subseteq used
      BY <1>1, <3>1, ShapeFacts DEF Shape
    <3>3. \A m \in Range(s[iter.of]) : m \in Nodes /\ m # n /\ m \notin Range(s[l])
      BY <1>2, <3>2
    <3>4. \A m \in Range(s[iter.of]) : node'[m] = node[m]
      BY <1>2, <3>3, JoinedOthers
    <3>. QED  BY <1>4, <3>1, <3>4
  <2>. QED  BY <1>1, <2>1, IterStays
<1>9. \A m \in Lists : m \notin live' => t[m] = <<>>
  BY <1>1, <1>4
<1>. QED  BY <1>3, <1>7, <1>8, <1>9 DEF Fit, Ordered

LEMMA FreedTyped ==
    ASSUME Types, NEW N, N \subseteq used, FreeNodes(N)
    PROVE  freed' \subseteq Values /\ used' = used \ N
BY DEF Types, FreeNodes, Holds

LEMMA DeleteStep ==
    ASSUME Types, NEW s, Fit(s), NEW l \in Lists, NEW n \in Nodes, listDelNode(l, n), l \in live
    PROVE  /\ Types'
           /\ \E k \in 1 .. Len(s[l]) :
                /\ s[l][k] = n /\ Fit(With(s, l, RemoveAt(s[l], k)))'
                /\ node' = Parted(node, s[l], k)
<1>1. Shape(node, list, used, s) /\ IterFits(iter, node, live, s) /\ \A m \in Lists : m \notin live => s[m] = <<>>
  BY DEF Fit, Ordered
<1>2. PICK k \in 1 .. Len(s[l]) :
         /\ s[l][k] = n /\ used' = used \ {s[l][k]}
         /\ node' = Parted(node, s[l], k)
         /\ list' = [list EXCEPT ![l] = PartedHeader(list[l], s[l], k)]
  BY <1>1, DelNodeParts
<1>3. PICK t : t = With(s, l, RemoveAt(s[l], k))
  OBVIOUS
<1>4. Shape(node', list', used', t)
  BY <1>1, <1>2, <1>3, ShapeRemove
<1>5. \A m \in Lists : m # l => t[m] = s[m]
  BY <1>3 DEF With
<1>6. /\ (iter.of # l \/ iter.cur = n) /\ copying = Idle /\ n \in used
      /\ iter' = [iter EXCEPT !.cur = IF iter.cur = n THEN Nil ELSE iter.cur]
      /\ FreeNodes({n}) /\ UNCHANGED <<use, live, copying, status>>
  BY <1>1, <1>2, ShapeFacts DEF listDelNode, Quiet
<1>7. IterFits(iter', node', live, t)
  <2>1. iter \in IterType
    BY DEF Types
  <2>2. IterFits(iter', Parted(node, s[l], k), live, With(s, l, RemoveAt(s[l], k)))
    BY <1>1, <1>2, <1>6, <2>1, IterAfterDelete
  <2>. QED  BY <1>2, <1>3, <2>2
<1>8. iter' \in IterType
  BY <1>6 DEF Types, IterType
<1>9. \A m \in used' : node'[m].value \in Values
  <2>1. node \in HeapNodes /\ s[l] \in Seq(Nodes) /\ used \subseteq Nodes
    BY <1>1, ShapeFacts DEF Shape
  <2>2. \A m \in used' : node'[m].value = node[m].value
    BY <1>2, <2>1, PartedOthers
  <2>. QED  BY <1>2, <2>2 DEF Types
<1>10. Types'
  <2>1. freed' \subseteq Values
    BY <1>6, FreedTyped
  <2>. QED  BY <1>6, <1>8, <1>9, <2>1 DEF Types
<1>11. CopyFits(copying', node', live', iter', t, use'.methods)
  BY <1>6, IdleFits
<1>12. \A m \in Lists : m \notin live' => t[m] = <<>>
  BY <1>1, <1>5, <1>6
<1>13. Fit(t)'
  BY <1>4, <1>6, <1>7, <1>11, <1>12 DEF Fit, Ordered
<1>. QED  BY <1>2, <1>3, <1>10, <1>13

\* The sequence that listRotate makes of c.
Turned(c) == InsertAt(RemoveAt(c, Len(c)), 1, c[Len(c)])

LEMMA RotateShape ==
    ASSUME NEW s, Shape(node, list, used, s), NEW l \in Lists, listRotate(l),
           NEW t, t = With(s, l, Turned(s[l]))
    PROVE  /\ Shape(node', list', used, t) /\ Len(s[l]) > 1
           /\ \A m \in Nodes : node'[m].value = node[m].value
           /\ \A m \in Nodes \ Range(s[l]) : node'[m] = node[m]
<1>1. PICK c \in Seq(Nodes) : c = s[l]
  BY ShapeFacts
<1>2. PICK x : x = c[Len(c)]
  OBVIOUS
<1>3. PICK b : b = RemoveAt(c, Len(c))
  OBVIOUS
<1>4. PICK md : md = Parted(node, c, Len(c))
  OBVIOUS
<1>5. PICK g : g = PartedHeader(list[l], c, Len(c))
  OBVIOUS
<1>6. /\ Len(c) > 1 /\ node' = Joined(md, b, 0, x, node[x].value)
      /\ list' = [list EXCEPT ![l] = JoinedHeader(g, b, 0, x)]
  BY <1>1, <1>2, <1>3, <1>4, <1>5, RotateMoves
<1>7. /\ Len(c) \in Nat /\ Distinct(c) /\ Len(c) \in 1 .. Len(c) /\ x \in Nodes /\ x \in used
      /\ x \in Range(c) /\ node \in HeapNodes /\ list \in HeapHeaders
  <2>1. node \in HeapNodes /\ list \in HeapHeaders
    BY DEF Shape
  <2>2. Distinct(c) /\ Len(c) \in Nat /\ \A k \in 1 .. Len(c) : c[k] \in used /\ c[k] \in Nodes /\ c[k] \in Range(c)
    BY <1>1, ShapeFacts
  <2>3. Len(c) \in 1 .. Len(c)
    BY <1>6, <2>2
  <2>. QED  BY <1>2, <2>1, <2>2, <2>3
<1>8. PICK s2 : s2 = With(s, l, b)
  OBVIOUS
<1>9. PICK ls2 : ls2 = [list EXCEPT ![l] = g]
  OBVIOUS
<1>10. Shape(md, ls2, used \ {x}, s2)
  BY <1>1, <1>2, <1>3, <1>4, <1>5, <1>7, <1>8, <1>9, ShapeRemove
<1>11. s2[l] = b /\ ls2[l] = g /\ b \in Seq(Nodes) /\ 0 \in 0 .. Len(b) /\ Range(b) = Range(c) \ {x}
  <2>1. s2[l] = b /\ ls2[l] = g
    BY <1>7, <1>8, <1>9 DEF With, HeapHeaders
  <2>2. b \in Seq(Nodes) /\ Range(b) = Range(c) \ {x}
    BY <1>2, <1>3, <1>7, SeqLoses
  <2>. QED  BY <2>1, <2>2
<1>12. [ls2 EXCEPT ![l] = JoinedHeader(g, b, 0, x)] = list'
  BY <1>6, <1>7, <1>9 DEF HeapHeaders
<1>13. With(s2, l, InsertAt(b, 0 + 1, x)) = t
  <2>1. 0 + 1 = 1
    OBVIOUS
  <2>2. Turned(s[l]) = InsertAt(b, 1, x)
    BY <1>1, <1>2, <1>3 DEF Turned
  <2>. QED  BY <1>8, <2>1, <2>2, Zenon DEF With
<1>14. (used \ {x}) \cup {x} = used
  BY <1>7
<1>15. node[x].value \in Values \cup {Nil}
  BY <1>7 DEF HeapNodes
<1>16. Shape(node', list', used, t)
  <2>1. x \in Nodes \ (used \ {x})
    BY <1>7
  <2>2. Shape(Joined(md, s2[l], 0, x, node[x].value),
              [ls2 EXCEPT ![l] = JoinedHeader(ls2[l], s2[l], 0, x)],
              (used \ {x}) \cup {x}, With(s2, l, InsertAt(s2[l], 0 + 1, x)))
    BY <1>10, <1>11, <1>15, <2>1, ShapeInsert
  <2>. QED  BY <1>6, <1>11, <1>12, <1>13, <1>14, <2>2
<1>17. md \in HeapNodes
  BY <1>10 DEF Shape
<1>18. ASSUME NEW m \in Nodes
       PROVE  node'[m].value = node[m].value /\ (m \notin Range(c) => node'[m] = node[m])
  <2>1. CASE m = x
    BY <1>6, <1>7, <2>1 DEF Joined
  <2>2. CASE m # x
    <3>1. /\ md[m].value = node[m].value /\ (m \notin Range(c) => md[m] = node[m])
      BY <1>1, <1>2, <1>4, <1>7, <2>2, PartedOthers
    <3>2. node'[m].value = md[m].value /\ (m \notin Range(b) => node'[m] = md[m])
      BY <1>6, <1>7, <1>11, <1>17, <2>2, JoinedOthers
    <3>. QED  BY <1>11, <3>1, <3>2
  <2>. QED  BY <2>1, <2>2
<1>. QED  BY <1>1, <1>6, <1>16, <1>18

LEMMA RotateStep ==
    ASSUME Types, NEW s, Fit(s), NEW l \in Lists, listRotate(l), NEW t, t = With(s, l, Turned(s[l]))
    PROVE  Types' /\ Fit(t)'
<1>1. Shape(node, list, used, s) /\ IterFits(iter, node, live, s) /\ \A m \in Lists : m \notin live => s[m] = <<>>
  BY DEF Fit, Ordered
<1>2. /\ Shape(node', list', used, t)
      /\ \A m \in Nodes : node'[m].value = node[m].value
      /\ \A m \in Nodes \ Range(s[l]) : node'[m] = node[m]
  BY <1>1, RotateShape
<1>3. /\ UNCHANGED <<use, used, live, iter, copying, freed, status>>
      /\ copying = Idle /\ iter.of # l /\ l \in live
  BY DEF listRotate, Quiet
<1>4. used \subseteq Nodes /\ \A m \in Lists : m # l => t[m] = s[m]
  BY <1>1 DEF Shape, With
<1>5. Types'
  BY <1>2, <1>3, <1>4 DEF Types
<1>6. IterFits(iter, node', live, t)
  <2>1. ASSUME iter.of # "none"
        PROVE  /\ iter.of \in live /\ t[iter.of] = s[iter.of]
               /\ \A m \in Range(s[iter.of]) : node'[m] = node[m]
    <3>1. iter.of \in live /\ iter.of \in Lists
      BY <1>1, <2>1 DEF IterFits, Types
    <3>2. Range(s[iter.of]) \cap Range(s[l]) = {} /\ Range(s[iter.of]) \subseteq Nodes
      BY <1>1, <1>3, <3>1, ShapeFacts DEF Shape
    <3>. QED  BY <1>2, <1>3, <1>4, <3>1, <3>2
  <2>. QED  BY <1>1, <2>1, IterStays
<1>7. CopyFits(copying, node', live, iter, t, use.methods)
  BY <1>3, IdleFits
<1>8. \A m \in Lists : m \notin live => t[m] = <<>>
  BY <1>1, <1>3, <1>4
<1>. QED  BY <1>2, <1>3, <1>5, <1>6, <1>7, <1>8 DEF Fit, Ordered

\* The header of a list without nodes is set up.
LEMMA ShapeBlank ==
    ASSUME NEW nd, NEW ls, NEW us, NEW s, Shape(nd, ls, us, s), NEW l \in Lists, s[l] = <<>>,
           NEW ks, ks = [ls EXCEPT ![l] = EmptyList]
    PROVE  Shape(nd, ks, us, s)
<1>1. ls \in HeapHeaders /\ \A m \in Lists : Linked(nd, ls[m], s[m])
  BY DEF Shape
<1>2. ks \in HeapHeaders /\ ks[l] = EmptyList /\ \A m \in Lists : m # l => ks[m] = ls[m]
  BY <1>1 DEF EmptyList, HeapHeaders
<1>3. Linked(nd, EmptyList, <<>>)
  BY DEF Linked, EmptyList, At, Distinct
<1>4. \A m \in Lists : Linked(nd, ks[m], s[m])
  BY <1>1, <1>2, <1>3
<1>. QED  BY <1>2, <1>4 DEF Shape

LEMMA CreateStep ==
    ASSUME Types, NEW s, Fit(s), NEW l \in Lists, listCreate(l)
    PROVE  Types' /\ Fit(s)'
<1>1. Shape(node, list, used, s) /\ IterFits(iter, node, live, s) /\ \A m \in Lists : m \notin live => s[m] = <<>>
  BY DEF Fit, Ordered
<1>2. /\ UNCHANGED <<use, node, used, iter, copying, freed, status>> /\ copying = Idle
      /\ l \notin live /\ live' = live \cup {l} /\ list' = [list EXCEPT ![l] = EmptyList]
  BY DEF listCreate
<1>3. Shape(node, list', used, s)
  BY <1>1, <1>2, ShapeBlank
<1>4. Types'
  BY <1>2 DEF Types
<1>5. IterFits(iter, node, live', s)
  BY <1>1, <1>2 DEF IterFits
<1>6. CopyFits(copying, node, live', iter, s, use.methods)
  BY <1>2, IdleFits
<1>. QED  BY <1>1, <1>2, <1>3, <1>4, <1>5, <1>6 DEF Fit, Ordered

LEMMA DiscardStep ==
    ASSUME Types, NEW s, Fit(s), NEW l \in Lists, Discard(l), iter.of # l, copying' = Idle,
           UNCHANGED <<use, iter, status>>, NEW t, t = With(s, l, <<>>)
    PROVE  Types' /\ Fit(t)'
<1>1. Shape(node, list, used, s) /\ IterFits(iter, node, live, s) /\ \A m \in Lists : m \notin live => s[m] = <<>>
  BY DEF Fit, Ordered
<1>2. Chain(l) = s[l]
  BY <1>1, ChainIs
<1>3. PICK N : N = Range(s[l])
  OBVIOUS
<1>4. /\ FreeNodes(N) /\ live' = live \ {l}
      /\ node' = [n \in Nodes |-> IF n \in Range(s[l]) THEN BlankNode ELSE node[n]]
      /\ list' = [list EXCEPT ![l] = EmptyList]
  BY <1>2, <1>3, Zenon DEF Discard
<1>5. N \subseteq used /\ used \subseteq Nodes
  BY <1>1, <1>3, ShapeFacts DEF Shape
<1>6. freed' \subseteq Values /\ used' = used \ N
  BY <1>4, <1>5, FreedTyped
<1>7. Shape(node', list', used', t)
  BY <1>1, <1>3, <1>4, <1>6, ShapeDiscard
<1>8. \A m \in Nodes : m \notin N => node'[m] = node[m]
  BY <1>3, <1>4
<1>9. Types'
  BY <1>4, <1>5, <1>6, <1>8 DEF Types
<1>10. t[l] = <<>> /\ \A m \in Lists : m # l => t[m] = s[m]
  BY DEF With
<1>11. IterFits(iter, node', live', t)
  <2>1. ASSUME iter.of # "none"
        PROVE  /\ iter.of \in live' /\ t[iter.of] = s[iter.of]
               /\ \A m \in Range(s[iter.of]) : node'[m] = node[m]
    <3>1. iter.of \in live /\ iter.of \in Lists
      BY <1>1, <2>1 DEF IterFits, Types
    <3>2. Range(s[iter.of]) \cap N = {} /\ Range(s[iter.of]) \subseteq Nodes
      BY <1>1, <1>3, <3>1, ShapeFacts DEF Shape
    <3>. QED  BY <1>4, <1>8, <1>10, <3>1, <3>2
  <2>. QED  BY <1>1, <2>1, IterStays
<1>12. CopyFits(copying', node', live', iter, t, use.methods)
  BY IdleFits
<1>13. \A m \in Lists : m \notin live' => t[m] = <<>>
  BY <1>1, <1>4, <1>10
<1>. QED  BY <1>7, <1>9, <1>11, <1>12, <1>13 DEF Fit, Ordered

-----------------------------------------------------------------------------
(* Steps of an iterator.                                                    *)

\* A step that changes the iterator alone.
LEMMA IterStep ==
    ASSUME Types, NEW s, Fit(s), copying = Idle, UNCHANGED <<heap, copying, status>>,
           iter' \in IterType, IterFits(iter', node, live, s)
    PROVE  Types' /\ Fit(s)'
<1>1. UNCHANGED <<use, node, used, list, live, freed, copying, status>>
  BY DEF heap
<1>2. CopyFits(copying, node, live, iter', s, use.methods)
  BY IdleFits
<1>. QED  BY <1>1, <1>2 DEF Fit, Ordered, Types

LEMMA ReverseValues ==
    ASSUME NEW X, NEW c \in Seq(X), NEW r, r = Reverse(c)
    PROVE  r \in Seq(X) /\ Len(r) = Len(c) /\ \A k \in 1 .. Len(c) : r[k] = c[Len(c) - k + 1]
BY DEF Reverse

\* The nodes of a list in the direction of an iterator.
Along(c, dir) == IF dir = "head" THEN c ELSE Reverse(c)

LEMMA AlongIs ==
    ASSUME NEW nd, NEW h, NEW c, Linked(nd, h, c), NEW dir \in {"head", "tail"}, NEW r, r = Along(c, dir)
    PROVE  /\ r \in Seq(Nodes) /\ Distinct(r) /\ Range(r) = Range(c) /\ Len(r) = Len(c)
           /\ At(r, 1) = IF dir = "head" THEN h.head ELSE h.tail
           /\ \A k \in 1 .. Len(r) : Ahead(nd, r[k], dir) = At(r, k + 1)
<1>1. /\ c \in Seq(Nodes) /\ Distinct(c) /\ Len(c) \in Nat /\ h.head = At(c, 1) /\ h.tail = At(c, Len(c))
      /\ \A k \in 1 .. Len(c) : nd[c[k]].next = At(c, k + 1) /\ nd[c[k]].prev = At(c, k - 1)
  BY DEF Linked
<1>2. CASE dir = "head"
  BY <1>1, <1>2 DEF Along, Ahead
<1>3. CASE dir = "tail"
  <2>1. r = Reverse(c)
    BY <1>3 DEF Along
  <2>2. r \in Seq(Nodes) /\ Len(r) = Len(c) /\ \A k \in 1 .. Len(c) : r[k] = c[Len(c) - k + 1]
    BY <1>1, <2>1, ReverseValues
  <2>3. \A k \in 1 .. Len(c) : Len(c) - k + 1 \in 1 .. Len(c) /\ Len(c) - (Len(c) - k + 1) + 1 = k
    BY <1>1
  <2>4. \A k \in 0 .. Len(c) + 1 : At(r, k) = At(c, Len(c) - k + 1)
    BY <1>1, <2>2 DEF At
  <2>5. Distinct(r)
    <3>1. ASSUME NEW j \in 1 .. Len(c), NEW k \in 1 .. Len(c), r[j] = r[k]  PROVE j = k
      <4>1. Len(c) - j + 1 = Len(c) - k + 1
        BY <1>1, <2>2, <2>3, <3>1, ZenonT(40) DEF Distinct
      <4>. QED  BY <1>1, <4>1
    <3>. QED  BY <2>2, <3>1 DEF Distinct
  <2>6. Range(r) = Range(c)
    <3>1. ASSUME NEW x \in Range(r)  PROVE x \in Range(c)
      <4>1. PICK k \in 1 .. Len(c) : r[k] = x
        BY <2>2, RangeIs
      <4>2. c[Len(c) - k + 1] = x
        BY <2>2, <4>1
      <4>. QED  BY <1>1, <2>3, <4>2, RangeIs
    <3>2. ASSUME NEW x \in Range(c)  PROVE x \in Range(r)
      <4>1. PICK k \in 1 .. Len(c) : c[k] = x
        BY <1>1, RangeIs
      <4>2. r[Len(c) - k + 1] = x
        BY <2>2, <2>3, <4>1
      <4>. QED  BY <2>2, <2>3, <4>2, RangeIs
    <3>. QED  BY <3>1, <3>2
  <2>7. At(r, 1) = h.tail
    <3>1. 1 \in 0 .. Len(c) + 1 /\ Len(c) - 1 + 1 = Len(c)
      BY <1>1
    <3>. QED  BY <1>1, <2>4, <3>1
  <2>8. ASSUME NEW k \in 1 .. Len(r)  PROVE Ahead(nd, r[k], dir) = At(r, k + 1)
    <3>1. k + 1 \in 0 .. Len(c) + 1 /\ k \in 1 .. Len(c) /\ Len(c) - (k + 1) + 1 = (Len(c) - k + 1) - 1
      BY <1>1, <2>2
    <3>2. nd[r[k]].prev = At(c, (Len(c) - k + 1) - 1)
      BY <1>1, <2>2, <2>3, <3>1
    <3>. QED  BY <1>3, <2>4, <3>1, <3>2 DEF Ahead
  <2>. QED  BY <1>3, <2>2, <2>5, <2>6, <2>7, <2>8
<1>. QED  BY <1>2, <1>3

LEMMA ValsType ==
    ASSUME NEW nd \in HeapNodes, NEW c \in Seq(Nodes)
    PROVE  Vals(nd, c) \in Seq(V) /\ Len(Vals(nd, c)) = Len(c)
BY DEF Vals, HeapNodes, V

LEMMA GetIteratorStep ==
    ASSUME Types, NEW s, Fit(s), NEW l \in Lists, NEW dir \in {"head", "tail"}, listGetIterator(l, dir)
    PROVE  Types' /\ Fit(s)'
<1>1. Shape(node, list, used, s)
  BY DEF Fit, Ordered
<1>2. /\ copying = Idle /\ l \in live /\ iter' = StartAt(l, dir) /\ UNCHANGED <<heap, copying, status>>
  BY DEF listGetIterator
<1>3. PICK c \in Seq(Nodes) : c = s[l]
  BY <1>1, ShapeFacts
<1>4. Linked(node, list[l], c) /\ Contents(l) = Vals(node, c) /\ node \in HeapNodes
  BY <1>1, <1>3, ShapeFacts, ChainIs DEF Shape
<1>5. PICK r : r = Along(c, dir)
  OBVIOUS
<1>6. /\ r \in Seq(Nodes) /\ Distinct(r) /\ Range(r) = Range(c) /\ Len(r) = Len(c)
      /\ At(r, 1) = IF dir = "head" THEN list[l].head ELSE list[l].tail
      /\ \A k \in 1 .. Len(r) : Ahead(node, r[k], dir) = At(r, k + 1)
  BY <1>4, <1>5, AlongIs
<1>7. PICK w : w = IF dir = "head" THEN Contents(l) ELSE Reverse(Contents(l))
  OBVIOUS
<1>8. w = Vals(node, r)
  <2>1. CASE dir = "head"
    BY <1>4, <1>5, <1>7, <2>1 DEF Along
  <2>2. CASE dir = "tail"
    <3>1. r = Reverse(c) /\ w = Reverse(Vals(node, c))
      BY <1>4, <1>5, <1>7, <2>2 DEF Along
    <3>. QED  BY <1>3, <3>1 DEF Vals, Reverse
  <2>. QED  BY <2>1, <2>2
<1>9. iter' = [of |-> l, dir |-> dir, cur |-> Nil, ended |-> FALSE, seen |-> <<>>,
               next |-> At(r, 1), start |-> w]
  BY <1>2, <1>6, <1>7, Zenon DEF StartAt
<1>10. w \in Seq(V) /\ At(r, 1) \in Nodes \cup {Nil}
  BY <1>4, <1>6, <1>8, ValsType, AtType
<1>11. iter' \in IterType
  BY <1>9, <1>10 DEF IterType
<1>12. Rest(iter', node, c, r)
  <2>1. Nil \notin Range(r)
    BY <1>6, RangeType, NilNoNode
  <2>2. w = <<>> \o w
    BY <1>10
  <2>3. /\ iter'.next = At(r, 1) /\ iter'.cur = Nil /\ iter'.dir = dir /\ iter'.start = w
        /\ iter'.seen = <<>> /\ iter'.ended = FALSE
    BY <1>9
  <2>. QED  BY <1>6, <1>8, <2>1, <2>2, <2>3 DEF Rest
<1>13. iter'.of = l
  BY <1>9
<1>14. IterFits(iter', node, live, s)
  BY <1>2, <1>3, <1>12, <1>13 DEF IterFits
<1>. QED  BY <1>2, <1>11, <1>14, IterStep

\* The fields of an iterator that listNext changes.
Advances(it, n, q, e, w) ==
    [it EXCEPT !.cur = n, !.next = q, !.ended = e, !.seen = w]
      = [of |-> it.of, next |-> q, dir |-> it.dir, cur |-> n, ended |-> e,
         start |-> it.start, seen |-> w]

LEMMA Advanced ==
    ASSUME NEW it \in IterType, NEW n, NEW q, NEW e, NEW w
    PROVE  Advances(it, n, q, e, w)
<1> DEFINE D == {"of", "next", "dir", "cur", "ended", "start", "seen"}
<1>1. DOMAIN it = D
  BY DEF IterType
<1>2. [it EXCEPT !.cur = n, !.next = q, !.ended = e, !.seen = w]
        = [f \in D |-> IF f = "seen" THEN w ELSE IF f = "ended" THEN e
                       ELSE IF f = "next" THEN q ELSE IF f = "cur" THEN n ELSE it[f]]
  BY <1>1
<1>. QED  BY <1>2 DEF Advances

\* The first of the values that are left joins those that were met.
LEMMA AppendConcat ==
    ASSUME NEW X, NEW x \in Seq(X), NEW y \in Seq(X), NEW z \in Seq(X), NEW v,
           Len(x) >= 1, Len(y) = Len(x) - 1, x[1] = v, \A k \in 1 .. Len(y) : y[k] = x[k + 1]
    PROVE  Append(z, v) \o y = z \o x
<1>1. Len(x) \in Nat /\ Len(z) \in Nat /\ v \in X /\ Len(y) \in Nat
  BY 1 \in 1 .. Len(x)
<1>2. PICK p \in Seq(X) : p = Append(z, v)
  <2>1. Append(z, v) \in Seq(X)
    BY ONLY <1>1, z \in Seq(X)
  <2>. QED  BY <2>1
<1>3. Len(p) = Len(z) + 1 /\ p[Len(z) + 1] = v /\ \A k \in 1 .. Len(z) : p[k] = z[k]
  BY <1>1, <1>2
<1>4. /\ p \o y \in Seq(X) /\ Len(p \o y) = Len(p) + Len(y)
      /\ \A j \in 1 .. Len(p) : (p \o y)[j] = p[j]
      /\ \A j \in 1 .. Len(y) : (p \o y)[Len(p) + j] = y[j]
  BY ConcatValues
<1>5. /\ z \o x \in Seq(X) /\ Len(z \o x) = Len(z) + Len(x)
      /\ \A j \in 1 .. Len(z) : (z \o x)[j] = z[j]
      /\ \A j \in 1 .. Len(x) : (z \o x)[Len(z) + j] = x[j]
  BY ConcatValues
<1>6. PICK a : a = p \o y
  OBVIOUS
<1>7. PICK b : b = z \o x
  OBVIOUS
<1>8. Len(a) = Len(b) /\ Len(a) = Len(z) + Len(x)
  <2>1. Len(a) = (Len(z) + 1) + Len(y) /\ Len(b) = Len(z) + Len(x)
    BY <1>3, <1>4, <1>5, <1>6, <1>7
  <2>2. Len(y) = Len(x) - 1
    OBVIOUS
  <2>. QED  BY ONLY <1>1, <2>1, <2>2
<1>9. ASSUME NEW j \in 1 .. Len(a)  PROVE a[j] = b[j]
  <2>1. CASE j <= Len(z)
    <3>1. j \in 1 .. Len(z) /\ j \in 1 .. Len(p)
      BY <1>1, <1>3, <2>1
    <3>. QED  BY <1>3, <1>4, <1>5, <1>6, <1>7, <3>1
  <2>2. CASE j = Len(z) + 1
    <3>1. j \in 1 .. Len(p) /\ 1 \in 1 .. Len(x)
      BY <1>1, <1>3, <2>2
    <3>2. a[j] = v
      BY <1>3, <1>4, <1>6, <2>2, <3>1
    <3>3. b[Len(z) + 1] = x[1]
      BY <1>5, <1>7, <3>1
    <3>. QED  BY <2>2, <3>2, <3>3
  <2>3. CASE j > Len(z) + 1
    <3>1. PICK k \in Nat : j = Len(z) + 1 + k /\ k \in 1 .. Len(y)
      <4>1. j - Len(z) - 1 \in 1 .. Len(y) /\ j = Len(z) + 1 + (j - Len(z) - 1)
        BY <1>1, <1>8, <2>3
      <4>. QED  BY <4>1
    <3>2. j = Len(p) + k /\ j = Len(z) + (k + 1) /\ k + 1 \in 1 .. Len(x)
      BY <1>1, <1>3, <3>1
    <3>3. a[j] = y[k]
      BY <1>4, <1>6, <3>1, <3>2
    <3>4. b[j] = x[k + 1]
      BY <1>5, <1>7, <3>2
    <3>. QED  BY <3>1, <3>3, <3>4
  <2>. QED  BY <1>1, <1>8, <2>1, <2>2, <2>3
<1>10. a \in Seq(X) /\ b \in Seq(X)
  BY <1>4, <1>5, <1>6, <1>7
<1>11. a = b
  <2>1. a = [j \in 1 .. Len(a) |-> a[j]] /\ b = [j \in 1 .. Len(b) |-> b[j]]
    BY ONLY <1>10
  <2>. QED  BY ONLY <1>8, <1>9, <2>1, Zenon
<1>. QED  BY <1>2, <1>6, <1>7, <1>11

LEMMA NextStep ==
    ASSUME Types, NEW s, Fit(s), listNext
    PROVE  Types' /\ Fit(s)'
<1>1. Shape(node, list, used, s) /\ IterFits(iter, node, live, s) /\ iter \in IterType
  BY DEF Fit, Ordered, Types
<1>2. PICK n : n = iter.next
  OBVIOUS
<1>3. PICK q : q = Step(n, IF iter.dir = "head" THEN "next" ELSE "prev")
  OBVIOUS
<1>4. PICK w : w = IF n = Nil THEN iter.seen ELSE Append(iter.seen, node[n].value)
  OBVIOUS
<1>5. /\ copying = Idle /\ iter.of # "none" /\ ~iter.ended /\ UNCHANGED <<heap, copying, status>>
      /\ iter' = [iter EXCEPT !.cur = n, !.next = q, !.ended = (n = Nil), !.seen = w]
  BY <1>2, <1>3, <1>4 DEF listNext
<1>6. PICK r : Rest(iter, node, s[iter.of], r)
  BY <1>1, <1>5 DEF IterFits
<1>7. iter.of \in live /\ iter.of \in Lists
  BY <1>1, <1>5 DEF IterFits, IterType
<1>8. /\ r \in Seq(Nodes) /\ Distinct(r) /\ Range(r) \subseteq Range(s[iter.of]) /\ n = At(r, 1)
      /\ \A k \in 1 .. Len(r) : Ahead(node, r[k], iter.dir) = At(r, k + 1)
      /\ iter.start = iter.seen \o Vals(node, r)
  BY <1>2, <1>6 DEF Rest
<1>9. node \in HeapNodes /\ iter.seen \in Seq(V) /\ iter.dir \in {"head", "tail"} /\ iter.start \in Seq(V)
  BY <1>1 DEF Shape, IterType
<1>10. PICK jt : jt = [of |-> iter.of, next |-> q, dir |-> iter.dir, cur |-> n,
                       ended |-> (n = Nil), start |-> iter.start, seen |-> w]
  OBVIOUS
<1>11. iter' = jt
  <2>1. PICK e \in BOOLEAN : e = (n = Nil)
    OBVIOUS
  <2>2. Advances(iter, n, q, e, w)
    BY <1>1, Advanced
  <2>3. iter' = [iter EXCEPT !.cur = n, !.next = q, !.ended = e, !.seen = w]
    BY <1>5, <2>1, Zenon
  <2>4. jt = [of |-> iter.of, next |-> q, dir |-> iter.dir, cur |-> n, ended |-> e,
              start |-> iter.start, seen |-> w]
    BY <1>10, <2>1, Zenon
  <2>. QED  BY <2>2, <2>3, <2>4, Zenon DEF Advances
<1>12. CASE r = <<>>
  <2>1. n = Nil /\ q = Nil /\ w = iter.seen
    BY <1>3, <1>4, <1>8, <1>12 DEF At, Step
  <2>2. iter' \in IterType
    BY <1>1, <1>10, <1>11, <2>1 DEF IterType
  <2>3. Rest(iter', node, s[iter.of], r)
    <3>1. /\ iter'.next = Nil /\ iter'.cur = Nil /\ iter'.dir = iter.dir /\ iter'.start = iter.start
          /\ iter'.seen = iter.seen
      BY <1>10, <1>11, <2>1
    <3>2. Nil \notin Range(r)
      BY <1>12, RangeEmpty
    <3>. QED  BY <1>2, <1>8, <1>12, <2>1, <3>1, <3>2 DEF Rest
  <2>4. iter'.of = iter.of
    BY <1>10, <1>11
  <2>5. IterFits(iter', node, live, s)
    BY <1>7, <2>3, <2>4 DEF IterFits
  <2>. QED  BY <1>5, <2>2, <2>5, IterStep
<1>13. CASE r # <<>>
  <2>1. /\ Len(r) \in Nat /\ Len(r) >= 1 /\ 1 \in 1 .. Len(r) /\ r[1] \in Nodes /\ r[1] # Nil
    BY <1>8, <1>13, NilNoNode
  <2>2. n = r[1] /\ n = Head(r) /\ n \in Nodes /\ n # Nil
    BY <1>8, <1>13, <2>1 DEF At
  <2>3. q = At(r, 2)
    <3>1. Ahead(node, n, iter.dir) = At(r, 1 + 1)
      BY <1>8, <2>1, <2>2
    <3>. QED  BY <1>3, <1>9, <2>2, <3>1 DEF Ahead, Step
  <2>4. PICK v \in V : v = node[n].value
    BY <1>9, <2>2 DEF HeapNodes, V
  <2>5. w = Append(iter.seen, v)
    BY <1>4, <2>2, <2>4
  <2>6. PICK u : u = Tail(r)
    OBVIOUS
  <2>7. /\ u \in Seq(Nodes) /\ Len(u) = Len(r) - 1 /\ Distinct(u) /\ n \notin Range(u)
        /\ \A k \in 1 .. Len(u) : u[k] = r[k + 1] /\ k + 1 \in 1 .. Len(r)
    BY <1>8, <1>13, <2>1, <2>2, <2>6, DistinctTail
  <2>8. Range(u) \subseteq Range(r)
    BY <1>8, <1>13, <2>6, RangeTail
  <2>9. \A k \in 1 .. Len(u) + 1 : At(u, k) = At(r, k + 1)
    BY <2>1, <2>7 DEF At
  <2>10. \A k \in 1 .. Len(u) : Ahead(node, u[k], iter.dir) = At(u, k + 1)
    <3>1. ASSUME NEW k \in 1 .. Len(u)  PROVE Ahead(node, u[k], iter.dir) = At(u, k + 1)
      <4>1. k + 1 \in 1 .. Len(u) + 1 /\ k + 1 \in 1 .. Len(r) /\ u[k] = r[k + 1]
        BY <2>1, <2>7
      <4>2. Ahead(node, r[k + 1], iter.dir) = At(r, (k + 1) + 1)
        BY <1>8, <4>1
      <4>. QED  BY <2>9, <4>1, <4>2
    <3>. QED  BY <3>1
  <2>11. q = At(u, 1)
    <3>1. 1 \in 1 .. Len(u) + 1 /\ 1 + 1 = 2
      BY <2>1, <2>7
    <3>. QED  BY <2>3, <2>9, <3>1
  <2>12. iter.start = w \o Vals(node, u)
    <3>1. PICK x \in Seq(V) : x = Vals(node, r)
      BY <1>8, <1>9, ValsType
    <3>2. PICK y \in Seq(V) : y = Vals(node, u)
      BY <1>9, <2>7, ValsType
    <3>3. Len(x) = Len(r) /\ Len(y) = Len(r) - 1 /\ x[1] = v /\ \A k \in 1 .. Len(y) : y[k] = x[k + 1]
      <4>1. Len(x) = Len(r) /\ Len(y) = Len(u)
        BY <1>8, <1>9, <2>7, <3>1, <3>2, ValsType
      <4>2. x[1] = v
        BY <2>1, <2>2, <2>4, <3>1 DEF Vals
      <4>3. \A k \in 1 .. Len(u) : y[k] = x[k + 1]
        BY <2>7, <3>1, <3>2 DEF Vals
      <4>. QED  BY <2>7, <4>1, <4>2, <4>3
    <3>4. PICK z \in Seq(V) : z = iter.seen
      BY <1>9
    <3>5. Append(z, v) \o y = z \o x
      BY <2>1, <3>3, AppendConcat, SMTT(30)
    <3>. QED  BY <1>8, <2>5, <3>1, <3>2, <3>4, <3>5
  <2>13. iter' \in IterType
    <3>1. q \in Nodes \cup {Nil}
      BY <1>8, <2>3, AtType
    <3>2. w \in Seq(V)
      BY <1>9, <2>4, <2>5
    <3>. QED  BY <1>1, <1>10, <1>11, <2>2, <3>1, <3>2 DEF IterType
  <2>14. Rest(iter', node, s[iter.of], u)
    <3>1. /\ iter'.next = q /\ iter'.cur = n /\ iter'.dir = iter.dir /\ iter'.start = iter.start
          /\ iter'.seen = w /\ iter'.ended = FALSE
      BY <1>10, <1>11, <2>2
    <3>. QED  BY <1>8, <2>7, <2>8, <2>10, <2>11, <2>12, <3>1 DEF Rest
  <2>15. iter'.of = iter.of
    BY <1>10, <1>11
  <2>16. IterFits(iter', node, live, s)
    BY <1>7, <2>14, <2>15 DEF IterFits
  <2>. QED  BY <1>5, <2>13, <2>16, IterStep
<1>. QED  BY <1>12, <1>13

LEMMA ReleaseIteratorStep ==
    ASSUME Types, NEW s, Fit(s), listReleaseIterator
    PROVE  Types' /\ Fit(s)'
<1>1. copying = Idle /\ iter' = NoIter /\ UNCHANGED <<heap, copying, status>>
  BY DEF listReleaseIterator
<1>2. iter' \in IterType /\ iter'.of = "none"
  BY <1>1 DEF NoIter, IterType
<1>3. IterFits(iter', node, live, s)
  BY <1>2 DEF IterFits
<1>. QED  BY <1>1, <1>2, <1>3, IterStep

-----------------------------------------------------------------------------
(* Steps of listDup.                                                        *)

LEMMA DupStartStep ==
    ASSUME Types, NEW s, Fit(s), DupStart
    PROVE  Types' /\ Fit(s)'
<1>1. Shape(node, list, used, s) /\ IterFits(iter, node, live, s) /\ \A m \in Lists : m \notin live => s[m] = <<>>
  BY DEF Fit, Ordered
<1>2. copying = Idle /\ "orig" \in live /\ "copy" \notin live /\ UNCHANGED <<iter, use>>
  BY DEF DupStart, heap
<1>3. CASE status' = "wild" /\ UNCHANGED <<heap, copying>>
  BY <1>2, <1>3 DEF heap, Fit, Types
<1>4. CASE /\ live' = live \cup {"copy"} /\ list' = [list EXCEPT !["copy"] = EmptyList]
           /\ \/ copying' = list["orig"].head /\ UNCHANGED status
              \/ status' = "null" /\ UNCHANGED copying
           /\ UNCHANGED <<use, node, used, freed>>
  <2>1. "orig" \in Lists /\ "copy" \in Lists /\ s["copy"] = <<>>
    BY <1>1, <1>2 DEF Lists
  <2>2. Shape(node, list', used, s)
    BY <1>1, <1>4, <2>1, ShapeBlank
  <2>3. IterFits(iter, node, live', s) /\ iter.of # "copy"
    BY <1>1, <1>2, <1>4 DEF IterFits
  <2>4. list["orig"].head = At(s["orig"], 1) /\ Len(s["orig"]) \in Nat /\ s["orig"] \in Seq(Nodes)
    BY <1>1, <2>1, ShapeFacts
  <2>5. live' = Lists
    BY <1>2, <1>4 DEF Types, Lists
  <2>6. At(s["orig"], 1) \in Nodes \cup {Nil}
    BY <2>4, AtType
  <2>7. copying' \in Nodes \cup {Nil, Idle}
    BY <1>2, <1>4, <2>4, <2>6
  <2>8. CopyFits(copying', node, live', iter, s, use.methods)
    <3>1. CASE copying' = list["orig"].head
      <4>1. Len(<<>>) = 0 /\ 0 + 1 = 1 /\ 1 .. 0 = {}
        OBVIOUS
      <4>2. Copied(copying', node, s["orig"], s["copy"], use.methods)
        BY <2>1, <2>4, <3>1, <4>1 DEF Copied
      <4>. QED  BY <2>3, <2>5, <4>2 DEF CopyFits
    <3>2. CASE UNCHANGED copying
      BY <1>2, <3>2, IdleFits
    <3>. QED  BY <1>4, <3>1, <3>2
  <2>9. Types'
    BY <1>2, <1>4, <2>5, <2>7 DEF Types
  <2>10. \A m \in Lists : m \notin live' => s[m] = <<>>
    BY <1>1, <1>4
  <2>. QED  BY <1>2, <1>4, <2>2, <2>3, <2>8, <2>9, <2>10 DEF Fit, Ordered
<1>. QED  BY <1>3, <1>4 DEF DupStart

LEMMA DupEndStep ==
    ASSUME Types, NEW s, Fit(s), DupEnd
    PROVE  Types' /\ Fit(s)'
<1>1. copying' = Idle /\ UNCHANGED <<use, node, used, list, live, freed, iter, status>>
  BY DEF DupEnd, heap
<1>2. CopyFits(copying', node, live, iter, s, use.methods)
  BY <1>1, IdleFits
<1>. QED  BY <1>1, <1>2 DEF Fit, Ordered, Types

\* One node joins list l behind its i-th.
Grows(s, l, i, n, v) ==
    /\ node' = Joined(node, s[l], i, n, v)
    /\ list' = [list EXCEPT ![l] = JoinedHeader(list[l], s[l], i, n)]
    /\ used' = used \cup {n}

LEMMA DupStepStep ==
    ASSUME Types, NEW s, Fit(s), DupStep
    PROVE  /\ Types' /\ live = Lists /\ UNCHANGED use
           /\ \/ /\ Discard("copy") /\ Fit(With(s, "copy", <<>>))'
              \/ /\ UNCHANGED <<live, freed>>
                 /\ \E n \in Nodes \ used, v \in Values :
                      /\ v \in CopiesOf(node[copying].value)
                      /\ Grows(s, "copy", Len(s["copy"]), n, v)
                      /\ Fit(With(s, "copy", InsertAt(s["copy"], Len(s["copy"]) + 1, n)))'
<1>1. /\ Shape(node, list, used, s) /\ IterFits(iter, node, live, s)
      /\ CopyFits(copying, node, live, iter, s, use.methods)
  BY DEF Fit, Ordered
<1>2. PICK a \in Seq(Nodes) : a = s["orig"]
  BY <1>1, ShapeFacts DEF Lists
<1>3. PICK b \in Seq(Nodes) : b = s["copy"]
  BY <1>1, ShapeFacts DEF Lists
<1>4. copying \notin {Idle, Nil} /\ UNCHANGED <<use, iter, status>>
  BY DEF DupStep
<1>5. live = Lists /\ iter.of # "copy" /\ Copied(copying, node, a, b, use.methods)
  BY <1>1, <1>2, <1>3, <1>4 DEF CopyFits
<1>6. Len(a) \in Nat /\ Len(b) \in Nat /\ "orig" \in Lists /\ "copy" \in Lists /\ "orig" # "copy"
  BY DEF Lists
<1>7. PICK k : k = Len(b) + 1
  OBVIOUS
<1>8. k \in 1 .. Len(a) /\ copying = a[k]
  BY <1>4, <1>5, <1>6, <1>7 DEF Copied, At
<1>9. /\ \A j \in 1 .. Len(a) : a[j] \in used /\ a[j] \in Nodes /\ a[j] \in Range(a)
      /\ \A j \in 1 .. Len(b) : b[j] \in used /\ b[j] \in Nodes
      /\ Linked(node, list["orig"], a)
  BY <1>1, <1>2, <1>3, <1>6, ShapeFacts
<1>10. CASE \E v \in CopiesOf(node[copying].value) :
              /\ Room # {} /\ used' = used \cup {FreshNode}
              /\ PushTail("copy", FreshNode, v)
              /\ copying' = node[copying].next /\ UNCHANGED <<live, freed>>
  <2>1. PICK v \in CopiesOf(node[copying].value) :
              /\ Room # {} /\ used' = used \cup {FreshNode}
              /\ PushTail("copy", FreshNode, v)
              /\ copying' = node[copying].next /\ UNCHANGED <<live, freed>>
    BY <1>10
  <2>2. PICK n \in Nodes \ used : n = FreshNode
    BY <2>1, FreshIs DEF Types
  <2>3. node' = Joined(node, b, Len(b), n, v) /\ list' = [list EXCEPT !["copy"] = JoinedHeader(list["copy"], b, Len(b), n)]
    BY <1>1, <1>3, <1>6, <2>1, <2>2, PushTailJoins
  <2>4. node[copying].value \in Values
    BY <1>8, <1>9 DEF Types
  <2>5. /\ v \in Values /\ Key(v) = Key(node[copying].value)
        /\ "dup" \in use.methods => v \notin Held
    BY <2>1, <2>4 DEF CopiesOf
  <2>6. copying' = At(a, k + 1)
    BY <1>8, <1>9, <2>1 DEF Linked
  <2>7. copying' \in Nodes \cup {Nil, Idle}
    <3>1. k + 1 \in Int
      BY <1>8
    <3>. QED  BY <2>6, <3>1, AtType
  <2>8. PICK c : c = InsertAt(b, Len(b) + 1, n)
    OBVIOUS
  <2>9. PICK t : t = With(s, "copy", c)
    OBVIOUS
  <2>10. t["copy"] = c /\ t["orig"] = a
    BY <1>2, <1>6, <2>9 DEF With
  <2>11. c \in Seq(Nodes) /\ Len(c) = k /\ (\A j \in 1 .. Len(b) : c[j] = b[j]) /\ c[k] = n
    <3>1. Len(b) \in 0 .. Len(b) /\ n \in Nodes
      BY <1>6
    <3>2. c \in Seq(Nodes) /\ Len(c) = Len(b) + 1 /\ Gains(c, b, Len(b), n)
      <4>1. PICK i \in 0 .. Len(b) : i = Len(b)
        BY <3>1
      <4>2. c = InsertAt(b, i + 1, n)
        BY <2>8, <4>1
      <4>3. c \in Seq(Nodes) /\ Len(c) = Len(b) + 1 /\ Gains(c, b, i, n)
        BY <3>1, <4>2, InsertAtValues
      <4>. QED  BY <4>1, <4>3
    <3>3. \A j \in 1 .. Len(b) : j \in 1 .. Len(c) /\ j <= Len(b)
      BY <1>6, <3>2
    <3>4. k \in 1 .. Len(c) /\ ~(k <= Len(b))
      BY <1>6, <1>7, <3>2
    <3>. QED  BY <1>7, <3>2, <3>3, <3>4 DEF Gains
  <2>12. node \in HeapNodes
    BY <1>1 DEF Shape
  <2>13. node'[n].value = v /\ \A m \in Nodes : m # n => node'[m].value = node[m].value
    <3>1. n \in Nodes /\ Len(b) \in 0 .. Len(b)
      BY <1>6
    <3>2. node'[n].value = v
      BY <2>3, <3>1 DEF Joined
    <3>. QED  BY <2>3, <2>12, <3>1, <3>2, JoinedOthers
  <2>14. \A j \in 1 .. Len(a) : node'[a[j]].value = node[a[j]].value
    BY <1>9, <2>2, <2>13
  <2>15. \A j \in 1 .. Len(b) : node'[c[j]].value = node[b[j]].value
    BY <1>9, <2>2, <2>11, <2>13
  <2>16. node'[c[k]].value = v
    BY <2>11, <2>13
  <2>17. \A j \in 1 .. k : j \in 1 .. Len(b) \/ j = k
    BY <1>6, <1>7
  <2>18. \A j \in 1 .. Len(b) : j \in 1 .. Len(a)
    BY <1>6, <1>7, <1>8
  <2>19. Copied(copying', node', a, c, use.methods)
    <3>1. Len(c) <= Len(a) /\ copying' = At(a, Len(c) + 1)
      BY <1>6, <1>8, <2>6, <2>11
    <3>2. ASSUME NEW j \in 1 .. Len(c)  PROVE Key(node'[c[j]].value) = Key(node'[a[j]].value)
      <4>1. CASE j = k
        BY <1>8, <2>5, <2>14, <2>16, <4>1
      <4>2. CASE j \in 1 .. Len(b)
        BY <1>5, <2>14, <2>15, <2>18, <4>2 DEF Copied
      <4>. QED  BY <2>11, <2>17, <4>1, <4>2
    <3>3. ASSUME "dup" \in use.methods, NEW i \in 1 .. Len(a), NEW j \in 1 .. Len(c)
          PROVE  node'[c[j]].value # node'[a[i]].value
      <4>1. CASE j = k
        <5>1. node[a[i]].value \in Held
          BY <1>9 DEF Held
        <5>. QED  BY <2>5, <2>14, <2>16, <3>3, <4>1, <5>1
      <4>2. CASE j \in 1 .. Len(b)
        BY <1>5, <2>14, <2>15, <3>3, <4>2 DEF Copied
      <4>. QED  BY <2>11, <2>17, <4>1, <4>2
    <3>. QED  BY <3>1, <3>2, <3>3 DEF Copied
  <2>20. CopyFits(copying', node', live, iter, t, use.methods)
    BY <1>5, <2>10, <2>19 DEF CopyFits
  <2>21. Types' /\ Fit(t)'
    <3>1. UNCHANGED <<use, live, iter, freed, status>> /\ used' = used \cup {n} /\ "copy" \in live
      BY <1>4, <1>5, <1>6, <2>1, <2>2
    <3>2. Len(b) \in 0 .. Len(b)
      BY <1>6
    <3>. QED  BY <1>3, <1>5, <1>6, <2>3, <2>5, <2>7, <2>8, <2>9, <2>20, <3>1, <3>2, InsertStep
  <2>22. Grows(s, "copy", Len(s["copy"]), n, v)
    BY <1>3, <2>1, <2>2, <2>3 DEF Grows
  <2>23. Fit(With(s, "copy", InsertAt(s["copy"], Len(s["copy"]) + 1, n)))'
    BY <1>3, <2>8, <2>9, <2>21
  <2>. QED  BY <1>4, <1>5, <2>1, <2>5, <2>21, <2>22, <2>23
<1>11. CASE Discard("copy") /\ copying' = Idle
  <2>1. PICK t : t = With(s, "copy", <<>>)
    OBVIOUS
  <2>2. Types' /\ Fit(t)'
    BY <1>4, <1>5, <1>6, <1>11, <2>1, DiscardStep
  <2>. QED  BY <1>4, <1>5, <1>11, <2>1, <2>2
<1>. QED  BY <1>10, <1>11 DEF DupStep

Adds(l, v) ==
    \/ listAddNodeHead(l, v) \/ listAddNodeTail(l, v)
    \/ \E old \in Nodes, after \in BOOLEAN : listInsertNode(l, old, v, after)

LEMMA AddsGrow ==
    ASSUME Types, NEW s, Fit(s), NEW l \in Lists, NEW v \in Values, Adds(l, v)
    PROVE  Insertion(l, v) /\ \E i \in 0 .. Len(s[l]), n \in Nodes \ used : Grows(s, l, i, n, v)
<1>1. Shape(node, list, used, s) /\ use \in Uses
  BY DEF Fit, Ordered, Types
<1>2. Insertion(l, v)
  BY DEF Adds, listAddNodeHead, listAddNodeTail, listInsertNode
<1>3. PICK n \in Nodes \ used : n = FreshNode
  BY <1>1, <1>2, FreshIs DEF Insertion
<1>4. used' = used \cup {n}
  BY <1>2, <1>3 DEF Insertion
<1>5. Len(s[l]) \in Nat
  BY <1>1, ShapeFacts
<1>6. CASE listAddNodeHead(l, v)
  <2>1. PushHead(l, n, v)
    BY <1>3, <1>6 DEF listAddNodeHead
  <2>2. Grows(s, l, 0, n, v)
    BY <1>1, <1>4, <2>1, PushHeadJoins DEF Grows
  <2>. QED  BY <1>2, <1>5, <2>2
<1>7. CASE listAddNodeTail(l, v)
  <2>1. PushTail(l, n, v)
    BY <1>3, <1>7 DEF listAddNodeTail
  <2>2. PICK i \in 0 .. Len(s[l]) : i = Len(s[l])
    BY <1>5
  <2>3. Grows(s, l, i, n, v)
    BY <1>1, <1>4, <2>1, <2>2, PushTailJoins DEF Grows
  <2>. QED  BY <1>2, <2>3
<1>8. CASE \E old \in Nodes, after \in BOOLEAN : listInsertNode(l, old, v, after)
  <2>1. PICK i \in 0 .. Len(s[l]) :
          /\ node' = Joined(node, s[l], i, n, v)
          /\ list' = [list EXCEPT ![l] = JoinedHeader(list[l], s[l], i, n)]
    BY <1>1, <1>3, <1>8, InsertNodeJoins
  <2>2. Grows(s, l, i, n, v)
    BY <1>4, <2>1 DEF Grows
  <2>. QED  BY <1>2, <2>2
<1>. QED  BY <1>6, <1>7, <1>8 DEF Adds

LEMMA AddsStep ==
    ASSUME Types, NEW s, Fit(s), NEW l \in Lists, NEW v \in Values, Insertion(l, v),
           NEW i \in 0 .. Len(s[l]), NEW n \in Nodes \ used, Grows(s, l, i, n, v),
           NEW t, t = With(s, l, InsertAt(s[l], i + 1, n))
    PROVE  Types' /\ Fit(t)'
<1>1. /\ UNCHANGED <<use, live, iter, copying, freed, status>>
      /\ l \in live /\ iter.of # l /\ copying = Idle
  BY DEF Insertion, Quiet
<1>2. CopyFits(copying', node', live, iter, t, use.methods) /\ copying' \in Nodes \cup {Nil, Idle}
  BY <1>1, IdleFits
<1>. QED  BY <1>1, <1>2, InsertStep DEF Grows

LEMMA DelNodeStep ==
    ASSUME Types, NEW s, Fit(s), NEW l \in Lists, NEW n \in Nodes, listDelNode(l, n)
    PROVE  /\ Types' /\ l \in live
           /\ \E k \in 1 .. Len(s[l]) :
                /\ s[l][k] = n /\ Fit(With(s, l, RemoveAt(s[l], k)))'
                /\ node' = Parted(node, s[l], k)
<1>1. l \in live
  BY DEF listDelNode, Quiet, Fit, Ordered, IterFits, Lists
<1>. QED  BY <1>1, DeleteStep

-----------------------------------------------------------------------------
(* The invariant holds.                                                     *)

LEMMA AdInit == Init => AdInv
<1>. SUFFICES ASSUME Init  PROVE AdInv
  OBVIOUS
<1>1. PICK s : s = [l \in Lists |-> <<>>]
  OBVIOUS
<1>2. node \in HeapNodes /\ list \in HeapHeaders /\ s \in [Lists -> Seq(Nodes)] /\ used = {}
  BY <1>1 DEF Init, HeapNodes, HeapHeaders, BlankNode, EmptyList
<1>3. \A l \in Lists : s[l] = <<>> /\ list[l] = EmptyList /\ Range(s[l]) = {}
  BY <1>1, RangeEmpty DEF Init
<1>4. Linked(node, EmptyList, <<>>)
  BY DEF Linked, EmptyList, At, Distinct
<1>5. Shape(node, list, used, s)
  <2>1. \A l \in Lists : Linked(node, list[l], s[l])
    BY <1>3, <1>4
  <2>2. \A n \in Nodes \ used : node[n] = BlankNode
    BY DEF Init
  <2>. QED  BY <1>2, <1>3, <2>1, <2>2 DEF Shape
<1>6. iter \in IterType /\ iter.of = "none"
  BY DEF Init, NoIter, IterType
<1>7. IterFits(iter, node, live, s) /\ CopyFits(copying, node, live, iter, s, use.methods)
  BY <1>6, IdleFits DEF Init, IterFits
<1>8. Types
  BY <1>6 DEF Init, Types
<1>. QED  BY <1>3, <1>5, <1>7, <1>8 DEF AdInv, Ordered

LEMMA AdNext == AdInv /\ [Next]_vars => AdInv'
<1>. SUFFICES ASSUME AdInv, [Next]_vars  PROVE AdInv'
  OBVIOUS
<1>1. PICK s : Types /\ Fit(s)
  BY DEF AdInv, Fit
<1>. SUFFICES Types' /\ \E t : Fit(t)'
  BY DEF AdInv, Fit
<1>2. \A v \in use.values : v \in Values
  BY <1>1, UsesAssumption DEF Types
<1>3. CASE UNCHANGED vars
  BY <1>1, <1>3 DEF vars, Types, Fit
<1>4. ASSUME NEW l \in Lists, Caller(l)  PROVE Types' /\ \E t : Fit(t)'
  <2>1. CASE listCreate(l)
    BY <1>1, <2>1, CreateStep
  <2>2. CASE listRelease(l)
    <3>1. Discard(l) /\ iter.of # l /\ copying' = Idle /\ UNCHANGED <<use, iter, status>>
      BY <2>2 DEF listRelease, Quiet
    <3>2. PICK t : t = With(s, l, <<>>)
      OBVIOUS
    <3>. QED  BY <1>1, <3>1, <3>2, DiscardStep
  <2>3. CASE listRotate(l)
    <3>1. PICK t : t = With(s, l, Turned(s[l]))
      OBVIOUS
    <3>. QED  BY <1>1, <2>3, <3>1, RotateStep
  <2>4. CASE \E v \in use.values : Adds(l, v)
    <3>1. PICK v \in Values : Adds(l, v)
      BY <1>2, <2>4
    <3>2. Insertion(l, v) /\ \E i \in 0 .. Len(s[l]), n \in Nodes \ used : Grows(s, l, i, n, v)
      BY <1>1, <3>1, AddsGrow
    <3>3. PICK i \in 0 .. Len(s[l]), n \in Nodes \ used : Grows(s, l, i, n, v)
      BY <3>2
    <3>4. PICK t : t = With(s, l, InsertAt(s[l], i + 1, n))
      OBVIOUS
    <3>. QED  BY <1>1, <3>2, <3>3, <3>4, AddsStep
  <2>7. CASE \E n \in Nodes : listDelNode(l, n)
    BY <1>1, <2>7, DelNodeStep
  <2>8. CASE \E dir \in {"head", "tail"} : listGetIterator(l, dir)
    BY <1>1, <2>8, GetIteratorStep
  <2>9. CASE SearchFails(l)
    BY <1>1, <2>9 DEF SearchFails, heap, Types, Fit
  <2>. QED  BY <1>4, <2>1, <2>2, <2>3, <2>4, <2>7, <2>8, <2>9 DEF Caller, Adds
<1>5. CASE listNext
  BY <1>1, <1>5, NextStep
<1>6. CASE listReleaseIterator
  BY <1>1, <1>6, ReleaseIteratorStep
<1>7. CASE DupStart
  BY <1>1, <1>7, DupStartStep
<1>8. CASE DupStep
  BY <1>1, <1>8, DupStepStep
<1>9. CASE DupEnd
  BY <1>1, <1>9, DupEndStep
<1>. QED  BY <1>3, <1>4, <1>5, <1>6, <1>7, <1>8, <1>9 DEF Next

LEMMA AdAlways == Spec => []AdInv
BY AdInit, AdNext, PTL DEF Spec

-----------------------------------------------------------------------------
(* What follows from it.                                                    *)

\* A list is no longer than the memory.
LEMMA ListFits ==
    ASSUME NEW c \in Seq(Nodes), Distinct(c)
    PROVE  Len(c) \in 0 .. Cardinality(Nodes)
<1>1. Len(c) \in Nat /\ IsFiniteSet(Nodes)
  BY NodesAssumption
<1>2. c \in Injection(1 .. Len(c), Nodes)
  BY DEF Injection, IsInjective, Distinct
<1>3. Cardinality(1 .. Len(c)) <= Cardinality(Nodes)
  BY <1>1, <1>2, FS_Injection
<1>4. Cardinality(1 .. Len(c)) = Len(c)
  BY <1>1, FS_Interval, SMTT(30)
<1>5. Cardinality(Nodes) \in Nat
  BY <1>1, FS_CardinalityType
<1>. QED  BY <1>1, <1>3, <1>4, <1>5

LEMMA AdExact == AdInv => ListsExact
<1>. SUFFICES ASSUME AdInv  PROVE ListsExact
  OBVIOUS
<1>1. PICK s : Types /\ Fit(s)
  BY DEF AdInv, Fit
<1>2. Shape(node, list, used, s) /\ \A m \in Lists : m \notin live => s[m] = <<>>
  BY <1>1 DEF Fit, Ordered
<1>3. \A l \in Lists : Chain(l) = s[l]
  BY <1>2, ChainIs
<1>4. TypeOK
  <2>1. \A l \in Lists : list[l].len \in 0 .. Cardinality(Nodes)
    BY <1>2, ShapeFacts, ListFits
  <2>2. node \in HeapNodes /\ list \in HeapHeaders /\ used \subseteq Nodes
    BY <1>2 DEF Shape
  <2>3. list \in [Lists -> [head : Nodes \cup {Nil}, tail : Nodes \cup {Nil}, len : 0 .. Cardinality(Nodes)]]
    BY <2>1, <2>2 DEF HeapHeaders
  <2>. QED  BY <1>1, <2>2, <2>3 DEF TypeOK, Types, HeapNodes, IterType
<1>5. ASSUME NEW l \in live
      PROVE  /\ \A k \in 1 .. list[l].len : Chain(l)[k] \in used
             /\ Walk(list[l].head, "next", list[l].len) = Nil
             /\ Walk(list[l].tail, "prev", list[l].len) = Nil
             /\ \A k \in 1 .. list[l].len : Walk(list[l].tail, "prev", list[l].len - k) = Chain(l)[k]
  <2>1. l \in Lists
    BY <1>1 DEF Types
  <2>2. PICK c \in Seq(Nodes) : c = s[l]
    BY <1>2, <2>1, ShapeFacts
  <2>3. /\ list[l].len = Len(c) /\ Len(c) \in Nat /\ Chain(l) = c /\ Linked(node, list[l], c)
        /\ \A k \in 1 .. Len(c) : c[k] \in used
    BY <1>2, <1>3, <2>1, <2>2, ShapeFacts
  <2>4. Walk(list[l].head, "next", Len(c)) = At(c, Len(c) + 1)
    BY <2>3, WalksAt
  <2>5. Walk(list[l].tail, "prev", Len(c)) = At(c, Len(c) - Len(c))
    BY <2>3, WalksAt
  <2>6. At(c, Len(c) + 1) = Nil /\ At(c, Len(c) - Len(c)) = Nil
    BY <2>3 DEF At
  <2>7. ASSUME NEW k \in 1 .. Len(c)  PROVE Walk(list[l].tail, "prev", Len(c) - k) = c[k]
    <3>1. Len(c) - k \in Nat /\ Len(c) - (Len(c) - k) = k
      BY <2>3
    <3>2. Walk(list[l].tail, "prev", Len(c) - k) = At(c, Len(c) - (Len(c) - k))
      BY <2>3, <3>1, WalksAt
    <3>. QED  BY <3>1, <3>2 DEF At
  <2>. QED  BY <2>3, <2>4, <2>5, <2>6, <2>7
<1>6. used = UNION {Range(Chain(l)) : l \in live}
  <2>1. ASSUME NEW x \in used  PROVE x \in UNION {Range(Chain(l)) : l \in live}
    <3>1. PICK l \in Lists : x \in Range(s[l])
      BY <1>2 DEF Shape
    <3>2. l \in live
      BY <1>2, <3>1, RangeEmpty
    <3>. QED  BY <1>3, <3>1, <3>2
  <2>2. ASSUME NEW l \in live, NEW x \in Range(Chain(l))  PROVE x \in used
    BY <1>1, <1>2, <1>3, <2>2 DEF Shape, Types
  <2>. QED  BY <2>1, <2>2
<1>7. \A l, m \in live : l # m => Range(Chain(l)) \cap Range(Chain(m)) = {}
  BY <1>1, <1>2, <1>3 DEF Shape, Types
<1>. QED  BY <1>4, <1>5, <1>6, <1>7 DEF ListsExact

(* For every memory, values and callers: each list reads the same from both *)
(* ends and counts its nodes, lists share no node, none leaks, under every  *)
(* order of additions, deletions, rotations, releases, iterations and       *)
(* copies, those that run out of memory included.                           *)
THEOREM AdListsExact == Spec => []ListsExact
BY AdAlways, AdExact, PTL

LEMMA AdIter == AdInv => IterComplete
<1>. SUFFICES ASSUME AdInv, iter.of # "none"
     PROVE  /\ iter.next \in used \cup {Nil} /\ IsPrefix(iter.seen, iter.start)
            /\ iter.ended => iter.seen = iter.start
  BY DEF IterComplete
<1>1. PICK s : Types /\ Fit(s)
  BY DEF AdInv, Fit
<1>2. Shape(node, list, used, s) /\ IterFits(iter, node, live, s) /\ iter \in IterType
  BY <1>1 DEF Fit, Ordered, Types
<1>3. PICK r : Rest(iter, node, s[iter.of], r)
  BY <1>2 DEF IterFits
<1>4. iter.of \in Lists /\ node \in HeapNodes
  BY <1>2 DEF IterType, Shape
<1>5. /\ r \in Seq(Nodes) /\ Range(r) \subseteq Range(s[iter.of]) /\ iter.next = At(r, 1)
      /\ iter.start = iter.seen \o Vals(node, r) /\ (iter.ended => r = <<>>)
  BY <1>3 DEF Rest
<1>6. iter.next \in used \cup {Nil}
  <2>1. Range(s[iter.of]) \subseteq used
    BY <1>2, <1>4, ShapeFacts
  <2>. QED  BY <1>5, <2>1, AtType
<1>7. PICK p \in Seq(V) : p = iter.seen
  BY <1>2 DEF IterType
<1>8. PICK w \in Seq(V) : w = Vals(node, r)
  BY <1>4, <1>5, ValsType
<1>9. IsPrefix(p, p \o w)
  <2>1. /\ Len(p) \in Nat /\ Len(w) \in Nat /\ p \o w \in Seq(V) /\ Len(p \o w) = Len(p) + Len(w)
        /\ \A j \in 1 .. Len(p) : (p \o w)[j] = p[j]
    BY ConcatValues
  <2>2. PICK q : q = p \o w
    OBVIOUS
  <2>3. Len(p) <= Len(q) /\ q \in Seq(V) /\ \A j \in 1 .. Len(p) : q[j] = p[j]
    BY <2>1, <2>2
  <2>4. SubSeq(p, 1, Len(p)) = SubSeq(q, 1, Len(p))
    BY ONLY <2>1, <2>3, p \in Seq(V)
  <2>. QED  BY <2>2, <2>3, <2>4 DEF IsPrefix
<1>10. ASSUME iter.ended  PROVE p = p \o w
  <2>1. w = <<>>
    BY <1>5, <1>8, <1>10 DEF Vals
  <2>. QED  BY <2>1
<1>. QED  BY <1>5, <1>6, <1>7, <1>8, <1>9, <1>10

(* An iterator whose caller deletes only the node it was given last meets   *)
(* every value the list had when it started, in order, and never holds a    *)
(* freed node, however many nodes and lists there are.                      *)
THEOREM AdIterComplete == Spec => []IterComplete
BY AdAlways, AdIter, PTL

LEMMA AdCopies ==
    AdInv /\ copying = Nil =>
        /\ Keys(Contents("copy")) = Keys(Contents("orig"))
        /\ "dup" \in use.methods => Range(Contents("copy")) \cap Range(Contents("orig")) = {}
<1>. SUFFICES ASSUME AdInv, copying = Nil
     PROVE  /\ Keys(Contents("copy")) = Keys(Contents("orig"))
            /\ "dup" \in use.methods => Range(Contents("copy")) \cap Range(Contents("orig")) = {}
  OBVIOUS
<1>1. PICK s : Types /\ Fit(s)
  BY DEF AdInv, Fit
<1>2. /\ Shape(node, list, used, s) /\ CopyFits(copying, node, live, iter, s, use.methods)
      /\ "orig" \in Lists /\ "copy" \in Lists /\ copying # Idle
  BY <1>1 DEF Fit, Ordered, Lists, Nil, Idle
<1>3. PICK a \in Seq(Nodes) : a = s["orig"]
  BY <1>2, ShapeFacts
<1>4. PICK b \in Seq(Nodes) : b = s["copy"]
  BY <1>2, ShapeFacts
<1>5. Copied(Nil, node, a, b, use.methods)
  BY <1>2, <1>3, <1>4 DEF CopyFits
<1>6. Contents("orig") = Vals(node, a) /\ Contents("copy") = Vals(node, b)
  BY <1>2, <1>3, <1>4, ChainIs
<1>7. Len(a) = Len(b)
  <2>1. Nil = At(a, Len(b) + 1) /\ Len(b) <= Len(a) /\ Len(a) \in Nat /\ Len(b) \in Nat
    BY <1>5 DEF Copied
  <2>2. ~(Len(b) + 1 \in 1 .. Len(a))
    BY <2>1, NilNoNode DEF At
  <2>. QED  BY <2>1, <2>2
<1>8. \A j \in 1 .. Len(a) : Key(node[b[j]].value) = Key(node[a[j]].value)
  BY <1>5, <1>7 DEF Copied
<1>9. DOMAIN Vals(node, a) = 1 .. Len(a) /\ DOMAIN Vals(node, b) = 1 .. Len(a)
  BY <1>7 DEF Vals
<1>10. \A j \in 1 .. Len(a) : Vals(node, a)[j] = node[a[j]].value /\ Vals(node, b)[j] = node[b[j]].value
  BY <1>7 DEF Vals
<1>11. Keys(Vals(node, b)) = Keys(Vals(node, a))
  BY <1>8, <1>9, <1>10 DEF Keys
<1>12. ASSUME "dup" \in use.methods
       PROVE  Range(Vals(node, b)) \cap Range(Vals(node, a)) = {}
  <2>1. \A i, j \in 1 .. Len(a) : node[b[j]].value # node[a[i]].value
    BY <1>5, <1>7, <1>12 DEF Copied
  <2>. QED  BY <1>9, <1>10, <2>1 DEF Range
<1>. QED  BY <1>6, <1>11, <1>12

(* A copy that listDup returns has the keys of the original, in its order,  *)
(* and shares no value with it when there is a dup method.                  *)
THEOREM AdDupCopies == Spec => DupCopies
<1>1. AdInv => (copying = Nil /\ copying' = Idle =>
         /\ Keys(Contents("copy")) = Keys(Contents("orig"))
         /\ "dup" \in use.methods => Range(Contents("copy")) \cap Range(Contents("orig")) = {})
  BY AdCopies
<1>. QED  BY <1>1, AdAlways, PTL DEF DupCopies

-----------------------------------------------------------------------------
(* What the lookups find.                                                   *)

\* Nodes from which listSearchKey does not walk on.
Stops(key) == {n \in Nodes \cup {Nil} : n = Nil \/ Matches(node[n].value, key)}

\* What the walk of listSearchKey computes.
Finds(h, key) ==
    h = [n \in Nodes \cup {Nil} |->
           IF n = Nil \/ Matches(node[n].value, key) THEN n ELSE h[node[n].next]]

\* How far every node is from the end of its list.
LEMMA Distances ==
    ASSUME NEW s, Shape(node, list, used, s)
    PROVE  \E mu : /\ \A n \in Nodes \cup {Nil} : mu[n] \in Nat
                   /\ \A n \in Nodes : node[n].next \in Nodes \cup {Nil} /\ mu[node[n].next] < mu[n]
<1> DEFINE D == Nodes \cup {Nil}
           Far(n, d) == \E l \in Lists : \E k \in 1 .. Len(s[l]) : n = s[l][k] /\ d = Len(s[l]) - k + 1
           mu == [n \in D |-> IF n = Nil THEN 0 ELSE IF n \in used THEN CHOOSE d \in Nat : Far(n, d) ELSE 1]
<1>1. \A l \in Lists : s[l] \in Seq(Nodes) /\ Distinct(s[l]) /\ Len(s[l]) \in Nat /\ Linked(node, list[l], s[l])
  BY ShapeFacts
<1>2. ASSUME NEW l \in Lists, NEW k \in 1 .. Len(s[l]), NEW d \in Nat, Far(s[l][k], d)
      PROVE  d = Len(s[l]) - k + 1
  <2>0. PICK m \in Lists : \E j \in 1 .. Len(s[m]) : s[l][k] = s[m][j] /\ d = Len(s[m]) - j + 1
    BY <1>2
  <2>1. PICK j \in 1 .. Len(s[m]) : s[l][k] = s[m][j] /\ d = Len(s[m]) - j + 1
    BY <2>0
  <2>2. s[l][k] \in Range(s[l]) /\ s[m][j] \in Range(s[m])
    BY <1>1, RangeIs
  <2>3. l = m
    BY <2>1, <2>2 DEF Shape
  <2>4. j = k
    BY <1>1, <2>1, <2>3 DEF Distinct
  <2>. QED  BY <2>1, <2>3, <2>4
<1>3. ASSUME NEW l \in Lists, NEW k \in 1 .. Len(s[l])
      PROVE  mu[s[l][k]] = Len(s[l]) - k + 1
  <2>1. s[l][k] \in used /\ s[l][k] \in Nodes /\ s[l][k] # Nil
    BY ShapeFacts
  <2>2. Len(s[l]) - k + 1 \in Nat /\ Far(s[l][k], Len(s[l]) - k + 1)
    BY <1>1
  <2>3. PICK e : e = CHOOSE d \in Nat : Far(s[l][k], d)
    OBVIOUS
  <2>4. e \in Nat /\ Far(s[l][k], e)
    <3> HIDE DEF Far
    <3>. QED  BY <2>2, <2>3, Zenon
  <2>5. e = Len(s[l]) - k + 1
    BY <1>2, <2>4, ZenonT(90)
  <2>6. mu[s[l][k]] = e
    BY <2>1, <2>3, Zenon
  <2>. QED  BY <2>5, <2>6
<1>4. mu[Nil] = 0 /\ \A n \in Nodes : n \notin used => mu[n] = 1
  BY NilNoNode
<1> HIDE DEF mu
<1>5. ASSUME NEW n \in Nodes
      PROVE  mu[n] \in Nat /\ node[n].next \in Nodes \cup {Nil} /\ mu[node[n].next] < mu[n]
  <2>1. CASE n \notin used
    <3>1. node[n].next = Nil
      BY <2>1 DEF Shape, BlankNode
    <3>. QED  BY <1>4, <2>1, <3>1
  <2>2. CASE n \in used
    <3>1. PICK l \in Lists : n \in Range(s[l])
      BY <2>2 DEF Shape
    <3>2. PICK k \in 1 .. Len(s[l]) : s[l][k] = n
      BY <1>1, <3>1, RangeIs
    <3>3. mu[n] = Len(s[l]) - k + 1 /\ Len(s[l]) \in Nat
      BY <1>1, <1>3, <3>2
    <3>4. node[n].next = At(s[l], k + 1)
      BY <1>1, <3>2 DEF Linked
    <3>5. CASE k = Len(s[l])
      <4>1. node[n].next = Nil
        BY <3>3, <3>4, <3>5 DEF At
      <4>. QED  BY <1>4, <3>3, <3>5, <4>1
    <3>6. CASE k # Len(s[l])
      <4>1. k + 1 \in 1 .. Len(s[l])
        BY <3>3, <3>6
      <4>2. node[n].next = s[l][k + 1] /\ node[n].next \in Nodes
        BY <1>1, <3>4, <4>1 DEF At
      <4>3. mu[s[l][k + 1]] = Len(s[l]) - (k + 1) + 1
        BY <1>3, <4>1
      <4>. QED  BY <3>3, <4>1, <4>2, <4>3
    <3>. QED  BY <3>5, <3>6
  <2>. QED  BY <2>1, <2>2
<1>6. \A n \in Nodes \cup {Nil} : mu[n] \in Nat
  BY <1>4, <1>5
<1>. QED  BY <1>5, <1>6

LEMMA SearchDefined ==
    ASSUME NEW s, Shape(node, list, used, s), NEW l, NEW key
    PROVE  \E h : Finds(h, key) /\ listSearchKey(l, key) = h[list[l].head]
<1>1. PICK mu : /\ \A n \in Nodes \cup {Nil} : mu[n] \in Nat
                /\ \A n \in Nodes : node[n].next \in Nodes \cup {Nil} /\ mu[node[n].next] < mu[n]
  BY Distances
<1>2. PICK D : D = Nodes \cup {Nil}
  OBVIOUS
<1>3. PICK base : base = Stops(key)
  OBVIOUS
<1>4. PICK B : B = [n \in D |-> n]
  OBVIOUS
<1>5. PICK N : N = [n \in D |-> node[n].next]
  OBVIOUS
<1>6. PICK E : E = [p \in D \X D |-> p[2]]
  OBVIOUS
<1>7. \E g \in [D -> D] : Solves(g, D, base, B, N, E)
  <2>1. \A x \in D : mu[x] \in Nat
    BY <1>1, <1>2
  <2>2. \A x \in D : x \in base => B[x] \in D
    BY <1>4
  <2>3. \A x \in D : x \notin base => N[x] \in D /\ mu[N[x]] < mu[x]
    BY <1>1, <1>2, <1>3, <1>5 DEF Stops
  <2>4. \A x \in D, r \in D : x \notin base => E[<<x, r>>] \in D
    BY <1>6
  <2>. QED  BY ONLY <2>1, <2>2, <2>3, <2>4, RecursionExists
<1>8. PICK g \in [D -> D] : Solves(g, D, base, B, N, E)
  BY <1>7
<1>9. Finds(g, key)
  <2>1. ASSUME NEW n \in D
        PROVE  g[n] = IF n = Nil \/ Matches(node[n].value, key) THEN n ELSE g[node[n].next]
    <3>1. g[n] = IF n \in base THEN B[n] ELSE E[<<n, g[N[n]]>>]
      BY <1>8 DEF Solves
    <3>2. CASE n \in base
      BY <1>2, <1>3, <1>4, <3>1, <3>2 DEF Stops
    <3>3. CASE n \notin base
      <4>1. ~(n = Nil \/ Matches(node[n].value, key)) /\ n \in Nodes
        BY <1>2, <1>3, <3>3 DEF Stops
      <4>2. N[n] = node[n].next /\ N[n] \in D
        BY <1>1, <1>2, <1>5, <4>1
      <4>3. g[N[n]] \in D
        BY <4>2
      <4>4. E[<<n, g[N[n]]>>] = g[N[n]]
        BY <1>6, <4>3
      <4>. QED  BY <3>1, <3>3, <4>1, <4>2, <4>4
    <3>. QED  BY <3>2, <3>3
  <2>2. g = [n \in D |-> g[n]]
    OBVIOUS
  <2>3. g = [n \in D |-> IF n = Nil \/ Matches(node[n].value, key) THEN n ELSE g[node[n].next]]
    BY ONLY <2>1, <2>2, Zenon
  <2>. QED  BY <1>2, <2>3 DEF Finds
<1>10. PICK h : h = CHOOSE f : Finds(f, key)
  OBVIOUS
<1>11. Finds(h, key)
  BY <1>9, <1>10, Zenon
<1>12. listSearchKey(l, key) = h[list[l].head]
  BY <1>10, Zenon DEF listSearchKey, Finds
<1>. QED  BY <1>11, <1>12

\* Where the walk stops, when nothing before the m-th node of c matches.
LEMMA SearchReaches ==
    ASSUME NEW hd, NEW c, Linked(node, hd, c), NEW h, NEW key, Finds(h, key),
           NEW m \in 1 .. Len(c) + 1,
           \A j \in 1 .. m - 1 : ~Matches(node[c[j]].value, key),
           m <= Len(c) => Matches(node[c[m]].value, key)
    PROVE  h[hd.head] = At(c, m)
<1>1. /\ c \in Seq(Nodes) /\ Len(c) \in Nat /\ hd.head = At(c, 1)
      /\ \A j \in 1 .. Len(c) : node[c[j]].next = At(c, j + 1)
  BY DEF Linked
<1> DEFINE T == {j \in Nat : j < m => h[At(c, 1)] = h[At(c, j + 1)]}
<1>2. 0 \in T
  OBVIOUS
<1>3. ASSUME NEW j \in Nat, j \in T  PROVE j + 1 \in T
  <2>1. CASE ~(j + 1 < m)
    BY <2>1
  <2>2. CASE j + 1 < m
    <3>1. j + 1 \in 1 .. Len(c) /\ j + 1 \in 1 .. m - 1 /\ h[At(c, 1)] = h[At(c, j + 1)]
      BY <1>1, <1>3, <2>2
    <3>2. At(c, j + 1) = c[j + 1] /\ c[j + 1] \in Nodes /\ c[j + 1] # Nil
      BY <1>1, <3>1, NilNoNode DEF At
    <3>3. ~Matches(node[c[j + 1]].value, key)
      BY <3>1
    <3>4. h[c[j + 1]] = h[node[c[j + 1]].next]
      BY <3>2, <3>3 DEF Finds
    <3>5. node[c[j + 1]].next = At(c, (j + 1) + 1)
      BY <1>1, <3>1
    <3>. QED  BY <3>1, <3>2, <3>4, <3>5
  <2>. QED  BY <2>1, <2>2
<1> HIDE DEF T
<1>4. m - 1 \in T /\ m - 1 \in Nat /\ (m - 1) + 1 = m
  <2>1. Nat \subseteq T
    BY <1>2, <1>3, SetInduction
  <2>2. m - 1 \in Nat /\ (m - 1) + 1 = m
    BY <1>1
  <2>. QED  BY <2>1, <2>2
<1>5. h[hd.head] = h[At(c, m)]
  <2>1. m - 1 < m
    BY <1>1
  <2>. QED  BY <1>1, <1>4, <2>1 DEF T
<1>6. CASE m <= Len(c)
  <2>1. At(c, m) = c[m] /\ c[m] \in Nodes
    BY <1>1, <1>6 DEF At
  <2>2. h[c[m]] = c[m]
    BY <1>6, <2>1 DEF Finds
  <2>. QED  BY <1>5, <2>1, <2>2
<1>7. CASE m = Len(c) + 1
  <2>1. At(c, m) = Nil
    BY <1>1, <1>7 DEF At
  <2>2. h[Nil] = Nil
    BY DEF Finds
  <2>. QED  BY <1>5, <2>1, <2>2
<1>. QED  BY <1>1, <1>6, <1>7

\* The places in l where key matches.
Hit(l, key) ==
    {k \in 1 .. list[l].len : IF "match" \in use.methods
                              THEN Key(node[Chain(l)[k]].value) = Key(key)
                              ELSE node[Chain(l)[k]].value = key}

LEMMA AdLookups == AdInv => LookupsAgree
<1>. SUFFICES ASSUME AdInv, NEW l \in live
     PROVE  /\ \A key \in Values :
                 listSearchKey(l, key) =
                   IF Hit(l, key) = {} THEN Nil
                   ELSE Chain(l)[CHOOSE k \in Hit(l, key) : \A j \in Hit(l, key) : k <= j]
            /\ \A i \in -(list[l].len + 1) .. list[l].len :
                 listIndex(l, i) = IF i \in 0 .. list[l].len - 1 THEN Chain(l)[i + 1]
                                   ELSE IF i \in -list[l].len .. -1 THEN Chain(l)[list[l].len + 1 + i]
                                   ELSE Nil
  BY Zenon DEF LookupsAgree, Hit
<1>1. PICK s : Types /\ Fit(s)
  BY DEF AdInv, Fit
<1>2. Shape(node, list, used, s) /\ l \in Lists
  BY <1>1 DEF Fit, Ordered, Types
<1>3. PICK c \in Seq(Nodes) : c = s[l]
  BY <1>2, ShapeFacts
<1>4. PICK n : n = Len(c)
  OBVIOUS
<1>5. /\ Linked(node, list[l], c) /\ n \in Nat /\ list[l].len = n /\ Chain(l) = c
      /\ \A k \in 1 .. n : c[k] \in Nodes
  BY <1>2, <1>3, <1>4, ShapeFacts, ChainIs
<1>6. ASSUME NEW i \in -(n + 1) .. n
      PROVE  listIndex(l, i) = IF i \in 0 .. n - 1 THEN c[i + 1]
                               ELSE IF i \in -n .. -1 THEN c[n + 1 + i]
                               ELSE Nil
  <2>1. i \in Int
    BY <1>5
  <2>2. CASE i < 0
    <3>1. -i - 1 \in Nat /\ Len(c) - (-i - 1) = n + 1 + i
      BY <1>4, <1>5, <2>1, <2>2
    <3>2. Walk(list[l].tail, "prev", -i - 1) = At(c, Len(c) - (-i - 1))
      BY <1>5, <3>1, WalksAt
    <3>3. listIndex(l, i) = At(c, n + 1 + i)
      BY <2>2, <3>1, <3>2 DEF listIndex
    <3>4. i \notin 0 .. n - 1 /\ (i \in -n .. -1 <=> n + 1 + i \in 1 .. Len(c))
      BY <1>4, <1>5, <2>1, <2>2
    <3>. QED  BY <3>3, <3>4 DEF At
  <2>3. CASE ~(i < 0)
    <3>1. i \in Nat
      BY <2>1, <2>3
    <3>2. Walk(list[l].head, "next", i) = At(c, i + 1)
      BY <1>5, <3>1, WalksAt
    <3>3. listIndex(l, i) = At(c, i + 1)
      BY <2>3, <3>2 DEF listIndex
    <3>4. i \notin -n .. -1 /\ (i \in 0 .. n - 1 <=> i + 1 \in 1 .. Len(c))
      BY <1>4, <1>5, <2>1, <2>3
    <3>. QED  BY <3>3, <3>4 DEF At
  <2>. QED  BY <2>2, <2>3
<1>7. ASSUME NEW key \in Values, NEW H, H = Hit(l, key)
      PROVE  listSearchKey(l, key) = IF H = {} THEN Nil
                                     ELSE c[CHOOSE k \in H : \A j \in H : k <= j]
  <2>1. PICK h : Finds(h, key) /\ listSearchKey(l, key) = h[list[l].head]
    BY <1>2, SearchDefined
  <2>2. \A k \in 1 .. n : k \in H <=> Matches(node[c[k]].value, key)
    BY <1>5, <1>7 DEF Matches, Hit
  <2>3. H \subseteq 1 .. n
    BY <1>5, <1>7 DEF Hit
  <2>4. CASE H = {}
    <3>1. PICK m : m = Len(c) + 1
      OBVIOUS
    <3>2. m \in 1 .. Len(c) + 1 /\ ~(m <= Len(c)) /\ 1 .. m - 1 = 1 .. n
      BY <1>4, <1>5, <3>1
    <3>3. \A j \in 1 .. m - 1 : ~Matches(node[c[j]].value, key)
      BY <2>2, <2>4, <3>2
    <3>4. h[list[l].head] = At(c, m)
      BY <1>5, <2>1, <3>2, <3>3, SearchReaches
    <3>5. At(c, m) = Nil
      BY <3>2 DEF At
    <3>. QED  BY <2>1, <2>4, <3>4, <3>5
  <2>5. CASE H # {}
    <3>1. H \in SUBSET Nat
      BY <1>5, <2>3
    <3>2. PICK m : m = CHOOSE k \in H : \A j \in H : k <= j
      OBVIOUS
    <3>3. m \in H /\ \A j \in H : m <= j
      <4>1. \E k \in H : \A j \in H : k <= j
        BY <2>5, <3>1, LeastNatural
      <4>. QED  BY <3>2, <4>1, Zenon
    <3>4. m \in 1 .. Len(c) + 1 /\ m \in 1 .. n /\ m <= Len(c)
      BY <1>4, <1>5, <2>3, <3>3
    <3>5. ASSUME NEW j \in 1 .. m - 1  PROVE ~Matches(node[c[j]].value, key)
      <4>1. j \in 1 .. n /\ ~(m <= j)
        BY <1>5, <3>4
      <4>. QED  BY <2>2, <3>3, <4>1
    <3>6. Matches(node[c[m]].value, key)
      BY <2>2, <3>3, <3>4
    <3>7. h[list[l].head] = At(c, m)
      BY <1>5, <2>1, <3>4, <3>5, <3>6, SearchReaches
    <3>8. At(c, m) = c[m]
      BY <1>4, <3>4 DEF At
    <3>. QED  BY <2>1, <2>5, <3>2, <3>7, <3>8
  <2>. QED  BY <2>4, <2>5
<1>. QED  BY <1>5, <1>6, <1>7

(* listSearchKey finds the first match and listIndex the node at a place    *)
(* counted from either end, in lists of any length.                         *)
THEOREM AdLookupsAgree == Spec => []LookupsAgree
BY AdAlways, AdLookups, PTL

-----------------------------------------------------------------------------
(* The lists as sequences of values.                                        *)

LEMMA SameSeq ==
    ASSUME NEW X, NEW p \in Seq(X), NEW q \in Seq(X), Len(p) = Len(q),
           \A j \in 1 .. Len(p) : p[j] = q[j]
    PROVE  p = q
<1>1. p = [j \in 1 .. Len(p) |-> p[j]] /\ q = [j \in 1 .. Len(q) |-> q[j]]
  BY ONLY p \in Seq(X), q \in Seq(X)
<1>. QED  BY <1>1, Zenon

LEMMA InsertVals ==
    ASSUME NEW nd \in HeapNodes, NEW md \in HeapNodes, NEW c \in Seq(Nodes), NEW i \in 0 .. Len(c),
           NEW n \in Nodes, NEW t, t = InsertAt(c, i + 1, n),
           \A m \in Range(c) : md[m].value = nd[m].value
    PROVE  Vals(md, t) = InsertAt(Vals(nd, c), i + 1, md[n].value)
<1>1. t \in Seq(Nodes) /\ Len(t) = Len(c) + 1 /\ Gains(t, c, i, n)
  BY InsertAtValues
<1>2. PICK p \in Seq(V) : p = Vals(nd, c)
  BY ValsType
<1>3. PICK q \in Seq(V) : q = Vals(md, t)
  BY <1>1, ValsType
<1>4. PICK v \in V : v = md[n].value
  BY DEF HeapNodes, V
<1>5. Len(p) = Len(c) /\ Len(q) = Len(t) /\ Len(c) \in Nat /\ i \in Nat /\ i \in 0 .. Len(p) /\ i <= Len(c)
  BY <1>1, <1>2, <1>3, ValsType
<1>6. PICK u : u = InsertAt(p, i + 1, v)
  OBVIOUS
<1>7. u \in Seq(V) /\ Len(u) = Len(p) + 1 /\ Gains(u, p, i, v)
  BY <1>5, <1>6, InsertAtValues
<1>8. \A k \in 1 .. Len(c) : p[k] = nd[c[k]].value /\ c[k] \in Range(c)
  BY <1>2, RangeIs DEF Vals
<1>9. \A j \in 1 .. Len(t) : q[j] = md[t[j]].value
  BY <1>3 DEF Vals
<1>10. ASSUME NEW j \in 1 .. Len(q)  PROVE q[j] = u[j]
  <2>1. j \in 1 .. Len(t) /\ j \in 1 .. Len(u)
    BY <1>1, <1>5, <1>7
  <2>2. CASE j <= i
    <3>1. j \in 1 .. Len(c) /\ t[j] = c[j] /\ u[j] = p[j]
      BY <1>1, <1>5, <1>7, <2>1, <2>2 DEF Gains
    <3>. QED  BY <1>8, <1>9, <2>1, <3>1
  <2>3. CASE j = i + 1
    <3>1. t[j] = n /\ u[j] = v
      BY <1>1, <1>5, <1>7, <2>1, <2>3 DEF Gains
    <3>. QED  BY <1>4, <1>9, <2>1, <3>1
  <2>4. CASE j > i + 1
    <3>1. j - 1 \in 1 .. Len(c) /\ ~(j <= i) /\ j # i + 1
      BY <1>1, <1>5, <2>1, <2>4
    <3>2. t[j] = c[j - 1] /\ u[j] = p[j - 1]
      BY <1>1, <1>7, <2>1, <3>1 DEF Gains
    <3>. QED  BY <1>8, <1>9, <2>1, <3>1, <3>2
  <2>. QED  BY <1>5, <2>1, <2>2, <2>3, <2>4
<1>11. q = u
  <2>1. Len(q) = Len(u)
    BY <1>1, <1>5, <1>7
  <2>. QED  BY <1>7, <1>10, <2>1, SameSeq
<1>. QED  BY <1>2, <1>3, <1>4, <1>6, <1>11

LEMMA RemoveVals ==
    ASSUME NEW nd \in HeapNodes, NEW md \in HeapNodes, NEW c \in Seq(Nodes), NEW k \in 1 .. Len(c),
           NEW t, t = RemoveAt(c, k), \A m \in Range(t) : md[m].value = nd[m].value
    PROVE  Vals(md, t) = RemoveAt(Vals(nd, c), k)
<1>1. t \in Seq(Nodes) /\ Len(t) = Len(c) - 1 /\ \A j \in 1 .. Len(t) : t[j] = IF j < k THEN c[j] ELSE c[j + 1]
  BY RemoveAtValues
<1>2. PICK p \in Seq(V) : p = Vals(nd, c)
  BY ValsType
<1>3. PICK q \in Seq(V) : q = Vals(md, t)
  BY <1>1, ValsType
<1>4. Len(p) = Len(c) /\ Len(q) = Len(t) /\ Len(c) \in Nat /\ k \in 1 .. Len(p) /\ k <= Len(c) /\ k \in Nat
  BY <1>1, <1>2, <1>3, ValsType
<1>5. PICK u : u = RemoveAt(p, k)
  OBVIOUS
<1>6. u \in Seq(V) /\ Len(u) = Len(p) - 1 /\ \A j \in 1 .. Len(u) : u[j] = IF j < k THEN p[j] ELSE p[j + 1]
  BY <1>4, <1>5, RemoveAtValues
<1>7. \A j \in 1 .. Len(c) : p[j] = nd[c[j]].value
  BY <1>2 DEF Vals
<1>8. \A j \in 1 .. Len(t) : q[j] = nd[t[j]].value
  BY <1>1, <1>3, RangeIs DEF Vals
<1>9. ASSUME NEW j \in 1 .. Len(q)  PROVE q[j] = u[j]
  <2>1. j \in 1 .. Len(t) /\ j \in 1 .. Len(u) /\ j \in 1 .. Len(c) /\ j + 1 \in 1 .. Len(c)
    BY <1>1, <1>4, <1>6
  <2>2. CASE j < k
    <3>1. t[j] = c[j] /\ u[j] = p[j]
      BY <1>1, <1>6, <2>1, <2>2
    <3>. QED  BY <1>7, <1>8, <2>1, <3>1
  <2>3. CASE ~(j < k)
    <3>1. t[j] = c[j + 1] /\ u[j] = p[j + 1]
      BY <1>1, <1>6, <2>1, <2>3
    <3>. QED  BY <1>7, <1>8, <2>1, <3>1
  <2>. QED  BY <2>2, <2>3
<1>10. q = u
  <2>1. Len(q) = Len(u)
    BY <1>1, <1>4, <1>6
  <2>. QED  BY <1>6, <1>9, <2>1, SameSeq
<1>. QED  BY <1>2, <1>3, <1>5, <1>10

LEMMA TurnedVals ==
    ASSUME NEW nd \in HeapNodes, NEW md \in HeapNodes, NEW c \in Seq(Nodes), Len(c) > 1,
           \A m \in Nodes : md[m].value = nd[m].value
    PROVE  Vals(md, Turned(c)) = <<Last(Vals(nd, c))>> \o Front(Vals(nd, c))
<1>1. PICK e : e = Len(c)
  OBVIOUS
<1>2. e \in Nat /\ e > 1 /\ e \in 1 .. Len(c) /\ c[e] \in Nodes
  BY <1>1
<1>3. PICK b : b = RemoveAt(c, e)
  OBVIOUS
<1>4. b \in Seq(Nodes) /\ Len(b) = e - 1 /\ 0 \in 0 .. Len(b)
  BY <1>1, <1>2, <1>3, RemoveAtValues
<1>5. \A m \in Range(b) : md[m].value = nd[m].value /\ nd[m].value = nd[m].value
  BY <1>4, RangeType
<1>6. PICK p \in Seq(V) : p = Vals(nd, c)
  BY ValsType
<1>7. Len(p) = e /\ \A j \in 1 .. e : p[j] = nd[c[j]].value
  BY <1>1, <1>6, ValsType DEF Vals
<1>8. PICK d : d = RemoveAt(p, e)
  OBVIOUS
<1>9. Vals(nd, b) = d
  <2>1. Vals(nd, b) = RemoveAt(Vals(nd, c), e)
    BY <1>2, <1>3, <1>5, RemoveVals
  <2>. QED  BY <1>6, <1>8, <2>1
<1>10. PICK v \in V : v = p[e]
  BY <1>2, <1>7
<1>11. md[c[e]].value = v
  BY <1>1, <1>2, <1>7, <1>10
<1>12. PICK x : x = c[e]
  OBVIOUS
<1>13. Turned(c) = InsertAt(b, 0 + 1, x)
  BY <1>1, <1>3, <1>12 DEF Turned
<1>14. Vals(md, Turned(c)) = InsertAt(d, 0 + 1, v)
  <2>1. Vals(md, Turned(c)) = InsertAt(Vals(nd, b), 0 + 1, md[x].value)
    <3>1. PICK t : t = InsertAt(b, 0 + 1, x)
      OBVIOUS
    <3>2. Vals(md, t) = InsertAt(Vals(nd, b), 0 + 1, md[x].value)
      BY <1>2, <1>4, <1>5, <1>12, <3>1, InsertVals, ZenonT(90)
    <3>. QED  BY <1>13, <3>1, <3>2
  <2>. QED  BY <1>9, <1>11, <1>12, <2>1
<1>15. d \in Seq(V) /\ Len(d) = e - 1 /\ \A j \in 1 .. Len(d) : d[j] = IF j < e THEN p[j] ELSE p[j + 1]
  <2>1. e \in 1 .. Len(p)
    BY <1>2, <1>7
  <2>2. /\ d \in Seq(V) /\ Len(d) = Len(p) - 1
        /\ \A j \in 1 .. Len(d) : d[j] = IF j < e THEN p[j] ELSE p[j + 1]
    BY <1>8, <2>1, RemoveAtValues
  <2>. QED  BY <1>7, <2>2
<1>16. PICK f : f = Front(p)
  OBVIOUS
<1>17. f \in Seq(V) /\ Len(f) = e - 1 /\ \A j \in 1 .. e - 1 : f[j] = p[j]
  BY <1>2, <1>7, <1>16 DEF Front
<1>18. d = f
  <2>1. \A j \in 1 .. Len(d) : j < e /\ j \in 1 .. e - 1
    BY <1>2, <1>15
  <2>2. \A j \in 1 .. Len(d) : d[j] = f[j]
    BY <1>15, <1>17, <2>1
  <2>. QED  BY <1>15, <1>17, <2>2, SameSeq
<1>19. InsertAt(d, 0 + 1, v) = <<v>> \o f
  <2>1. SubSeq(d, 1, 0) = <<>> /\ SubSeq(d, 1, Len(d)) = d
    BY <1>15
  <2>2. InsertAt(d, 0 + 1, v) = <<>> \o <<v>> \o d
    BY <2>1 DEF InsertAt
  <2>3. <<>> \o <<v>> = <<v>>
    OBVIOUS
  <2>. QED  BY <1>18, <2>2, <2>3
<1>20. Last(p) = v
  BY <1>7, <1>10 DEF Last
<1>. QED  BY <1>6, <1>14, <1>16, <1>19, <1>20

\* What the refinement shows of a state.
Shown == [l \in Lists |-> [live |-> l \in live, items |-> Contents(l)]]

ShowsShape == \A s : Shape(node, list, used, s) => \A l \in Lists : Contents(l) = Vals(node, s[l])

LEMMA ContentsAre == ShowsShape
BY ChainIs DEF ShowsShape

LEMMA ShownChanges ==
    ASSUME NEW s, Shape(node, list, used, s), NEW t, Shape(node', list', used', t), NEW l \in Lists,
           \A m \in Lists : m # l => (m \in live' <=> m \in live) /\ Vals(node', t[m]) = Vals(node, s[m])
    PROVE  Shown' = [Shown EXCEPT ![l] = [live |-> l \in live', items |-> Vals(node', t[l])]]
<1>1. \A m \in Lists : Contents(m) = Vals(node, s[m])
  BY ContentsAre DEF ShowsShape
<1>2. ShowsShape'
  BY ContentsAre, PTL
<1>3. \A m \in Lists : Contents(m)' = Vals(node', t[m])
  BY <1>2 DEF ShowsShape
<1>4. \A m \in Lists : m # l => Contents(m)' = Contents(m) /\ (m \in live' <=> m \in live)
  BY <1>1, <1>3
<1>5. Shown' = [m \in Lists |-> [live |-> m \in live', items |-> Contents(m)']]
  BY DEF Shown
<1>6. \A m \in Lists : [live |-> m \in live', items |-> Contents(m)']
                         = IF m = l THEN [live |-> l \in live', items |-> Vals(node', t[l])] ELSE Shown[m]
  BY <1>3, <1>4 DEF Shown
<1>7. Shown' = [m \in Lists |-> IF m = l THEN [live |-> l \in live', items |-> Vals(node', t[l])] ELSE Shown[m]]
  BY <1>5, <1>6, Zenon
<1>8. DOMAIN Shown = Lists
  BY DEF Shown
<1>. QED  BY <1>7, <1>8

LEMMA ShownAt ==
    ASSUME NEW s, Shape(node, list, used, s), NEW l \in Lists
    PROVE  Shown[l].live = (l \in live) /\ Shown[l].items = Vals(node, s[l])
BY ContentsAre DEF Shown, ShowsShape

LEMMA ShownInit == Init => Abstract!SeqInit
<1>. SUFFICES ASSUME Init  PROVE Abstract!SeqInit
  OBVIOUS
<1>1. \A l \in Lists : Contents(l) = <<>> /\ (l \in live) = FALSE
  BY DEF Init, Contents, EmptyList
<1>. QED  BY <1>1 DEF Abstract!SeqInit, Abstract!Gone

\* What an action of the abstract specification says, in these terms.
LEMMA AbstractActions ==
    ASSUME NEW l \in Lists
    PROVE  /\ ~Shown[l].live /\ Shown' = [Shown EXCEPT ![l] = [live |-> TRUE, items |-> <<>>]]
                => Abstract!Create(l)
           /\ Shown[l].live /\ Shown' = [Shown EXCEPT ![l] = [live |-> FALSE, items |-> <<>>]]
                => Abstract!Release(l)
           /\ \A v : Shown[l].live
                     /\ (\E k \in 1 .. Len(Shown[l].items) + 1 :
                           Shown' = [Shown EXCEPT ![l] = [live |-> TRUE, items |-> InsertAt(Shown[l].items, k, v)]])
                       => Abstract!InsertOne(l, v)
           /\ Shown[l].live
              /\ (\E k \in 1 .. Len(Shown[l].items) :
                    Shown' = [Shown EXCEPT ![l] = [live |-> TRUE, items |-> RemoveAt(Shown[l].items, k)]])
                => Abstract!DeleteOne(l)
           /\ Shown[l].live /\ Len(Shown[l].items) > 1
              /\ Shown' = [Shown EXCEPT ![l] = [live |-> TRUE,
                             items |-> <<Last(Shown[l].items)>> \o Front(Shown[l].items)]]
                => Abstract!RotateOne(l)
<1>1. ~Shown[l].live /\ Shown' = [Shown EXCEPT ![l] = [live |-> TRUE, items |-> <<>>]] => Abstract!Create(l)
  BY Zenon DEF Shown, Abstract!Create, Abstract!Become
<1>2. Shown[l].live /\ Shown' = [Shown EXCEPT ![l] = [live |-> FALSE, items |-> <<>>]] => Abstract!Release(l)
  BY Zenon DEF Shown, Abstract!Release, Abstract!Gone
<1>3. ASSUME NEW v
      PROVE  Shown[l].live
             /\ (\E k \in 1 .. Len(Shown[l].items) + 1 :
                   Shown' = [Shown EXCEPT ![l] = [live |-> TRUE, items |-> InsertAt(Shown[l].items, k, v)]])
               => Abstract!InsertOne(l, v)
  BY Zenon DEF Shown, Abstract!InsertOne, Abstract!Become, InsertAt, Abstract!InsertAt
<1>4. Shown[l].live
      /\ (\E k \in 1 .. Len(Shown[l].items) :
            Shown' = [Shown EXCEPT ![l] = [live |-> TRUE, items |-> RemoveAt(Shown[l].items, k)]])
        => Abstract!DeleteOne(l)
  BY Zenon DEF Shown, Abstract!DeleteOne, Abstract!Become, RemoveAt, Abstract!RemoveAt
<1>5. Shown[l].live /\ Len(Shown[l].items) > 1
      /\ Shown' = [Shown EXCEPT ![l] = [live |-> TRUE,
                     items |-> <<Last(Shown[l].items)>> \o Front(Shown[l].items)]]
        => Abstract!RotateOne(l)
  BY Zenon DEF Shown, Abstract!RotateOne, Abstract!Become, Last, Front, Abstract!Last, Abstract!Front
<1>. QED  BY <1>1, <1>2, <1>3, <1>4, <1>5

\* Values in a list that is not changed.
LEMMA OthersKeep ==
    ASSUME NEW s, Shape(node, list, used, s), NEW l \in Lists, NEW c, NEW t, t = With(s, l, c),
           \A n \in used \ Range(s[l]) : node'[n].value = node[n].value
    PROVE  t[l] = c /\ \A m \in Lists : m # l => Vals(node', t[m]) = Vals(node, s[m])
<1>1. t[l] = c
  BY DEF With
<1>2. ASSUME NEW m \in Lists, m # l  PROVE Vals(node', t[m]) = Vals(node, s[m])
  <2>1. t[m] = s[m]
    BY <1>2 DEF With
  <2>2. s[m] \in Seq(Nodes) /\ Range(s[m]) \subseteq used
    BY ShapeFacts
  <2>3. Range(s[m]) \cap Range(s[l]) = {}
    BY <1>2 DEF Shape
  <2>4. \A n \in Range(s[m]) : node'[n].value = node[n].value
    BY <2>2, <2>3
  <2>. QED  BY <2>1, <2>2, <2>4, ValsSame
<1>. QED  BY <1>1, <1>2

LEMMA ShownGrows ==
    ASSUME NEW s, Fit(s), NEW l \in Lists, l \in live, UNCHANGED live, NEW i \in 0 .. Len(s[l]),
           NEW n \in Nodes \ used, NEW v, Grows(s, l, i, n, v),
           NEW t, t = With(s, l, InsertAt(s[l], i + 1, n)), Fit(t)'
    PROVE  Abstract!InsertOne(l, v)
<1>1. Shape(node, list, used, s) /\ Shape(node', list', used', t)
  BY DEF Fit, Ordered
<1>2. PICK c \in Seq(Nodes) : c = s[l]
  BY <1>1, ShapeFacts
<1>3. node \in HeapNodes /\ node' \in HeapNodes /\ used \subseteq Nodes /\ Range(c) \subseteq used /\ n \in Nodes
  <2>1. node \in HeapNodes /\ node' \in HeapNodes /\ used \subseteq Nodes
    BY <1>1 DEF Shape
  <2>. QED  BY <1>1, <1>2, <2>1, ShapeFacts
<1>4. i \in 0 .. Len(c) /\ Len(c) \in Nat
  BY <1>2
<1>5. \A m \in used : m \in Nodes /\ m # n
  BY <1>3
<1>6. \A m \in used : node'[m].value = node[m].value
  BY <1>2, <1>3, <1>4, <1>5, JoinedOthers DEF Grows
<1>7. node'[n].value = v
  BY <1>3 DEF Grows, Joined
<1>8. PICK d : d = InsertAt(c, i + 1, n)
  OBVIOUS
<1>9. t = With(s, l, d)
  BY <1>2, <1>8
<1>10. t[l] = d /\ \A m \in Lists : m # l => Vals(node', t[m]) = Vals(node, s[m])
  BY <1>1, <1>6, <1>9, OthersKeep
<1>11. Vals(node', d) = InsertAt(Vals(node, c), i + 1, v)
  <2>1. \A m \in Range(c) : node'[m].value = node[m].value
    BY <1>3, <1>6
  <2>2. Vals(node', d) = InsertAt(Vals(node, c), i + 1, node'[n].value)
    BY <1>3, <1>4, <1>8, <2>1, InsertVals
  <2>. QED  BY <1>7, <2>2
<1>12. Shown' = [Shown EXCEPT ![l] = [live |-> l \in live', items |-> Vals(node', t[l])]]
  BY <1>1, <1>10, ShownChanges
<1>13. Shown[l].live = (l \in live) /\ Shown[l].items = Vals(node, c)
  BY <1>1, <1>2, ShownAt
<1>14. (l \in live') = TRUE
  OBVIOUS
<1>15. PICK k : k = i + 1
  OBVIOUS
<1>16. k \in 1 .. Len(Shown[l].items) + 1
  BY <1>3, <1>4, <1>13, <1>15, ValsType
<1>17. Shown' = [Shown EXCEPT ![l] = [live |-> TRUE, items |-> InsertAt(Shown[l].items, k, v)]]
  BY <1>10, <1>11, <1>12, <1>13, <1>14, <1>15, Zenon
<1>18. Shown[l].live
  BY <1>13
<1>. QED  BY <1>16, <1>17, <1>18, AbstractActions

LEMMA ShownDiscards ==
    ASSUME NEW s, Fit(s), NEW l \in Lists, l \in live, Discard(l), Fit(With(s, l, <<>>))'
    PROVE  Abstract!Release(l)
<1>1. PICK t : t = With(s, l, <<>>)
  OBVIOUS
<1>2. Shape(node, list, used, s) /\ Shape(node', list', used', t)
  BY <1>1 DEF Fit, Ordered
<1>3. Chain(l) = s[l] /\ used \subseteq Nodes
  BY <1>2, ChainIs DEF Shape
<1>4. live' = live \ {l} /\ node' = [n \in Nodes |-> IF n \in Range(s[l]) THEN BlankNode ELSE node[n]]
  BY <1>3 DEF Discard
<1>5. \A n \in used \ Range(s[l]) : node'[n].value = node[n].value
  BY <1>3, <1>4
<1>6. t[l] = <<>> /\ \A m \in Lists : m # l => Vals(node', t[m]) = Vals(node, s[m])
  BY <1>1, <1>2, <1>5, OthersKeep
<1>7. Shown' = [Shown EXCEPT ![l] = [live |-> l \in live', items |-> Vals(node', t[l])]]
  BY <1>2, <1>4, <1>6, ShownChanges
<1>8. (l \in live') = FALSE /\ Vals(node', t[l]) = <<>>
  BY <1>4, <1>6 DEF Vals
<1>9. Shown' = [Shown EXCEPT ![l] = [live |-> FALSE, items |-> <<>>]]
  BY <1>7, <1>8, Zenon
<1>10. Shown[l].live
  BY <1>2, ShownAt
<1>. QED  BY <1>9, <1>10, AbstractActions

LEMMA ShownCreates ==
    ASSUME NEW s, Fit(s), NEW l \in Lists, l \notin live, live' = live \cup {l}, UNCHANGED node, Fit(s)'
    PROVE  Abstract!Create(l)
<1>1. Shape(node, list, used, s) /\ Shape(node', list', used', s) /\ s[l] = <<>>
  BY DEF Fit, Ordered
<1>2. Shown' = [Shown EXCEPT ![l] = [live |-> l \in live', items |-> Vals(node', s[l])]]
  <2>1. \A m \in Lists : m # l => (m \in live' <=> m \in live) /\ Vals(node', s[m]) = Vals(node, s[m])
    OBVIOUS
  <2>. QED  BY <1>1, <2>1, ShownChanges
<1>3. (l \in live') = TRUE /\ Vals(node', s[l]) = <<>>
  BY <1>1 DEF Vals
<1>4. Shown' = [Shown EXCEPT ![l] = [live |-> TRUE, items |-> <<>>]]
  BY <1>2, <1>3, Zenon
<1>5. ~Shown[l].live
  BY <1>1, ShownAt
<1>. QED  BY <1>4, <1>5, AbstractActions

LEMMA ShownDeletes ==
    ASSUME NEW s, Fit(s), NEW l \in Lists, l \in live, UNCHANGED live, NEW k \in 1 .. Len(s[l]),
           node' = Parted(node, s[l], k), Fit(With(s, l, RemoveAt(s[l], k)))'
    PROVE  Abstract!DeleteOne(l)
<1>1. PICK c \in Seq(Nodes) : c = s[l]
  BY ShapeFacts DEF Fit, Ordered
<1>2. PICK d : d = RemoveAt(c, k)
  OBVIOUS
<1>3. PICK t : t = With(s, l, d)
  OBVIOUS
<1>4. Shape(node, list, used, s) /\ Shape(node', list', used', t)
  BY <1>1, <1>2, <1>3 DEF Fit, Ordered
<1>5. node \in HeapNodes /\ node' \in HeapNodes /\ used \subseteq Nodes
  BY <1>4 DEF Shape
<1>6. Range(c) \subseteq used /\ Distinct(c) /\ k \in 1 .. Len(c) /\ c[k] \in Range(c)
  BY <1>1, <1>4, ShapeFacts
<1>7. \A m \in Nodes : m # c[k] => node'[m].value = node[m].value
  BY <1>1, <1>5, <1>6, PartedOthers
<1>8. t[l] = d /\ \A m \in Lists : m # l => Vals(node', t[m]) = Vals(node, s[m])
  <2>1. \A n \in used \ Range(s[l]) : node'[n].value = node[n].value
    BY <1>1, <1>5, <1>6, <1>7
  <2>. QED  BY <1>3, <1>4, <2>1, OthersKeep
<1>9. Vals(node', d) = RemoveAt(Vals(node, c), k)
  <2>1. d \in Seq(Nodes) /\ Range(d) = Range(c) \ {c[k]}
    BY <1>2, <1>6, SeqLoses
  <2>2. \A m \in Range(d) : m \in Nodes /\ m # c[k]
    BY <2>1, RangeType
  <2>3. \A m \in Range(d) : node'[m].value = node[m].value
    BY <1>7, <2>2
  <2>. QED  BY <1>2, <1>5, <1>6, <2>3, RemoveVals
<1>10. Shown' = [Shown EXCEPT ![l] = [live |-> l \in live', items |-> Vals(node', t[l])]]
  BY <1>4, <1>8, ShownChanges
<1>11. Shown[l].live = (l \in live) /\ Shown[l].items = Vals(node, c)
  BY <1>1, <1>4, ShownAt
<1>12. (l \in live') = TRUE
  OBVIOUS
<1>13. k \in 1 .. Len(Shown[l].items)
  BY <1>5, <1>6, <1>11, ValsType
<1>14. Shown' = [Shown EXCEPT ![l] = [live |-> TRUE, items |-> RemoveAt(Shown[l].items, k)]]
  BY <1>8, <1>9, <1>10, <1>11, <1>12, Zenon
<1>15. Shown[l].live
  BY <1>11
<1>. QED  BY <1>13, <1>14, <1>15, AbstractActions

LEMMA ShownRotates ==
    ASSUME NEW s, Types, Fit(s), NEW l \in Lists, listRotate(l)
    PROVE  Abstract!RotateOne(l)
<1>1. PICK c \in Seq(Nodes) : c = s[l]
  BY ShapeFacts DEF Fit, Ordered
<1>2. PICK t : t = With(s, l, Turned(s[l]))
  OBVIOUS
<1>3. Fit(t)'
  BY <1>2, RotateStep
<1>4. Shape(node, list, used, s) /\ Shape(node', list', used', t)
  BY <1>3 DEF Fit, Ordered
<1>5. Len(c) > 1 /\ \A m \in Nodes : node'[m].value = node[m].value
  BY <1>1, <1>2, <1>4, RotateShape
<1>6. l \in live /\ UNCHANGED live
  BY DEF listRotate, Quiet
<1>7. node \in HeapNodes /\ node' \in HeapNodes /\ used \subseteq Nodes
  BY <1>4 DEF Shape
<1>8. t[l] = Turned(c) /\ \A m \in Lists : m # l => Vals(node', t[m]) = Vals(node, s[m])
  <2>1. \A n \in used \ Range(s[l]) : node'[n].value = node[n].value
    BY <1>5, <1>7
  <2>. QED  BY <1>1, <1>2, <1>4, <2>1, OthersKeep
<1>9. Vals(node', Turned(c)) = <<Last(Vals(node, c))>> \o Front(Vals(node, c))
  BY <1>5, <1>7, TurnedVals
<1>10. Shown' = [Shown EXCEPT ![l] = [live |-> l \in live', items |-> Vals(node', t[l])]]
  BY <1>4, <1>6, <1>8, ShownChanges
<1>11. Shown[l].live = (l \in live) /\ Shown[l].items = Vals(node, c)
  BY <1>1, <1>4, ShownAt
<1>12. (l \in live') = TRUE
  BY <1>6
<1>13. Len(Shown[l].items) > 1
  BY <1>5, <1>7, <1>11, ValsType
<1>14. Shown' = [Shown EXCEPT ![l] = [live |-> TRUE,
                    items |-> <<Last(Shown[l].items)>> \o Front(Shown[l].items)]]
  BY <1>8, <1>9, <1>10, <1>11, <1>12, Zenon
<1>15. Shown[l].live
  BY <1>6, <1>11
<1>. QED  BY <1>13, <1>14, <1>15, AbstractActions

LEMMA ShownStays ==
    ASSUME UNCHANGED <<node, list, live>>
    PROVE  UNCHANGED Shown
BY DEF Shown, Contents, Chain, Walk, Step

LEMMA ShownNext == AdInv /\ [Next]_vars => Abstract!SeqNext \/ UNCHANGED Shown
<1>. SUFFICES ASSUME AdInv, [Next]_vars  PROVE Abstract!SeqNext \/ UNCHANGED Shown
  OBVIOUS
<1>1. PICK s : Types /\ Fit(s)
  BY DEF AdInv, Fit
<1>2. \A v \in use.values : v \in Values
  BY <1>1, UsesAssumption DEF Types
<1>3. \A l \in Lists : \/ Abstract!Create(l) \/ Abstract!Release(l) \/ Abstract!DeleteOne(l)
                       \/ Abstract!RotateOne(l) \/ \E v \in Values : Abstract!InsertOne(l, v)
                       => Abstract!SeqNext
  BY Zenon DEF Abstract!SeqNext
<1>4. ASSUME NEW l \in Lists, Caller(l)  PROVE Abstract!SeqNext \/ UNCHANGED Shown
  <2>1. CASE listCreate(l)
    <3>1. Fit(s)'
      BY <1>1, <2>1, CreateStep
    <3>2. l \notin live /\ live' = live \cup {l} /\ UNCHANGED node
      BY <2>1 DEF listCreate
    <3>3. Abstract!Create(l)
      BY <1>1, <3>1, <3>2, ShownCreates
    <3>. QED  BY <1>3, <3>3
  <2>2. CASE listRelease(l)
    <3>1. /\ Discard(l) /\ iter.of # l /\ copying' = Idle /\ UNCHANGED <<use, iter, status>>
          /\ l \in live
      BY <2>2 DEF listRelease, Quiet
    <3>2. Fit(With(s, l, <<>>))'
      BY <1>1, <3>1, DiscardStep
    <3>3. Abstract!Release(l)
      BY <1>1, <3>1, <3>2, ShownDiscards
    <3>. QED  BY <1>3, <3>3
  <2>3. CASE listRotate(l)
    BY <1>1, <1>3, <2>3, ShownRotates
  <2>4. CASE \E v \in use.values : Adds(l, v)
    <3>1. PICK v \in Values : Adds(l, v)
      BY <1>2, <2>4
    <3>2. Insertion(l, v) /\ \E i \in 0 .. Len(s[l]), n \in Nodes \ used : Grows(s, l, i, n, v)
      BY <1>1, <3>1, AddsGrow
    <3>3. PICK i \in 0 .. Len(s[l]), n \in Nodes \ used : Grows(s, l, i, n, v)
      BY <3>2
    <3>4. PICK t : t = With(s, l, InsertAt(s[l], i + 1, n))
      OBVIOUS
    <3>5. Fit(t)'
      BY <1>1, <3>2, <3>3, <3>4, AddsStep
    <3>6. l \in live /\ UNCHANGED live
      BY <3>2 DEF Insertion, Quiet
    <3>7. Abstract!InsertOne(l, v)
      BY <1>1, <3>3, <3>4, <3>5, <3>6, ShownGrows
    <3>. QED  BY <1>3, <3>7
  <2>5. CASE \E n \in Nodes : listDelNode(l, n)
    <3>1. PICK n \in Nodes : listDelNode(l, n)
      BY <2>5
    <3>2. PICK k \in 1 .. Len(s[l]) : /\ Fit(With(s, l, RemoveAt(s[l], k)))'
                                      /\ node' = Parted(node, s[l], k)
      BY <1>1, <3>1, DelNodeStep
    <3>3. l \in live /\ UNCHANGED live
      BY <1>1, <3>1, DelNodeStep DEF listDelNode
    <3>4. Abstract!DeleteOne(l)
      BY <1>1, <3>2, <3>3, ShownDeletes
    <3>. QED  BY <1>3, <3>4
  <2>6. CASE \E dir \in {"head", "tail"} : listGetIterator(l, dir)
    BY <2>6, ShownStays DEF listGetIterator, heap
  <2>7. CASE SearchFails(l)
    BY <2>7, ShownStays DEF SearchFails, heap
  <2>. QED  BY <1>4, <2>1, <2>2, <2>3, <2>4, <2>5, <2>6, <2>7 DEF Caller, Adds
<1>5. CASE listNext \/ listReleaseIterator \/ DupEnd \/ UNCHANGED vars
  BY <1>5, ShownStays DEF listNext, listReleaseIterator, DupEnd, heap, vars
<1>6. CASE DupStart
  <2>1. CASE UNCHANGED heap
    BY <2>1, ShownStays DEF heap
  <2>2. CASE ~UNCHANGED heap
    <3>1. "copy" \in Lists /\ "copy" \notin live /\ live' = live \cup {"copy"} /\ UNCHANGED node
      BY <1>6, <2>2 DEF DupStart, Lists
    <3>2. Fit(s)'
      BY <1>1, <1>6, DupStartStep
    <3>3. Abstract!Create("copy")
      BY <1>1, <3>1, <3>2, ShownCreates
    <3>. QED  BY <1>3, <3>1, <3>3
  <2>. QED  BY <2>1, <2>2
<1>7. CASE DupStep
  <2>1. "copy" \in Lists /\ "copy" \in live
    BY <1>1, <1>7, DupStepStep DEF Lists
  <2>2. CASE Discard("copy") /\ Fit(With(s, "copy", <<>>))'
    BY <1>1, <1>3, <2>1, <2>2, ShownDiscards
  <2>3. CASE /\ UNCHANGED <<live, freed>>
             /\ \E n \in Nodes \ used, v \in Values :
                  /\ v \in CopiesOf(node[copying].value)
                  /\ Grows(s, "copy", Len(s["copy"]), n, v)
                  /\ Fit(With(s, "copy", InsertAt(s["copy"], Len(s["copy"]) + 1, n)))'
    <3>1. PICK n \in Nodes \ used, v \in Values :
                  /\ Grows(s, "copy", Len(s["copy"]), n, v)
                  /\ Fit(With(s, "copy", InsertAt(s["copy"], Len(s["copy"]) + 1, n)))'
      BY <2>3
    <3>2. Shape(node, list, used, s)
      BY <1>1 DEF Fit, Ordered
    <3>3. PICK i \in 0 .. Len(s["copy"]) : i = Len(s["copy"])
      BY <2>1, <3>2, ShapeFacts
    <3>4. PICK t : t = With(s, "copy", InsertAt(s["copy"], i + 1, n))
      OBVIOUS
    <3>5. Grows(s, "copy", i, n, v) /\ Fit(t)'
      BY <3>1, <3>3, <3>4
    <3>6. Abstract!InsertOne("copy", v)
      BY <1>1, <2>1, <2>3, <3>4, <3>5, ShownGrows
    <3>. QED  BY <1>3, <2>1, <3>6
  <2>. QED  BY <1>1, <1>7, <2>2, <2>3, DupStepStep
<1>. QED  BY <1>4, <1>5, <1>6, <1>7 DEF Next

(* The pointers implement sequences for every memory, values and callers:   *)
(* each call of adlist.c changes one list at one place, listRotate moves    *)
(* the last value to the front, and a listDup that fails takes back what it *)
(* made and leaves the original as it was.                                  *)
THEOREM AdImplementsSeq == Spec => ImplementsSeq
<1>1. AdInv /\ [Next]_vars =>
        Abstract!SeqNext \/ UNCHANGED [l \in Lists |-> [live |-> l \in live, items |-> Contents(l)]]
  BY ShownNext, Zenon DEF Shown
<1>. QED  BY <1>1, ShownInit, AdAlways, PTL DEF Spec, ImplementsSeq, Abstract!SeqSpec
=============================================================================
