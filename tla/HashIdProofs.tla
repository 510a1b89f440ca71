---------------------------- MODULE HashIdProofs ----------------------------
(***************************************************************************)
(* Proof that the bucket chains of gate/hashid.h are exact, that its       *)
(* assertions hold, and that it implements module IdTable, for every       *)
(* capacity and every set of socket ids that the probing can add a slot    *)
(* number to without overflow.                                             *)
(***************************************************************************)
EXTENDS HashId, DataLemmas, FiniteSetTheorems

\* What the gate gives hashid_insert when no connect fails: socket ids, not so
\* large that i + id overflows.
SafeIds == \A id \in Ids : id \in Nat /\ id + Cap - 1 <= IntMax

-----------------------------------------------------------------------------
(* The recursions of the model have the values one expects.                 *)

LEMMA HashCapPositive == HashCap \in Nat \ {0}
<1> DEFINE Eqn(g) == g = [h \in Nat |-> IF h < Cap THEN g[2 * h] ELSE h]
           base == {h \in Nat : h = 0 \/ ~(h < Cap)}
           B == [h \in Nat |-> h]
           N == [h \in Nat |-> 2 * h]
           E == [p \in Nat \X Nat |-> p[2]]
           mu == [h \in Nat |-> IF h < Cap THEN Cap - h ELSE 0]
<1>1. Cap \in Nat \ {0}
  BY CapAssumption
<1>2. \E g \in [Nat -> Nat] : Solves(g, Nat, base, B, N, E)
  <2>1. \A h \in Nat : mu[h] \in Nat
    BY <1>1
  <2>2. \A h \in Nat : h \in base => B[h] \in Nat
    OBVIOUS
  <2>3. \A h \in Nat : h \notin base => N[h] \in Nat /\ mu[N[h]] < mu[h]
    BY <1>1
  <2>4. \A h \in Nat, r \in Nat : h \notin base => E[<<h, r>>] \in Nat
    OBVIOUS
  <2> HIDE DEF base, B, N, E, mu
  <2>. QED  BY <2>1, <2>2, <2>3, <2>4, RecursionExists
<1>3. \E g : Eqn(g)
  <2>1. PICK g \in [Nat -> Nat] : Solves(g, Nat, base, B, N, E)
    BY <1>2
  <2>2. ASSUME NEW h \in Nat  PROVE g[h] = IF h < Cap THEN g[2 * h] ELSE h
    <3>1. CASE h \in base
      <4>0. g[h] = B[h]
        <5> HIDE DEF base, B, N, E, mu
        <5>. QED  BY <2>1, <3>1 DEF Solves
      <4>1. g[h] = h /\ (h < Cap => h = 0 /\ 2 * h = h)
        BY <3>1, <4>0
      <4>2. h < Cap => g[2 * h] = g[h]
        BY <4>1
      <4> HIDE DEF base, B, N, E, mu
      <4>. QED  BY <4>1, <4>2
    <3>2. CASE h \notin base
      <4>1. g[h] = E[<<h, g[N[h]]>>] /\ 2 * h \in Nat /\ g[2 * h] \in Nat
        BY <2>1, <3>2 DEF Solves
      <4>. QED  BY <3>2, <4>1
    <3>. QED  BY <3>1, <3>2
  <2>3. Eqn(g)
    BY <2>2
  <2> HIDE DEF Eqn
  <2>. QED  BY <2>3
<1> DEFINE go == CHOOSE g : Eqn(g)
<1>4. Eqn(go)
  <2> HIDE DEF Eqn
  <2>. QED  BY <1>3, Zenon
<1>5. HashCap = go[16]
  BY DEF HashCap
<1> HIDE DEF go
<1> DEFINE D == Nat \ {0}
           Good == {h \in D : go[h] \in D}
<1>6. \A h \in D : mu[h] \in Nat
  BY <1>1
<1>7. ASSUME NEW h \in D, \A j \in D : mu[j] < mu[h] => j \in Good
      PROVE  h \in Good
  <2>1. go[h] = IF h < Cap THEN go[2 * h] ELSE h
    BY <1>4
  <2>2. h < Cap => 2 * h \in D /\ mu[2 * h] < mu[h]
    BY <1>1
  <2>3. h < Cap => 2 * h \in Good
    <3> HIDE DEF mu
    <3>. QED  BY <1>7, <2>2
  <2>. QED  BY <2>1, <2>3
<1>8. D \subseteq Good
  <2> HIDE DEF D, Good, mu
  <2>. QED  BY <1>6, <1>7, MeasureInduction
<1>. QED  BY <1>5, <1>8

\* The nodes met from the head of bucket h, for given nodes and heads.
Chain(nd, hs, h) ==
    LET at[k \in Nat] ==
          IF k = 0 THEN hs[h]
          ELSE IF at[k - 1] = Nil THEN Nil ELSE nd[at[k - 1]].next
    IN  [k \in 0 .. Cap |-> at[k]]

NodeArrays == [Slots -> [id : Ids \cup {Nil}, next : Slots \cup {Nil}]]
Buckets    == 0 .. HashCap - 1
HeadArrays == [Buckets -> Slots \cup {Nil}]

\* w follows the links from the head of bucket h.
Follows(w, nd, hs, h) ==
    /\ w \in [0 .. Cap -> Slots \cup {Nil}]
    /\ w[0] = hs[h]
    /\ \A k \in 1 .. Cap : w[k] = IF w[k - 1] = Nil THEN Nil ELSE nd[w[k - 1]].next

LEMMA ChainFollows ==
    ASSUME NEW nd \in NodeArrays, NEW hs \in HeadArrays, NEW h \in Buckets
    PROVE  Follows(Chain(nd, hs, h), nd, hs, h)
<1> DEFINE R == Slots \cup {Nil}
           Eqn(g) == g = [k \in Nat |-> IF k = 0 THEN hs[h]
                                        ELSE IF g[k - 1] = Nil THEN Nil ELSE nd[g[k - 1]].next]
           B == [k \in Nat |-> hs[h]]
           N == [k \in Nat |-> k - 1]
           E == [p \in Nat \X R |-> IF p[2] = Nil THEN Nil ELSE nd[p[2]].next]
           mu == [k \in Nat |-> k]
<1>1. hs[h] \in R /\ \A s \in R : s # Nil => nd[s].next \in R
  BY DEF NodeArrays, HeadArrays
<1>2. \E g \in [Nat -> R] : Solves(g, Nat, {0}, B, N, E)
  <2>1. \A k \in Nat : mu[k] \in Nat
    OBVIOUS
  <2>2. \A k \in Nat : k \in {0} => B[k] \in R
    BY <1>1
  <2>3. \A k \in Nat : k \notin {0} => N[k] \in Nat /\ mu[N[k]] < mu[k]
    OBVIOUS
  <2>4. \A k \in Nat, r \in R : k \notin {0} => E[<<k, r>>] \in R
    BY <1>1
  <2> HIDE DEF B, N, E, mu, R
  <2>. QED  BY <2>1, <2>2, <2>3, <2>4, RecursionExists
<1>3. \E g : Eqn(g)
  <2>1. PICK g \in [Nat -> R] : Solves(g, Nat, {0}, B, N, E)
    BY <1>2
  <2>2. ASSUME NEW k \in Nat
        PROVE  g[k] = IF k = 0 THEN hs[h] ELSE IF g[k - 1] = Nil THEN Nil ELSE nd[g[k - 1]].next
    <3>1. k # 0 => k - 1 \in Nat /\ g[k - 1] \in R
      OBVIOUS
    <3> HIDE DEF R
    <3>. QED  BY <2>1, <3>1 DEF Solves
  <2>3. Eqn(g)
    BY <2>2
  <2> HIDE DEF Eqn
  <2>. QED  BY <2>3
<1> DEFINE at == CHOOSE g : Eqn(g)
<1>4. Eqn(at)
  <2> HIDE DEF Eqn
  <2>. QED  BY <1>3, Zenon
<1>5. Chain(nd, hs, h) = [k \in 0 .. Cap |-> at[k]]
  BY DEF Chain
<1> HIDE DEF at
<1>6. /\ at[0] = hs[h]
      /\ \A k \in Nat : k # 0 => at[k] = IF at[k - 1] = Nil THEN Nil ELSE nd[at[k - 1]].next
  BY <1>4
<1>7. \A k \in Nat : at[k] \in R
  <2> DEFINE S == {k \in Nat : at[k] \in R}
  <2>1. 0 \in S
    BY <1>1, <1>6
  <2>2. ASSUME NEW n \in Nat, n \in S  PROVE n + 1 \in S
    <3>1. n + 1 # 0 /\ (n + 1) - 1 = n /\ n + 1 \in Nat
      OBVIOUS
    <3>2. at[n + 1] = IF at[n] = Nil THEN Nil ELSE nd[at[n]].next
      BY <1>6, <3>1
    <3>. QED  BY <1>1, <2>2, <3>1, <3>2
  <2> HIDE DEF S
  <2>3. Nat \subseteq S
    BY <2>1, <2>2, SetInduction
  <2>. QED  BY <2>3 DEF S
<1>8. 0 .. Cap \subseteq Nat /\ 0 \in 0 .. Cap
  BY CapAssumption
<1>9. \A k \in 1 .. Cap : k \in 0 .. Cap /\ k - 1 \in 0 .. Cap /\ k \in Nat /\ k # 0
  BY CapAssumption
<1> HIDE DEF R, Eqn
<1>. QED  BY <1>5, <1>6, <1>7, <1>8, <1>9 DEF Follows, R

\* Only one function follows the links.
LEMMA FollowsUnique ==
    ASSUME NEW nd, NEW hs, NEW h, NEW v, NEW w, Follows(v, nd, hs, h), Follows(w, nd, hs, h)
    PROVE  v = w
<1> DEFINE S == {k \in Nat : k <= Cap => v[k] = w[k]}
<1>1. Cap \in Nat
  BY CapAssumption
<1>2. 0 \in S
  BY DEF Follows
<1>3. ASSUME NEW n \in Nat, n \in S  PROVE n + 1 \in S
  <2> SUFFICES ASSUME n + 1 <= Cap  PROVE v[n + 1] = w[n + 1]
    OBVIOUS
  <2>1. n + 1 \in 1 .. Cap /\ (n + 1) - 1 = n /\ v[n] = w[n]
    BY <1>1, <1>3
  <2>. QED  BY <2>1 DEF Follows
<1>4. Nat \subseteq S
  <2> HIDE DEF S
  <2>. QED  BY <1>2, <1>3, SetInduction
<1>5. \A k \in 0 .. Cap : v[k] = w[k]
  BY <1>1, <1>4
<1>6. v = [k \in 0 .. Cap |-> v[k]] /\ w = [k \in 0 .. Cap |-> w[k]]
  BY DEF Follows
<1> HIDE DEF S
<1>. QED  BY <1>5, <1>6

\* Once at its end, a chain stays there.
LEMMA NilAbsorbs ==
    ASSUME NEW nd, NEW hs, NEW h, NEW w, Follows(w, nd, hs, h),
           NEW j \in 0 .. Cap, NEW k \in 0 .. Cap, j <= k, w[k] # Nil
    PROVE  w[j] # Nil
<1> DEFINE S == {n \in Nat : n <= k => w[k - n] # Nil}
<1>1. Cap \in Nat /\ k \in Nat /\ j \in Nat
  BY CapAssumption
<1>2. 0 \in S
  BY <1>1
<1>3. ASSUME NEW n \in Nat, n \in S  PROVE n + 1 \in S
  <2> SUFFICES ASSUME n + 1 <= k  PROVE w[k - (n + 1)] # Nil
    OBVIOUS
  <2>1. k - n \in 1 .. Cap /\ (k - n) - 1 = k - (n + 1) /\ w[k - n] # Nil
    BY <1>1, <1>3
  <2>. QED  BY <2>1 DEF Follows
<1>4. Nat \subseteq S
  <2> HIDE DEF S
  <2>. QED  BY <1>2, <1>3, SetInduction
<1>5. k - j \in S /\ k - (k - j) = j /\ k - j <= k
  BY <1>1, <1>4
<1>. QED  BY <1>5

\* A chain without repetition has left the nodes after Cap of them.
LEMMA ChainEnds ==
    ASSUME NEW nd, NEW hs, NEW h, NEW w, Follows(w, nd, hs, h),
           \A j, k \in 0 .. Cap : w[j] # Nil /\ w[j] = w[k] => j = k
    PROVE  w[Cap] = Nil
<1>1. Cap \in Nat /\ Cap \in 0 .. Cap
  BY CapAssumption
<1>2. SUFFICES ASSUME w[Cap] # Nil  PROVE FALSE
  OBVIOUS
<1>3. \A k \in 0 .. Cap : w[k] # Nil
  <2>1. SUFFICES ASSUME NEW k \in 0 .. Cap  PROVE w[k] # Nil
    OBVIOUS
  <2>2. k <= Cap
    BY <1>1
  <2>. QED  BY <1>1, <1>2, <2>2, NilAbsorbs
<1>4. w \in [0 .. Cap -> Slots]
  BY <1>3 DEF Follows
<1>5. IsFiniteSet(0 .. Cap) /\ Cardinality(0 .. Cap) = Cap + 1
  BY <1>1, FS_Interval
<1>6. IsFiniteSet(Slots) /\ Cardinality(Slots) = Cap
  BY <1>1, CapAssumption, FS_Interval DEF Slots
<1>7. Cardinality(Slots) < Cardinality(0 .. Cap)
  BY <1>1, <1>5, <1>6
<1> DEFINE D == 0 .. Cap
<1>8. w \in [D -> Slots] /\ IsFiniteSet(D) /\ Cardinality(Slots) < Cardinality(D)
  BY <1>4, <1>5, <1>7
<1> HIDE DEF D
<1>9. \E x, y \in D : x # y /\ w[x] = w[y]
  BY ONLY <1>6, <1>8, FS_PigeonHole, Zenon
<1>. QED  BY <1>3, <1>9 DEF D

-----------------------------------------------------------------------------
(* What an insertion and a removal do to the chains.                        *)

\* The nodes in use of bucket h.
InBucket(nd, h) == {i \in Slots : nd[i].id # Nil /\ Bucket(nd[i].id) = h}

\* w meets every node of bucket h once, and ends.
Exact(w, nd, h) ==
    /\ w[Cap] = Nil
    /\ \A k \in 0 .. Cap : w[k] # Nil => w[k] \in InBucket(nd, h)
    /\ \A i \in InBucket(nd, h) : \E k \in 0 .. Cap : w[k] = i
    /\ \A j, k \in 0 .. Cap : w[j] # Nil /\ w[j] = w[k] => j = k

AllExact(nd, hs) == \A h \in Buckets : Exact(Chain(nd, hs, h), nd, h)

\* A bucket none of whose nodes changed keeps its chain.
LEMMA OtherBucket ==
    ASSUME NEW nd \in NodeArrays, NEW hs \in HeadArrays, NEW h \in Buckets,
           Exact(Chain(nd, hs, h), nd, h),
           NEW nd2 \in NodeArrays, NEW hs2 \in HeadArrays, hs2[h] = hs[h],
           InBucket(nd2, h) = InBucket(nd, h),
           \A i \in InBucket(nd, h) : nd2[i].next = nd[i].next
    PROVE  Exact(Chain(nd2, hs2, h), nd2, h)
<1>1. PICK w : w = Chain(nd, hs, h)
  OBVIOUS
<1>2. Follows(w, nd, hs, h)
  BY <1>1, ChainFollows
<1>3. \A k \in 1 .. Cap : k - 1 \in 0 .. Cap
  BY CapAssumption
<1>4. \A k \in 0 .. Cap : w[k] # Nil => nd2[w[k]].next = nd[w[k]].next
  BY <1>1 DEF Exact
<1>5. Follows(w, nd2, hs2, h)
  BY <1>2, <1>3, <1>4 DEF Follows
<1>6. w = Chain(nd2, hs2, h)
  BY <1>5, ChainFollows, FollowsUnique
<1>. QED  BY <1>1, <1>6 DEF Exact

\* hashid_insert puts the node in front of its bucket's chain.
LEMMA LinkChains ==
    ASSUME NEW nd \in NodeArrays, NEW hs \in HeadArrays, AllExact(nd, hs),
           NEW c \in Slots, nd[c].id = Nil,
           NEW id \in Ids, id # Nil, NEW b \in Buckets, b = Bucket(id),
           NEW nd2, nd2 = [nd EXCEPT ![c] = [id |-> id, next |-> hs[b]]],
           NEW hs2, hs2 = [hs EXCEPT ![b] = c]
    PROVE  nd2 \in NodeArrays /\ hs2 \in HeadArrays /\ AllExact(nd2, hs2)
<1>1. nd2 \in NodeArrays /\ hs2 \in HeadArrays
  BY DEF NodeArrays, HeadArrays
<1>2. nd2[c].id = id /\ nd2[c].next = hs[b] /\ \A i \in Slots : i # c => nd2[i] = nd[i]
  BY DEF NodeArrays
<1>3. hs2[b] = c /\ \A h \in Buckets : h # b => hs2[h] = hs[h]
  BY DEF HeadArrays
<1>4. \A h \in Buckets : c \notin InBucket(nd, h)
  BY DEF InBucket
<1>5. \A h \in Buckets : h # b => InBucket(nd2, h) = InBucket(nd, h)
  BY <1>2 DEF InBucket
<1>6. InBucket(nd2, b) = InBucket(nd, b) \cup {c}
  BY <1>2 DEF InBucket
<1>7. ASSUME NEW h \in Buckets, h # b  PROVE Exact(Chain(nd2, hs2, h), nd2, h)
  <2>1. \A i \in InBucket(nd, h) : nd2[i].next = nd[i].next
    BY <1>2, <1>4 DEF InBucket
  <2>2. hs2[h] = hs[h] /\ InBucket(nd2, h) = InBucket(nd, h)
    BY <1>3, <1>5, <1>7
  <2>3. Exact(Chain(nd, hs, h), nd, h)
    BY DEF AllExact
  <2>. QED  BY <1>1, <2>1, <2>2, <2>3, OtherBucket
<1>8. Exact(Chain(nd2, hs2, b), nd2, b)
  <2>1. PICK w : w = Chain(nd, hs, b)
    OBVIOUS
  <2>2. Follows(w, nd, hs, b)
    BY <2>1, ChainFollows
  <2>3. Exact(w, nd, b)
    BY <2>1 DEF AllExact
  <2>4. \A k \in 0 .. Cap : w[k] # Nil => w[k] # c /\ w[k] \in Slots
    BY <1>4, <2>3 DEF Exact, InBucket
  <2> DEFINE v == [k \in 0 .. Cap |-> IF k = 0 THEN c ELSE w[k - 1]]
  <2>5. /\ v[0] = c /\ 0 \in 0 .. Cap
        /\ \A k \in 1 .. Cap : v[k] = w[k - 1] /\ k - 1 \in 0 .. Cap /\ k # 0
        /\ \A k \in 0 .. Cap : k # 0 => k \in 1 .. Cap
        /\ Cap \in 1 .. Cap
    BY CapAssumption
  <2>6. c # Nil
    BY CapAssumption DEF Slots, Nil
  <2>7. v \in [0 .. Cap -> Slots \cup {Nil}]
    <3>1. \A k \in 0 .. Cap : v[k] \in Slots \cup {Nil}
      <4> HIDE DEF v
      <4>. QED  BY <2>2, <2>5 DEF Follows
    <3>2. v = [k \in 0 .. Cap |-> v[k]]
      OBVIOUS
    <3> HIDE DEF v
    <3>. QED  BY <3>1, <3>2
  <2> HIDE DEF v
  <2>8. ASSUME NEW k \in 1 .. Cap
        PROVE  v[k] = IF v[k - 1] = Nil THEN Nil ELSE nd2[v[k - 1]].next
    <3>1. CASE k = 1
      <4>1. v[k - 1] = c /\ v[k] = w[0]
        BY <2>5, <3>1
      <4>. QED  BY <1>2, <2>2, <2>6, <4>1 DEF Follows
    <3>2. CASE k # 1
      <4>1. k - 1 \in 1 .. Cap /\ (k - 1) - 1 \in 0 .. Cap
        BY CapAssumption, <3>2
      <4>2. v[k] = w[k - 1] /\ v[k - 1] = w[(k - 1) - 1]
        BY <2>5, <4>1
      <4>3. w[k - 1] = IF w[(k - 1) - 1] = Nil THEN Nil ELSE nd[w[(k - 1) - 1]].next
        BY <2>2, <4>1 DEF Follows
      <4>4. w[(k - 1) - 1] # Nil => nd2[w[(k - 1) - 1]] = nd[w[(k - 1) - 1]]
        BY <1>2, <2>4, <4>1
      <4>. QED  BY <4>2, <4>3, <4>4
    <3>. QED  BY <3>1, <3>2
  <2>9. Follows(v, nd2, hs2, b)
    BY <1>3, <2>5, <2>7, <2>8 DEF Follows
  <2>10. v = Chain(nd2, hs2, b)
    BY <1>1, <2>9, ChainFollows, FollowsUnique
  <2>11. \A j, k \in 0 .. Cap : v[j] # Nil /\ v[j] = v[k] => j = k
    <3>1. SUFFICES ASSUME NEW j \in 0 .. Cap, NEW k \in 0 .. Cap, v[j] # Nil, v[j] = v[k]
                   PROVE  j = k
      OBVIOUS
    <3>2. CASE j = 0 \/ k = 0
      BY <2>4, <2>5, <3>1, <3>2
    <3>3. CASE j # 0 /\ k # 0
      <4>1. j - 1 = k - 1
        BY <2>3, <2>5, <3>1, <3>3 DEF Exact
      <4>. QED  BY <4>1
    <3>. QED  BY <3>2, <3>3
  <2>12. v[Cap] = Nil
    BY <2>9, <2>11, ChainEnds
  <2>13. \A k \in 0 .. Cap : v[k] # Nil => v[k] \in InBucket(nd2, b)
    BY <1>6, <2>3, <2>5 DEF Exact
  <2>14. ASSUME NEW i \in InBucket(nd2, b)  PROVE \E k \in 0 .. Cap : v[k] = i
    <3>1. CASE i = c
      BY <2>5, <3>1
    <3>2. CASE i # c
      <4>1. PICK k \in 0 .. Cap : w[k] = i
        BY <1>6, <2>3, <3>2 DEF Exact
      <4>2. i # Nil
        BY CapAssumption DEF InBucket, Slots, Nil
      <4>3. k # Cap
        BY <2>3, <4>1, <4>2 DEF Exact
      <4>4. k + 1 \in 1 .. Cap /\ k + 1 \in 0 .. Cap /\ (k + 1) - 1 = k
        BY CapAssumption, <4>3
      <4>5. v[k + 1] = i
        BY <2>5, <4>1, <4>4
      <4>. QED  BY <4>4, <4>5
    <3>. QED  BY <3>1, <3>2
  <2>. QED  BY <2>10, <2>11, <2>12, <2>13, <2>14 DEF Exact
<1>. QED  BY <1>1, <1>7, <1>8 DEF AllExact

\* hashid_remove closes the chain around the node it blanks.
LEMMA UnlinkChains ==
    ASSUME NEW nd \in NodeArrays, NEW hs \in HeadArrays, AllExact(nd, hs),
           NEW b \in Buckets, NEW w, w = Chain(nd, hs, b),
           NEW k \in 0 .. Cap, w[k] # Nil,
           NEW nd2, NEW hs2,
           k = 0 => /\ hs2 = [hs EXCEPT ![b] = nd[w[0]].next]
                    /\ nd2 = [nd EXCEPT ![w[0]] = BlankNode],
           k # 0 => /\ nd2 = [nd EXCEPT ![w[k - 1]].next = nd[w[k]].next, ![w[k]] = BlankNode]
                    /\ hs2 = hs
    PROVE  /\ nd2 \in NodeArrays /\ hs2 \in HeadArrays /\ AllExact(nd2, hs2)
           /\ w[k] \in Slots /\ nd[w[k]].id # Nil
           /\ nd2[w[k]] = BlankNode
           /\ \A i \in Slots : i # w[k] => nd2[i].id = nd[i].id
           /\ \A i \in Slots : nd[i].id # Nil \/ i = w[k] \/ nd2[i] = nd[i]
<1>1. Follows(w, nd, hs, b) /\ Exact(w, nd, b)
  BY ChainFollows DEF AllExact
<1>2. /\ Cap \in Nat /\ Cap \in 0 .. Cap /\ 0 \in 0 .. Cap /\ k \in Nat /\ k <= Cap
      /\ \A j \in 0 .. Cap : j \in Nat /\ j <= Cap /\ (j # 0 => j - 1 \in 0 .. Cap)
      /\ \A j \in 0 .. Cap : j # Cap => j + 1 \in 1 .. Cap /\ j + 1 \in 0 .. Cap /\ (j + 1) - 1 = j
      /\ \A j \in 1 .. Cap : j \in 0 .. Cap /\ j - 1 \in 0 .. Cap
      /\ 0 # Cap
  BY CapAssumption
<1>3. PICK s : s = w[k]
  OBVIOUS
<1>4. s \in InBucket(nd, b) /\ s \in Slots /\ nd[s].id # Nil /\ Bucket(nd[s].id) = b
  BY <1>1, <1>3 DEF Exact, InBucket
<1>5. k # Cap
  BY <1>1 DEF Exact
<1>6. \A j \in 0 .. Cap : j # k => w[j] # s
  BY <1>1, <1>3 DEF Exact
<1>7. \A j \in 0 .. Cap : j # Cap => w[j + 1] = IF w[j] = Nil THEN Nil ELSE nd[w[j]].next
  BY <1>1, <1>2 DEF Follows
\* The node before the one found, when there is one.
<1>8. k # 0 => /\ w[k - 1] # Nil /\ w[k - 1] \in InBucket(nd, b) /\ w[k - 1] \in Slots
               /\ w[k - 1] # s /\ k - 1 \in 0 .. Cap
  <2>1. SUFFICES ASSUME k # 0
                 PROVE  /\ w[k - 1] # Nil /\ w[k - 1] \in InBucket(nd, b) /\ w[k - 1] \in Slots
                        /\ w[k - 1] # s /\ k - 1 \in 0 .. Cap
    OBVIOUS
  <2>2. k - 1 \in 0 .. Cap /\ k - 1 <= k /\ k - 1 # k
    BY <1>2, <2>1
  <2>3. w[k - 1] # Nil
    BY <1>1, <2>2, NilAbsorbs
  <2>. QED  BY <1>1, <1>6, <2>2, <2>3 DEF Exact, InBucket
<1>9. nd2 \in NodeArrays /\ hs2 \in HeadArrays
  <2>1. BlankNode \in [id : Ids \cup {Nil}, next : Slots \cup {Nil}]
    BY DEF BlankNode
  <2>2. nd[s].next \in Slots \cup {Nil}
    BY <1>4 DEF NodeArrays
  <2>3. CASE k = 0
    BY <1>3, <1>4, <2>1, <2>2, <2>3 DEF NodeArrays, HeadArrays
  <2>4. CASE k # 0
    BY <1>3, <1>4, <1>8, <2>1, <2>2, <2>4 DEF NodeArrays, HeadArrays
  <2>. QED  BY <2>3, <2>4
<1>10. /\ nd2[s] = BlankNode
       /\ k # 0 => nd2[w[k - 1]].next = nd[s].next /\ nd2[w[k - 1]].id = nd[w[k - 1]].id
       /\ \A i \in Slots : i # s /\ (k # 0 => i # w[k - 1]) => nd2[i] = nd[i]
  <2>1. CASE k = 0
    BY <1>3, <1>4, <2>1 DEF NodeArrays
  <2>2. CASE k # 0
    BY <1>3, <1>4, <1>8, <2>2 DEF NodeArrays
  <2>. QED  BY <2>1, <2>2
<1>11. /\ k = 0 => hs2[b] = nd[s].next
       /\ k # 0 => hs2[b] = hs[b]
       /\ \A h \in Buckets : h # b => hs2[h] = hs[h]
  BY <1>3 DEF HeadArrays
<1>12. \A i \in Slots : i # s => nd2[i].id = nd[i].id
  BY <1>10
<1>13. \A i \in Slots : nd[i].id # Nil \/ i = s \/ nd2[i] = nd[i]
  BY <1>8, <1>10 DEF InBucket
<1>14. \A h \in Buckets : h # b => InBucket(nd2, h) = InBucket(nd, h)
  BY <1>4, <1>10, <1>12 DEF InBucket, BlankNode
<1>15. InBucket(nd2, b) = InBucket(nd, b) \ {s}
  BY <1>4, <1>10, <1>12 DEF InBucket, BlankNode
<1>16. ASSUME NEW h \in Buckets, h # b  PROVE Exact(Chain(nd2, hs2, h), nd2, h)
  <2>1. s \notin InBucket(nd, h) /\ (k # 0 => w[k - 1] \notin InBucket(nd, h))
    BY <1>4, <1>8, <1>16 DEF InBucket
  <2>2. \A i \in InBucket(nd, h) : nd2[i].next = nd[i].next
    BY <1>10, <2>1 DEF InBucket
  <2>3. hs2[h] = hs[h] /\ InBucket(nd2, h) = InBucket(nd, h)
    BY <1>11, <1>14, <1>16
  <2>4. Exact(Chain(nd, hs, h), nd, h)
    BY DEF AllExact
  <2>. QED  BY <1>9, <2>2, <2>3, <2>4, OtherBucket
<1>17. Exact(Chain(nd2, hs2, b), nd2, b)
  <2> DEFINE v == [j \in 0 .. Cap |-> IF j < k THEN w[j]
                                      ELSE IF j # Cap THEN w[j + 1] ELSE Nil]
  <2>1. /\ \A j \in 0 .. Cap : j < k => v[j] = w[j]
        /\ \A j \in 0 .. Cap : ~(j < k) /\ j # Cap => v[j] = w[j + 1]
        /\ v[Cap] = Nil
    BY <1>2
  <2>2. v \in [0 .. Cap -> Slots \cup {Nil}]
    <3>1. \A j \in 0 .. Cap : v[j] \in Slots \cup {Nil}
      <4> HIDE DEF v
      <4>1. \A j \in 0 .. Cap : w[j] \in Slots \cup {Nil}
        BY <1>1 DEF Follows
      <4>. QED  BY <1>2, <2>1, <4>1
    <3>2. v = [j \in 0 .. Cap |-> v[j]]
      OBVIOUS
    <3> HIDE DEF v
    <3>. QED  BY <3>1, <3>2
  <2> HIDE DEF v
  <2>3. v[0] = hs2[b]
    <3>1. CASE k = 0
      <4>0. 0 \in 0 .. Cap /\ ~(0 < k) /\ 0 # Cap
        BY <1>2, <3>1
      <4>1. v[0] = w[0 + 1]
        BY <2>1, <4>0
      <4>2. w[0 + 1] = nd[s].next
        BY <1>2, <1>3, <1>7, <3>1
      <4>. QED  BY <1>11, <3>1, <4>1, <4>2
    <3>2. CASE k # 0
      BY <1>1, <1>2, <1>11, <2>1, <3>2 DEF Follows
    <3>. QED  BY <3>1, <3>2
  <2>4. ASSUME NEW j \in 1 .. Cap
        PROVE  v[j] = IF v[j - 1] = Nil THEN Nil ELSE nd2[v[j - 1]].next
    <3>1. j \in 0 .. Cap /\ j - 1 \in 0 .. Cap /\ j - 1 # Cap /\ (j - 1) + 1 = j
      BY <1>2
    <3>2. w[j] = IF w[j - 1] = Nil THEN Nil ELSE nd[w[j - 1]].next
      BY <1>1 DEF Follows
    <3>3. CASE j < k
      <4>1. v[j - 1] = w[j - 1] /\ v[j] = w[j]
        BY <1>2, <2>1, <3>1, <3>3
      <4>2. j - 1 # k /\ j - 1 # k - 1 /\ k # 0 /\ j - 1 <= k
        BY <1>2, <3>1, <3>3
      <4>3. w[j - 1] # Nil
        BY <1>1, <3>1, <4>2, NilAbsorbs
      <4>4. w[j - 1] # s /\ w[j - 1] # w[k - 1] /\ w[j - 1] \in Slots
        BY <1>1, <1>6, <1>8, <3>1, <4>2, <4>3 DEF Exact, InBucket
      <4>. QED  BY <1>10, <3>2, <4>1, <4>2, <4>3, <4>4
    <3>4. CASE j = k
      <4>1. v[j - 1] = w[k - 1] /\ v[j] = w[k + 1] /\ k # 0
        BY <1>2, <1>5, <2>1, <3>1, <3>4
      <4>2. w[k + 1] = nd[s].next
        BY <1>3, <1>5, <1>7
      <4>. QED  BY <1>8, <1>10, <4>1, <4>2
    <3>5. CASE j > k
      <4>1. v[j - 1] = w[j]
        BY <1>2, <2>1, <3>1, <3>5
      <4>2. v[j] = IF j = Cap THEN Nil ELSE w[j + 1]
        BY <1>2, <2>1, <3>1, <3>5
      <4>3. CASE w[j] = Nil
        BY <1>7, <3>1, <4>1, <4>2, <4>3
      <4>4. CASE w[j] # Nil
        <5>1. j # Cap
          BY <1>1, <4>4 DEF Exact
        <5>2. w[j] # s /\ (k # 0 => w[j] # w[k - 1]) /\ w[j] \in Slots
          BY <1>1, <1>2, <1>6, <1>8, <3>1, <3>5, <4>4 DEF Exact, InBucket
        <5>3. nd2[w[j]] = nd[w[j]]
          BY <1>10, <5>2
        <5>. QED  BY <1>7, <3>1, <4>1, <4>2, <4>4, <5>1, <5>3
      <4>. QED  BY <4>3, <4>4
    <3>. QED  BY <1>2, <3>1, <3>3, <3>4, <3>5
  <2>5. Follows(v, nd2, hs2, b)
    BY <2>2, <2>3, <2>4 DEF Follows
  <2>6. v = Chain(nd2, hs2, b)
    BY <1>9, <2>5, ChainFollows, FollowsUnique
  \* Every node that v meets is one that w meets, elsewhere than at step k.
  <2> DEFINE from == [j \in 0 .. Cap |-> IF j < k THEN j ELSE j + 1]
  <2>7. ASSUME NEW j \in 0 .. Cap, v[j] # Nil
        PROVE  from[j] \in 0 .. Cap /\ from[j] # k /\ v[j] = w[from[j]]
    <3>1. CASE j < k
      BY <1>2, <2>1, <3>1
    <3>2. CASE ~(j < k)
      BY <1>2, <2>1, <2>7, <3>2
    <3>. QED  BY <3>1, <3>2
  <2>8. \A i, j \in 0 .. Cap : from[i] = from[j] => i = j
    BY <1>2
  <2> HIDE DEF from
  <2>9. \A i, j \in 0 .. Cap : v[i] # Nil /\ v[i] = v[j] => i = j
    BY <1>1, <2>7, <2>8 DEF Exact
  <2>10. \A j \in 0 .. Cap : v[j] # Nil => v[j] \in InBucket(nd2, b)
    BY <1>1, <1>6, <1>15, <2>7 DEF Exact
  <2>11. ASSUME NEW i \in InBucket(nd2, b)  PROVE \E j \in 0 .. Cap : v[j] = i
    <3>1. PICK j \in 0 .. Cap : w[j] = i
      BY <1>1, <1>15 DEF Exact
    <3>2. j # k /\ i # Nil
      BY <1>3, <1>15, <3>1, CapAssumption DEF InBucket, Slots, Nil
    <3>3. CASE j < k
      BY <2>1, <3>1, <3>3
    <3>4. CASE ~(j < k)
      <4>1. j # 0 /\ j - 1 \in 0 .. Cap /\ ~(j - 1 < k) /\ j - 1 # Cap /\ (j - 1) + 1 = j
        BY <1>2, <3>2, <3>4
      <4>2. v[j - 1] = i
        BY <2>1, <3>1, <4>1
      <4>. QED  BY <4>1, <4>2
    <3>. QED  BY <3>3, <3>4
  <2>. QED  BY <2>1, <2>6, <2>9, <2>10, <2>11 DEF Exact
<1>18. AllExact(nd2, hs2)
  BY <1>16, <1>17 DEF AllExact
<1>. QED  BY <1>3, <1>4, <1>9, <1>10, <1>12, <1>13, <1>18

-----------------------------------------------------------------------------
(* The inductive invariant: the abstract table's, exact chains, and that an *)
(* empty node carries no stale link, which is what assert(c->next == NULL)  *)
(* needs and ChainsExact does not say.                                      *)
HashInv ==
    /\ TypeOK
    /\ InsertSafe
    /\ Table!TableInv
    /\ \A i \in Slots : node[i].id = Nil => node[i].next = Nil
    /\ AllExact(node, hash)

\* What IdTable assumes of the ids.
LEMMA IdsAreNaturals ==
    ASSUME SafeIds
    PROVE  Ids \subseteq Nat
BY DEF SafeIds

\* The ids that the nodes hold make up the abstract table.
Held(nd) == [i \in Slots |-> nd[i].id]

LEMMA TableIs == Table!TableInv <=> Tabled(Held(node), Cap, Ids, Nil, count)
<1> DEFINE h == Held(node)
<1>1. h = [i \in 0 .. Cap - 1 |-> node[i].id]
  BY DEF Held, Slots
<1>2. Table!TableTypeOK <=> h \in [0 .. Cap - 1 -> Ids \cup {-1}] /\ count \in 0 .. Cap
  BY <1>1 DEF Table!TableTypeOK, Table!Slots, Table!Nil, Slots
<1>3. Table!UsedSlots = InUse(h, Cap, -1)
  BY <1>1 DEF Table!UsedSlots, Table!Slots, Table!Nil, Slots, InUse
<1>4. Table!CountExact <=> count = Cardinality(InUse(h, Cap, -1))
  <2>1. \A S : Table!Cardinality(S) = Cardinality(S)
    BY DEF Table!Cardinality, Cardinality
  <2>. QED  BY <1>3, <2>1 DEF Table!CountExact
<1>5. Table!IdsUnique <=> \A i, j \in InUse(h, Cap, -1) : h[i] = h[j] => i = j
  BY <1>1, <1>3 DEF Table!IdsUnique, Slots
<1> HIDE DEF h
<1>. QED  BY <1>2, <1>4, <1>5 DEF Table!TableInv, Tabled, Nil, h

LEMMA TableNextIs ==
    ASSUME Tabled(Held(node'), Cap, Ids, Nil, count')
    PROVE  Table!TableInv'
<1> DEFINE h == Held(node')
<1>1. h = [i \in 0 .. Cap - 1 |-> node'[i].id]
  BY DEF Held, Slots
<1>2. Table!TableTypeOK' <=> h \in [0 .. Cap - 1 -> Ids \cup {-1}] /\ count' \in 0 .. Cap
  BY <1>1 DEF Table!TableTypeOK, Table!Slots, Table!Nil, Slots
<1>3. Table!UsedSlots' = InUse(h, Cap, -1)
  BY <1>1 DEF Table!UsedSlots, Table!Slots, Table!Nil, Slots, InUse
<1>4. Table!CountExact' <=> count' = Cardinality(InUse(h, Cap, -1))
  <2>1. \A S : Table!Cardinality(S) = Cardinality(S)
    BY DEF Table!Cardinality, Cardinality
  <2>. QED  BY <1>3, <2>1 DEF Table!CountExact
<1>5. Table!IdsUnique' <=> \A i, j \in InUse(h, Cap, -1) : h[i] = h[j] => i = j
  BY <1>1, <1>3 DEF Table!IdsUnique, Slots
<1> HIDE DEF h
<1>. QED  BY <1>2, <1>4, <1>5 DEF Table!TableInv, Tabled, Nil, h

\* While the counter is below Cap, the loop of hashid_insert finds a node.
LEMMA NotFullHasFree ==
    ASSUME Table!TableInv, ~Table!Full, NEW id \in Nat
    PROVE  Table!FreeProbes(id) # {}
<1>1. Tabled(Held(node), Cap, Ids, Nil, count) /\ count # Cap /\ Cap \in Nat \ {0}
  BY TableIs, CapAssumption DEF Table!Full
<1>2. PICK s \in 0 .. Cap - 1 : Held(node)[s] = Nil
  BY <1>1, TableRoom
<1>3. PICK i \in 0 .. Cap - 1 : (i + id) % Cap = s
  BY <1>1, ProbesCover
<1>. QED  BY <1>2, <1>3 DEF Table!FreeProbes, Table!Probe, Table!Slots, Table!Nil, Nil, Held

LEMMA WalkIsChain ==
    ASSUME NEW h
    PROVE  Walk(h) = Chain(node, hash, h)
BY DEF Walk, Chain

LEMMA BucketInRange ==
    ASSUME NEW id \in Nat
    PROVE  Bucket(id) \in Buckets
<1>1. HashCap \in Nat /\ HashCap > 0
  BY HashCapPositive
<1>2. id % HashCap \in 0 .. HashCap - 1
  BY <1>1
<1>. QED  BY <1>2 DEF Bucket, Buckets

\* Without overflow the probes are the abstract table's and stay inside it.
LEMMA ProbesAgree ==
    ASSUME SafeIds, NEW id \in Ids, NEW i \in Slots
    PROVE  ProbeIndex(id, i) = Table!Probe(id, i) /\ ProbeIndex(id, i) \in Slots
<1>1. id \in Nat /\ i \in Nat /\ i + id \in Nat /\ ~(i + id > IntMax) /\ ~(i + id < 0)
  BY CapAssumption, IntMaxAssumption DEF SafeIds, Slots
<1>2. ProbeIndex(id, i) = (i + id) % Cap
  BY <1>1 DEF ProbeIndex, AddInt, CRem
<1>3. (i + id) % Cap \in 0 .. Cap - 1
  BY <1>1, CapAssumption
<1>. QED  BY <1>2, <1>3 DEF Table!Probe, Slots

LEMMA StopsAgree ==
    ASSUME SafeIds, NEW id \in Ids, NEW stray \in BOOLEAN
    PROVE  Stops(id, stray) = Table!FreeProbes(id)
<1> DEFINE P(i) == ProbeIndex(id, i)
<1>1. Stops(id, stray) = {i \in Slots : node[P(i)].id = Nil}
  BY ProbesAgree DEF Stops
<1>2. Table!FreeProbes(id) = {i \in Slots : node[P(i)].id = Nil}
  BY ProbesAgree DEF Table!FreeProbes, Table!Slots, Slots, Table!Nil, Nil
<1>. QED  BY <1>1, <1>2

\* The step at which the loop stops is one that stands on the id.
LEMMA FirstIsMember ==
    ASSUME NEW K \in SUBSET Nat, K # {}
    PROVE  First(K) \in K
<1>1. \E k \in K : \A j \in K : k <= j
  BY LeastNatural
<1>. QED  BY <1>1 DEF First

LEMMA HitFound ==
    ASSUME NEW id, Hits(id) # {}
    PROVE  /\ First(Hits(id)) \in 0 .. Cap
           /\ Walk(Bucket(id))[First(Hits(id))] # Nil
           /\ node[Walk(Bucket(id))[First(Hits(id))]].id = id
<1>1. Hits(id) \in SUBSET Nat
  BY CapAssumption DEF Hits
<1>2. First(Hits(id)) \in Hits(id)
  BY <1>1, FirstIsMember
<1>. QED  BY <1>2 DEF Hits

\* The chain of an id's bucket meets the id exactly when a slot holds it.
LEMMA LookupSame ==
    ASSUME HashInv, SafeIds, NEW id \in Ids
    PROVE  hashid_lookup(id) = Table!Lookup(id)
<1>1. id \in Nat /\ id # Nil
  BY DEF SafeIds, Nil
<1>2. PICK b \in Buckets : b = Bucket(id)
  BY <1>1, BucketInRange
<1>3. PICK w : w = Chain(node, hash, b) /\ w = Walk(b)
  BY WalkIsChain
<1>4. Exact(w, node, b)
  BY <1>3 DEF HashInv, AllExact
<1>5. \A i \in Slots : node[i].id = id => i \in InBucket(node, b)
  BY <1>1, <1>2 DEF InBucket
<1>6. Table!UsedSlots = {i \in Slots : node[i].id # Nil}
  BY DEF Table!UsedSlots, Table!Slots, Slots, Table!Nil, Nil
<1>7. \A i, j \in Slots : node[i].id = id /\ node[j].id = id => i = j
  <2>1. \A i, j \in Table!UsedSlots : node[i].id = node[j].id => i = j
    BY <1>6 DEF HashInv, Table!TableInv, Table!IdsUnique
  <2>. QED  BY <1>1, <1>6, <2>1
<1>8. CASE Hits(id) = {}
  <2>1. \A k \in 0 .. Cap : ~(w[k] # Nil /\ node[w[k]].id = id)
    BY <1>2, <1>3, <1>8 DEF Hits
  <2>2. \A i \in Slots : i # Nil
    BY CapAssumption DEF Slots, Nil
  <2>3. \A i \in Slots : node[i].id # id
    BY <1>4, <1>5, <2>1, <2>2 DEF Exact
  <2>4. ~ \E i \in Table!UsedSlots : node[i].id = id
    BY <1>6, <2>3
  <2>5. Table!Lookup(id) = Nil
    BY <1>6, <2>4 DEF Table!Lookup, Table!Nil, Nil
  <2>. QED  BY <1>8, <2>5 DEF hashid_lookup
<1>9. CASE Hits(id) # {}
  <2>1. PICK c : c = w[First(Hits(id))]
    OBVIOUS
  <2>2. c = hashid_lookup(id) /\ c # Nil /\ node[c].id = id /\ First(Hits(id)) \in 0 .. Cap
    BY <1>2, <1>3, <1>9, <2>1, HitFound DEF hashid_lookup
  <2>3. c \in Slots
    BY <1>4, <2>1, <2>2 DEF Exact, InBucket
  <2>4. c \in Table!UsedSlots /\ \A i \in Table!UsedSlots : node[i].id = id => i = c
    BY <1>1, <1>6, <1>7, <2>2, <2>3
  <2>5. Table!Lookup(id) = c
    BY <1>6, <2>2, <2>4 DEF Table!Lookup
  <2>. QED  BY <2>2, <2>5
<1>. QED  BY <1>8, <1>9

\* A legal insertion links a fresh node and is the abstract table's insertion.
LEMMA InsertStep ==
    ASSUME HashInv, SafeIds, NEW id \in Ids, hashid_insert(id)
    PROVE  HashInv' /\ ~Table!Full /\ Table!Lookup(id) = Nil /\ Table!InsertId(id)
<1>1. id \in Nat /\ id # Nil /\ id # -1
  BY DEF SafeIds, Nil
<1>2. ~Table!Full /\ Table!Lookup(id) = Nil
  BY <1>1, LookupSame DEF hashid_insert, hashid_full, Table!Full
<1>3. Table!FreeProbes(id) # {}
  BY <1>1, <1>2, NotFullHasFree DEF HashInv
<1>4. PICK c : c = ProbeIndex(id, First(Table!FreeProbes(id)))
  OBVIOUS
<1>5. First(Table!FreeProbes(id)) \in Table!FreeProbes(id)
  <2>1. Table!FreeProbes(id) \in SUBSET Nat
    BY CapAssumption DEF Table!FreeProbes, Table!Slots
  <2>. QED  BY <1>3, <2>1, FirstIsMember
<1>6. First(Table!FreeProbes(id)) \in Slots
  BY <1>5 DEF Table!FreeProbes, Table!Slots, Slots
<1>7. c = Table!FirstFree(id) /\ c \in Slots
  <2>1. c = Table!Probe(id, First(Table!FreeProbes(id))) /\ c \in Slots
    BY <1>4, <1>6, ProbesAgree
  <2>. QED  BY <2>1 DEF Table!FirstFree, First
<1>8. node[c].id = Nil
  <2>1. c = Table!Probe(id, First(Table!FreeProbes(id)))
    BY <1>4, <1>6, ProbesAgree
  <2>2. [i \in Slots |-> node[i].id][c] = Table!Nil
    BY <1>5, <2>1 DEF Table!FreeProbes
  <2>. QED  BY <1>7, <2>2 DEF Table!Nil, Nil
<1>9. node[c].next = Nil
  BY <1>7, <1>8 DEF HashInv
<1>10. Link(c, id)
  BY <1>3, <1>4, <1>7, <1>9, StopsAgree DEF hashid_insert
<1>11. PICK b \in Buckets : b = Bucket(id)
  BY <1>1, BucketInRange
<1>12. node \in NodeArrays /\ hash \in HeadArrays /\ AllExact(node, hash)
  BY DEF HashInv, TypeOK, NodeArrays, HeadArrays, Buckets
<1>13. /\ node' = [node EXCEPT ![c] = [id |-> id, next |-> hash[b]]]
       /\ hash' = [hash EXCEPT ![b] = c]
       /\ count' = count + 1 /\ status' = status
  BY <1>10, <1>11 DEF Link
<1>14. node' \in NodeArrays /\ hash' \in HeadArrays /\ AllExact(node', hash')
  BY <1>1, <1>7, <1>8, <1>11, <1>12, <1>13, LinkChains
<1>15. Table!InsertId(id)
  <2>1. \A i \in Slots : node'[i].id = IF i = c THEN id ELSE node[i].id
    BY <1>7, <1>12, <1>13 DEF NodeArrays
  <2>2. [i \in Slots |-> node'[i].id] = [[i \in Slots |-> node[i].id] EXCEPT ![c] = id]
    BY <1>7, <2>1
  <2>. QED  BY <1>3, <1>7, <1>13, <2>2 DEF Table!InsertId
<1>16. Table!TableInv'
  <2>1. Tabled(Held(node), Cap, Ids, Nil, count) /\ count # Cap /\ Cap \in Nat \ {0}
    BY <1>2, TableIs, CapAssumption DEF HashInv, Table!Full
  <2>2. Held(node') = [Held(node) EXCEPT ![c] = id]
    <3>1. \A i \in Slots : node'[i].id = IF i = c THEN id ELSE node[i].id
      BY <1>7, <1>12, <1>13 DEF NodeArrays
    <3>. QED  BY <1>7, <3>1 DEF Held
  <2>3. c \in 0 .. Cap - 1 /\ Held(node)[c] = Nil
    BY <1>7, <1>8 DEF Held, Slots
  <2>4. \A i \in InUse(Held(node), Cap, Nil) : Held(node)[i] # id
    <3>1. ASSUME NEW i \in InUse(Held(node), Cap, Nil), Held(node)[i] = id  PROVE FALSE
      <4>1. i \in Table!UsedSlots /\ [x \in Slots |-> node[x].id][i] = id /\ i \in Nat
        BY <3>1, CapAssumption DEF InUse, Held, Table!UsedSlots, Table!Slots, Slots, Table!Nil, Nil
      <4>2. Table!Lookup(id) \in Table!UsedSlots
        BY <4>1, Zenon DEF Table!Lookup
      <4>. QED  BY <1>2, <4>2, CapAssumption DEF Table!UsedSlots, Table!Slots, Nil
    <3>. QED  BY <3>1
  <2>5. Tabled(Held(node'), Cap, Ids, Nil, count + 1)
    BY <1>1, <2>1, <2>2, <2>3, <2>4, TableGains
  <2>. QED  BY <1>13, <2>5, TableNextIs
<1>17. TypeOK'
  <2>1. count' \in 0 .. Cap
    BY <1>16 DEF Table!TableInv, Table!TableTypeOK
  <2>. QED  BY <1>13, <1>14, <2>1 DEF TypeOK, HashInv, NodeArrays, HeadArrays, Buckets
<1>18. InsertSafe'
  BY <1>13 DEF HashInv, InsertSafe
<1>19. \A i \in Slots : node'[i].id = Nil => node'[i].next = Nil
  <2>1. node'[c].id = id /\ \A i \in Slots : i # c => node'[i] = node[i]
    BY <1>7, <1>12, <1>13 DEF NodeArrays
  <2>. QED  BY <1>1, <2>1 DEF HashInv
<1>. QED  BY <1>2, <1>14, <1>15, <1>16, <1>17, <1>18, <1>19 DEF HashInv

\* A removal unlinks the one node of the id and is the abstract table's.
LEMMA RemoveStep ==
    ASSUME HashInv, SafeIds, NEW id \in Ids, hashid_remove(id)
    PROVE  HashInv' /\ Table!RemoveId(id)
<1>1. id \in Nat /\ id # Nil
  BY DEF SafeIds, Nil
<1>2. PICK b \in Buckets : b = Bucket(id)
  BY <1>1, BucketInRange
<1>3. PICK w : w = Chain(node, hash, b) /\ w = Walk(b)
  BY WalkIsChain
<1>4. PICK k : k = First(Hits(id))
  OBVIOUS
<1>5. k \in 0 .. Cap /\ w[k] # Nil /\ node[w[k]].id = id /\ hashid_lookup(id) = w[k]
  BY <1>2, <1>3, <1>4, HitFound DEF hashid_remove, hashid_lookup
<1>6. node \in NodeArrays /\ hash \in HeadArrays /\ AllExact(node, hash)
  BY DEF HashInv, TypeOK, NodeArrays, HeadArrays, Buckets
<1>7. /\ k = 0 => /\ hash' = [hash EXCEPT ![b] = node[w[0]].next]
                  /\ node' = [node EXCEPT ![w[0]] = BlankNode]
      /\ k # 0 => /\ node' = [node EXCEPT ![w[k - 1]].next = node[w[k]].next,
                                          ![w[k]] = BlankNode]
                  /\ hash' = hash
      /\ count' = count - 1 /\ status' = status
  BY <1>2, <1>3, <1>4 DEF hashid_remove
<1>8. /\ node' \in NodeArrays /\ hash' \in HeadArrays /\ AllExact(node', hash')
      /\ w[k] \in Slots /\ node[w[k]].id # Nil
      /\ node'[w[k]] = BlankNode
      /\ \A i \in Slots : i # w[k] => node'[i].id = node[i].id
      /\ \A i \in Slots : node[i].id # Nil \/ i = w[k] \/ node'[i] = node[i]
  <2>1. PICK nd, nd2, hs, hs2 : nd = node /\ nd2 = node' /\ hs = hash /\ hs2 = hash'
    OBVIOUS
  <2>2. /\ k = 0 => /\ hs2 = [hs EXCEPT ![b] = nd[w[0]].next]
                    /\ nd2 = [nd EXCEPT ![w[0]] = BlankNode]
        /\ k # 0 => /\ nd2 = [nd EXCEPT ![w[k - 1]].next = nd[w[k]].next, ![w[k]] = BlankNode]
                    /\ hs2 = hs
    BY <1>7, <2>1
  <2>3. nd \in NodeArrays /\ hs \in HeadArrays /\ AllExact(nd, hs) /\ w = Chain(nd, hs, b)
    BY <1>3, <1>6, <2>1
  <2>4. /\ nd2 \in NodeArrays /\ hs2 \in HeadArrays /\ AllExact(nd2, hs2)
        /\ w[k] \in Slots /\ nd[w[k]].id # Nil
        /\ nd2[w[k]] = BlankNode
        /\ \A i \in Slots : i # w[k] => nd2[i].id = nd[i].id
        /\ \A i \in Slots : nd[i].id # Nil \/ i = w[k] \/ nd2[i] = nd[i]
    BY <1>5, <2>2, <2>3, UnlinkChains
  <2>. QED  BY <2>1, <2>4
<1>9. Table!RemoveId(id)
  <2>1. Table!Lookup(id) = w[k] /\ Table!Lookup(id) # Table!Nil
    BY <1>5, LookupSame DEF Table!Nil, Nil
  <2>2. [i \in Slots |-> node'[i].id] = [[i \in Slots |-> node[i].id] EXCEPT ![w[k]] = Table!Nil]
    <3>1. \A i \in Slots : node'[i].id = IF i = w[k] THEN Table!Nil ELSE node[i].id
      BY <1>8 DEF BlankNode, Table!Nil, Nil
    <3>. QED  BY <1>8, <3>1
  <2>. QED  BY <1>7, <2>1, <2>2 DEF Table!RemoveId
<1>10. Table!TableInv'
  <2>1. Tabled(Held(node), Cap, Ids, Nil, count) /\ Cap \in Nat \ {0}
    BY TableIs, CapAssumption DEF HashInv
  <2>2. w[k] \in InUse(Held(node), Cap, Nil)
    BY <1>1, <1>5, <1>8 DEF InUse, Held, Slots
  <2>3. Held(node') = [Held(node) EXCEPT ![w[k]] = Nil]
    <3>1. \A i \in Slots : node'[i].id = IF i = w[k] THEN Nil ELSE node[i].id
      BY <1>8 DEF BlankNode, Nil
    <3>. QED  BY <1>8, <3>1 DEF Held
  <2>4. PICK s : s = w[k]
    OBVIOUS
  <2>5. Tabled(Held(node'), Cap, Ids, Nil, count - 1)
    BY <2>1, <2>2, <2>3, <2>4, TableLoses
  <2>. QED  BY <1>7, <2>5, TableNextIs
<1>11. TypeOK'
  <2>1. count' \in 0 .. Cap
    BY <1>10 DEF Table!TableInv, Table!TableTypeOK
  <2>. QED  BY <1>7, <1>8, <2>1 DEF TypeOK, HashInv, NodeArrays, HeadArrays, Buckets
<1>12. InsertSafe'
  BY <1>7 DEF HashInv, InsertSafe
<1>13. \A i \in Slots : node'[i].id = Nil => node'[i].next = Nil
  BY <1>8 DEF HashInv, BlankNode
<1>. QED  BY <1>8, <1>9, <1>10, <1>11, <1>12, <1>13 DEF HashInv

\* Empty buckets are exact.
LEMMA BlankChains ==
    /\ BlankNodes \in NodeArrays /\ EmptyHash \in HeadArrays
    /\ AllExact(BlankNodes, EmptyHash)
<1>1. BlankNodes \in NodeArrays /\ EmptyHash \in HeadArrays
  BY DEF BlankNodes, BlankNode, EmptyHash, NodeArrays, HeadArrays, Buckets
<1>2. ASSUME NEW h \in Buckets  PROVE Exact(Chain(BlankNodes, EmptyHash, h), BlankNodes, h)
  <2>1. PICK w : w = Chain(BlankNodes, EmptyHash, h)
    OBVIOUS
  <2>2. Follows(w, BlankNodes, EmptyHash, h)
    BY <1>1, <2>1, ChainFollows
  <2>3. 0 \in 0 .. Cap /\ \A k \in 0 .. Cap : 0 <= k
    BY CapAssumption
  <2>4. w[0] = Nil
    BY <2>2 DEF Follows, EmptyHash, Buckets
  <2>5. \A k \in 0 .. Cap : w[k] = Nil
    BY <2>2, <2>3, <2>4, NilAbsorbs
  <2>6. InBucket(BlankNodes, h) = {}
    BY DEF InBucket, BlankNodes, BlankNode
  <2>7. Cap \in 0 .. Cap
    BY CapAssumption
  <2>. QED  BY <2>1, <2>5, <2>6, <2>7 DEF Exact
<1>. QED  BY <1>1, <1>2 DEF AllExact

LEMMA HashInitInv ==
    ASSUME SafeIds, Init
    PROVE  HashInv /\ Table!TableInit
<1>1. [i \in Slots |-> node[i].id] = Table!EmptyTable /\ count = 0
  BY DEF Init, BlankNodes, BlankNode, Table!EmptyTable, Table!Slots, Slots, Table!Nil, Nil
<1>2. Table!TableInv
  <2>1. Held(node) = [i \in 0 .. Cap - 1 |-> Nil]
    BY DEF Init, BlankNodes, BlankNode, Held, Slots
  <2>. QED  BY <1>1, <2>1, TableIs, TableEmpty, CapAssumption
<1>3. TypeOK
  <2>1. 0 \in 0 .. Cap
    BY CapAssumption
  <2>. QED  BY <2>1, BlankChains DEF Init, TypeOK, NodeArrays, HeadArrays, Buckets
<1>4. InsertSafe
  BY DEF Init, InsertSafe
<1>5. \A i \in Slots : node[i].next = Nil
  BY DEF Init, BlankNodes, BlankNode
<1>. QED  BY <1>1, <1>2, <1>3, <1>4, <1>5, BlankChains DEF Init, HashInv, Table!TableInit

LEMMA ClearStep ==
    ASSUME SafeIds, hashid_clear
    PROVE  HashInv' /\ Table!ClearIds
<1>1. /\ node' = BlankNodes /\ hash' = EmptyHash /\ count' = 0 /\ status' = "freed"
  BY DEF hashid_clear
<1>2. Table!ClearIds
  <2>1. [i \in Slots |-> node'[i].id] = Table!EmptyTable
    BY <1>1 DEF BlankNodes, BlankNode, Table!EmptyTable, Table!Slots, Slots, Table!Nil, Nil
  <2>. QED  BY <1>1, <2>1 DEF Table!ClearIds
<1>3. Table!TableInv'
  <2>1. Held(node') = [i \in 0 .. Cap - 1 |-> Nil]
    BY <1>1 DEF BlankNodes, BlankNode, Held, Slots
  <2>2. Tabled(Held(node'), Cap, Ids, Nil, 0)
    BY <2>1, TableEmpty, CapAssumption
  <2>. QED  BY <1>1, <2>2, TableNextIs
<1>4. TypeOK'
  <2>1. 0 \in 0 .. Cap
    BY CapAssumption
  <2>. QED  BY <1>1, <2>1, BlankChains DEF TypeOK, NodeArrays, HeadArrays, Buckets
<1>5. InsertSafe'
  BY <1>1 DEF InsertSafe
<1>6. \A i \in Slots : node'[i].next = Nil
  BY <1>1 DEF BlankNodes, BlankNode
<1>. QED  BY <1>1, <1>2, <1>3, <1>4, <1>5, <1>6, BlankChains DEF HashInv

LEMMA HashStutter ==
    ASSUME SafeIds, HashInv, UNCHANGED vars
    PROVE  HashInv' /\ UNCHANGED Table!tableVars
<1>1. node' = node /\ hash' = hash /\ count' = count /\ status' = status
  BY DEF vars
<1>2. UNCHANGED Table!tableVars
  BY <1>1 DEF Table!tableVars
<1>3. Table!TableInv'
  <2>1. Tabled(Held(node'), Cap, Ids, Nil, count')
    BY <1>1, TableIs DEF HashInv
  <2>. QED  BY <2>1, TableNextIs
<1>. QED  BY <1>1, <1>2, <1>3 DEF HashInv, TypeOK, InsertSafe

(* For every capacity and every set of ids the probing can add to without   *)
(* overflow, whatever order the gate inserts and removes in: chains exact,  *)
(* counter exact, empty nodes unlinked, no assertion failed.                *)
THEOREM HashCorrect == ASSUME SafeIds  PROVE Spec => []HashInv
<1>1. Init => HashInv
  BY HashInitInv
<1>2. HashInv /\ [Next]_vars => HashInv'
  BY InsertStep, RemoveStep, ClearStep, HashStutter DEF Next
<1>. QED  BY <1>1, <1>2, PTL DEF Spec

(* Following a bucket's links meets every node of the bucket once and ends: *)
(* the loops of hashid_lookup and hashid_remove neither miss a node nor run *)
(* in a cycle.                                                              *)
THEOREM HashChains == ASSUME SafeIds  PROVE Spec => []ChainsExact
<1>1. HashInv => ChainsExact
  <2> SUFFICES ASSUME HashInv  PROVE ChainsExact
    OBVIOUS
  <2>1. TypeOK /\ DOMAIN hash = Buckets
    BY DEF HashInv, TypeOK, Buckets
  <2>2. ASSUME NEW h \in Buckets
        PROVE  LET w    == Walk(h)
                   seen == {k \in 0 .. Cap : w[k] # Nil}
               IN  /\ w[Cap] = Nil
                   /\ {w[k] : k \in seen} =
                        {i \in Slots : node[i].id # Nil /\ Bucket(node[i].id) = h}
                   /\ \A j, k \in seen : w[j] = w[k] => j = k
    <3>1. PICK w : w = Walk(h) /\ w = Chain(node, hash, h)
      BY WalkIsChain
    <3>2. Exact(w, node, h)
      BY <3>1 DEF HashInv, AllExact
    <3>3. \A i \in InBucket(node, h) : i # Nil
      BY CapAssumption DEF InBucket, Slots, Nil
    <3>4. {w[k] : k \in {k \in 0 .. Cap : w[k] # Nil}} = InBucket(node, h)
      BY <3>2, <3>3 DEF Exact
    <3>. QED  BY <3>1, <3>2, <3>4 DEF Exact, InBucket
  <2>. QED  BY <2>1, <2>2 DEF ChainsExact
<1>. QED  BY <1>1, HashCorrect, PTL

(* Both assertions of hashid_insert hold whenever it is called, and it      *)
(* never probes outside the node array.                                     *)
THEOREM HashInsertSafe == ASSUME SafeIds  PROVE Spec => []InsertSafe
<1>1. HashInv => InsertSafe
  BY DEF HashInv
<1>. QED  BY <1>1, HashCorrect, PTL

(* Walking the chain finds the slot of every id in the table and no other.  *)
THEOREM HashLookup == ASSUME SafeIds  PROVE Spec => []LookupAgrees
<1>1. HashInv => LookupAgrees
  BY LookupSame
  DEF LookupAgrees
<1>. QED  BY <1>1, HashCorrect, PTL

(* Every operation on the pointers is the operation of the abstract table   *)
(* or leaves it alone: hashid.h implements IdTable.                         *)
THEOREM HashImplements == ASSUME SafeIds  PROVE Spec => ImplementsTable
<1>1. Init => Table!TableInit
  BY HashInitInv
<1>2. HashInv /\ [Next]_vars => [Table!TableNext]_(Table!tableVars)
  <2> SUFFICES ASSUME HashInv, [Next]_vars
               PROVE  Table!TableNext \/ UNCHANGED Table!tableVars
    OBVIOUS
  <2>1. ASSUME NEW id \in Ids, hashid_insert(id)  PROVE Table!TableNext
    BY <2>1, InsertStep DEF Table!TableNext, Table!Nil, Nil
  <2>2. ASSUME NEW id \in Ids, hashid_remove(id)  PROVE Table!TableNext
    BY <2>2, RemoveStep DEF Table!TableNext
  <2>3. CASE hashid_clear
    BY <2>3, ClearStep DEF Table!TableNext
  <2>4. CASE UNCHANGED vars
    BY <2>4 DEF vars, Table!tableVars
  <2>. QED  BY <2>1, <2>2, <2>3, <2>4 DEF Next
<1>. QED  BY <1>1, <1>2, HashCorrect, PTL DEF Spec, ImplementsTable, Table!TableSpec
=============================================================================
