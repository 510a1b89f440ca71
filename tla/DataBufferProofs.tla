-------------------------- MODULE DataBufferProofs --------------------------
(***************************************************************************)
(* Proofs about the receive buffers, for every set of chunks and buffers,  *)
(* every header size, base and pool size.                                  *)
(***************************************************************************)
EXTENDS DataBuffer, FramingProofs

Byte == 0 .. Base - 1

\* The header that a read makes fits the int it is kept in.
Header == -(Base ^ HeaderSize) .. Base ^ HeaderSize

BufferType == [header : Int, offset : Nat, size : Nat, msgs : Seq(Seq(Byte))]

\* A buffer as the operations leave it: no chunk is empty, and the offset
\* lies inside the first one.
Formed(d) ==
    /\ d \in BufferType
    /\ \A j \in 1 .. Len(d.msgs) : d.msgs[j] # <<>>
    /\ IF d.msgs = <<>> THEN d.offset = 0 ELSE d.offset < Len(d.msgs[1])

-----------------------------------------------------------------------------
(* Sequences cut and joined.                                                *)

LEMMA BytesAreInts == Byte \subseteq Int /\ Seq(Byte) \subseteq Seq(Int)
BY BaseAssumption DEF Byte

LEMMA SplitFacts ==
    ASSUME NEW X, NEW s \in Seq(X), NEW n \in 0 .. Len(s)
    PROVE  /\ Take(s, n) \in Seq(X) /\ Len(Take(s, n)) = n
           /\ Drop(s, n) \in Seq(X) /\ Len(Drop(s, n)) = Len(s) - n
           /\ \A k \in 1 .. n : Take(s, n)[k] = s[k]
           /\ \A k \in 1 .. Len(s) - n : Drop(s, n)[k] = s[n + k]
BY DEF Take, Drop

LEMMA CutNone ==
    ASSUME NEW X, NEW s \in Seq(X)
    PROVE  Drop(s, 0) = s /\ Take(s, Len(s)) = s /\ Drop(s, Len(s)) = <<>>
BY DEF Take, Drop

LEMMA EqualSeqs ==
    ASSUME NEW X, NEW p \in Seq(X), NEW q \in Seq(X), Len(p) = Len(q),
           \A k \in 1 .. Len(p) : p[k] = q[k]
    PROVE  p = q
OBVIOUS

LEMMA TakeDrop ==
    ASSUME NEW X, NEW s \in Seq(X), NEW n \in 0 .. Len(s)
    PROVE  s = Take(s, n) \o Drop(s, n)
<1>1. PICK p \in Seq(X) : p = Take(s, n)
  BY SplitFacts
<1>2. PICK q \in Seq(X) : q = Drop(s, n)
  BY SplitFacts
<1>3. /\ Len(p) = n /\ Len(q) = Len(s) - n /\ Len(s) \in Nat
      /\ \A k \in 1 .. n : p[k] = s[k]
      /\ \A k \in 1 .. Len(s) - n : q[k] = s[n + k]
  <2>1. /\ Len(Take(s, n)) = n /\ Len(Drop(s, n)) = Len(s) - n
        /\ \A k \in 1 .. n : Take(s, n)[k] = s[k]
        /\ \A k \in 1 .. Len(s) - n : Drop(s, n)[k] = s[n + k]
    BY SplitFacts
  <2>2. Len(s) \in Nat
    OBVIOUS
  <2>. QED  BY <1>1, <1>2, <2>1, <2>2, Zenon
<1>4. PICK t \in Seq(X) : t = p \o q
  BY ConcatInSeq
<1>5. /\ Len(t) = Len(p) + Len(q)
      /\ \A k \in 1 .. Len(p) : t[k] = p[k]
      /\ \A k \in 1 .. Len(q) : t[Len(p) + k] = q[k]
  BY <1>4, ConcatValues
<1>6. ASSUME NEW k \in 1 .. Len(s)  PROVE s[k] = t[k]
  <2>1. CASE k <= n
    BY <1>3, <1>5, <2>1
  <2>2. CASE k > n
    <3>1. k - n \in 1 .. Len(s) - n /\ n + (k - n) = k
      BY <1>3, <2>2
    <3>2. q[k - n] = s[n + (k - n)] /\ k - n \in 1 .. Len(q) /\ Len(p) = n
      BY ONLY <1>3, <3>1
    <3>3. t[Len(p) + (k - n)] = q[k - n]
      BY ONLY <1>5, <3>2
    <3>. QED  BY <3>1, <3>2, <3>3, Zenon
  <2>3. k <= n \/ k > n
    BY <1>3
  <2>. QED  BY <2>1, <2>2, <2>3
<1>7. s = t
  BY <1>3, <1>5, <1>6, EqualSeqs
<1>. QED  BY <1>1, <1>2, <1>4, <1>7

\* A cut inside the first of two sequences, and one inside the second.
LEMMA CutFirst ==
    ASSUME NEW X, NEW p \in Seq(X), NEW q \in Seq(X), NEW n \in 0 .. Len(p)
    PROVE  Take(p \o q, n) = Take(p, n) /\ Drop(p \o q, n) = Drop(p, n) \o q
<1>1. PICK a \in Seq(X) : a = Take(p, n)
  BY SplitFacts
<1>2. PICK b \in Seq(X) : b = Drop(p, n)
  BY SplitFacts
<1>3. Len(a) = n /\ p = a \o b
  BY <1>1, <1>2, SplitFacts, TakeDrop
<1>4. PICK c \in Seq(X) : c = b \o q
  BY ConcatInSeq
<1>5. p \o q = a \o c
  BY <1>3, <1>4, ConcatAssoc
<1>6. Take(a \o c, Len(a)) = a /\ Drop(a \o c, Len(a)) = c
  BY DEF Take, Drop
<1>. QED  BY <1>1, <1>2, <1>3, <1>4, <1>5, <1>6

LEMMA CutSecond ==
    ASSUME NEW X, NEW p \in Seq(X), NEW q \in Seq(X), NEW n \in 0 .. Len(q)
    PROVE  /\ Take(p \o q, Len(p) + n) = p \o Take(q, n)
           /\ Drop(p \o q, Len(p) + n) = Drop(q, n)
<1>1. PICK a \in Seq(X) : a = Take(q, n)
  BY SplitFacts
<1>2. PICK b \in Seq(X) : b = Drop(q, n)
  BY SplitFacts
<1>3. Len(a) = n /\ q = a \o b
  BY <1>1, <1>2, SplitFacts, TakeDrop
<1>4. PICK c \in Seq(X) : c = p \o a
  BY ConcatInSeq
<1>5. p \o q = c \o b /\ Len(c) = Len(p) + n
  <2>1. p \o (a \o b) = (p \o a) \o b
    BY ConcatAssoc, SMTT(30)
  <2>2. Len(p \o a) = Len(p) + Len(a)
    OBVIOUS
  <2>. QED  BY <1>3, <1>4, <2>1, <2>2, Zenon
<1>6. Take(c \o b, Len(c)) = c /\ Drop(c \o b, Len(c)) = b
  BY DEF Take, Drop
<1>. QED  BY <1>1, <1>2, <1>4, <1>5, <1>6

-----------------------------------------------------------------------------
(* What databuffer_read copies and leaves.                                  *)

(* The unread part of a buffer, chunk by chunk: P[k] is what the first k    *)
(* passes of the loop look at, all of them together are the unread bytes.   *)
Unread(P, d) ==
    /\ P[0] = <<>>
    /\ \A k \in 0 .. Len(d.msgs) : P[k] \in Seq(Byte)
    /\ \A k \in 0 .. Len(d.msgs) - 1 :
         /\ Part(d, k) \in Seq(Byte) /\ P[k + 1] = P[k] \o Part(d, k)
         /\ FlattenSeq([j \in 1 .. k |-> Part(d, j - 1)]) = P[k]
    /\ P[Len(d.msgs)] = Pending(d)
    /\ \A k \in 1 .. Len(d.msgs) :
         /\ FlattenSeq(Drop(d.msgs, k)) \in Seq(Byte)
         /\ Pending(d) = P[k] \o FlattenSeq(Drop(d.msgs, k))

LEMMA FormedFacts ==
    ASSUME NEW d, Formed(d)
    PROVE  /\ d.msgs \in Seq(Seq(Byte)) /\ Len(d.msgs) \in Nat /\ d.offset \in Nat
           /\ d.header \in Int /\ d.size \in Nat
           /\ \A j \in 1 .. Len(d.msgs) : d.msgs[j] \in Seq(Byte) /\ Len(d.msgs[j]) \in Nat
                                          /\ Len(d.msgs[j]) > 0
           /\ Len(d.msgs) = 0 => d.offset = 0 /\ d.msgs = <<>>
           /\ Len(d.msgs) # 0 => d.offset < Len(d.msgs[1])
<1>1. d.msgs \in Seq(Seq(Byte)) /\ d.offset \in Nat /\ d.header \in Int /\ d.size \in Nat
  BY DEF Formed, BufferType
<1>2. PICK s \in Seq(Seq(Byte)) : s = d.msgs
  BY <1>1
<1>3. Len(s) \in Nat /\ (Len(s) = 0 <=> s = <<>>)
  OBVIOUS
<1>4. ASSUME NEW j \in 1 .. Len(s)  PROVE s[j] \in Seq(Byte) /\ Len(s[j]) \in Nat /\ Len(s[j]) > 0
  <2>1. s[j] \in Seq(Byte) /\ s[j] # <<>>
    <3>1. \A i \in 1 .. Len(s) : s[i] # <<>>
      BY <1>2, Zenon DEF Formed
    <3>2. s[j] \in Seq(Byte)
      OBVIOUS
    <3>. QED  BY <3>1, <3>2
  <2>. QED  BY <2>1
<1>. QED  BY <1>1, <1>2, <1>3, <1>4 DEF Formed

LEMMA UnreadExists ==
    ASSUME NEW d, Formed(d)
    PROVE  Pending(d) \in Seq(Byte) /\ \E P : Unread(P, d)
<1>1. PICK s \in Seq(Seq(Byte)) : s = d.msgs
  BY FormedFacts
<1>2. PICK L \in Nat : L = Len(s)
  OBVIOUS
<1>3. PICK o \in Nat : o = d.offset
  BY FormedFacts
<1>4. /\ \A j \in 1 .. L : s[j] \in Seq(Byte) /\ Len(s[j]) \in Nat
      /\ L = 0 => o = 0 /\ s = <<>>
      /\ L # 0 => o < Len(s[1])
  BY <1>1, <1>2, <1>3, FormedFacts
<1>5. PICK F \in [0 .. L -> Seq(Byte)] : Joins(F, s) /\ FlattenSeq(s) = F[L]
  BY <1>2, FlattenUnfolds
<1>6. /\ F[0] = <<>> /\ \A i \in 1 .. L : F[i] = F[i - 1] \o s[i]
      /\ \A i \in 0 .. L : F[i] \in Seq(Byte)
  BY <1>2, <1>5 DEF Joins
<1>7. Pending(d) = Drop(F[L], o)
  BY <1>1, <1>3, <1>5 DEF Pending
\* The offset cuts every join but the empty one.
<1>8. \A k \in 1 .. L : o \in 0 .. Len(F[k])
  <2> DEFINE S == {i \in Nat : i + 1 <= L => o \in 0 .. Len(F[i + 1])}
  <2>1. 0 \in S
    <3>1. SUFFICES ASSUME 1 <= L  PROVE o \in 0 .. Len(F[1])
      OBVIOUS
    <3>2. F[1] = <<>> \o s[1] /\ s[1] \in Seq(Byte) /\ o < Len(s[1]) /\ Len(s[1]) \in Nat
      <4>1. 1 \in 1 .. L /\ 1 - 1 = 0 /\ L # 0
        BY <3>1
      <4>. QED  BY <1>4, <1>6, <4>1
    <3>3. F[1] = s[1]
      BY <3>2, ConcatEmpty
    <3>. QED  BY <3>2, <3>3
  <2>2. ASSUME NEW i \in Nat, i \in S  PROVE i + 1 \in S
    <3>1. SUFFICES ASSUME (i + 1) + 1 <= L  PROVE o \in 0 .. Len(F[(i + 1) + 1])
      OBVIOUS
    <3>2. /\ (i + 1) + 1 \in 1 .. L /\ ((i + 1) + 1) - 1 = i + 1 /\ i + 1 \in 0 .. L
          /\ o \in 0 .. Len(F[i + 1])
      BY <2>2, <3>1
    <3>3. PICK a \in Seq(Byte) : a = F[i + 1]
      BY <1>6, <3>2
    <3>4. PICK b \in Seq(Byte) : b = s[(i + 1) + 1]
      BY <1>4, <3>2
    <3>5. F[(i + 1) + 1] = a \o b
      BY <1>6, <3>2, <3>3, <3>4, Zenon
    <3>6. o \in 0 .. Len(a) /\ Len(a \o b) = Len(a) + Len(b) /\ Len(a) \in Nat /\ Len(b) \in Nat
      BY <3>2, <3>3
    <3>7. o \in 0 .. Len(a \o b)
      BY <3>6
    <3>. QED  BY <3>5, <3>7
  <2> HIDE DEF S
  <2>3. Nat \subseteq S
    BY <2>1, <2>2, SetInduction
  <2>4. ASSUME NEW k \in 1 .. L  PROVE o \in 0 .. Len(F[k])
    <3>1. k - 1 \in Nat /\ (k - 1) + 1 = k /\ k <= L
      OBVIOUS
    <3>2. k - 1 \in S
      BY <2>3, <3>1
    <3>. QED  BY <3>1, <3>2 DEF S
  <2>. QED  BY <2>4
<1> DEFINE P == [k \in 0 .. L |-> IF k = 0 THEN <<>> ELSE Drop(F[k], o)]
<1>9. /\ P[0] = <<>> /\ \A k \in 1 .. L : P[k] = Drop(F[k], o)
      /\ \A k \in 0 .. L : P[k] \in Seq(Byte)
  <2>1. P[0] = <<>> /\ \A k \in 1 .. L : P[k] = Drop(F[k], o)
    OBVIOUS
  <2>2. ASSUME NEW k \in 1 .. L  PROVE P[k] \in Seq(Byte)
    <3>1. PICK a \in Seq(Byte) : a = F[k]
      BY <1>6
    <3>2. Drop(a, o) \in Seq(Byte)
      BY <1>8, <3>1, SplitFacts
    <3>. QED  BY <2>1, <3>1, <3>2
  <2>3. \A k \in 0 .. L : k = 0 \/ k \in 1 .. L
    OBVIOUS
  <2> HIDE DEF P
  <2>. QED  BY <2>1, <2>2, <2>3, EmptyInSeq
<1> HIDE DEF P
<1>10. ASSUME NEW k \in 0 .. L - 1
       PROVE  Part(d, k) \in Seq(Byte) /\ P[k + 1] = P[k] \o Part(d, k)
  <2>1. k + 1 \in 1 .. L /\ (k + 1) - 1 = k /\ k \in 0 .. L
    OBVIOUS
  <2>2. PICK b \in Seq(Byte) : b = s[k + 1]
    BY <1>4, <2>1
  <2>3. PICK a \in Seq(Byte) : a = F[k]
    BY <1>6, <2>1
  <2>4. F[k + 1] = a \o b
    BY <1>6, <2>1, <2>2, <2>3, Zenon
  <2>5. Part(d, k) = Drop(b, IF k = 0 THEN o ELSE 0)
    BY <1>1, <1>3, <2>2 DEF Part
  <2>6. CASE k = 0
    <3>1. a = <<>> /\ P[k] = <<>> /\ F[k + 1] = b
      BY <1>6, <1>9, <2>3, <2>4, <2>6, ConcatEmpty
    <3>2. o \in 0 .. Len(b)
      BY <1>8, <2>1, <3>1
    <3>3. PICK c \in Seq(Byte) : c = Drop(b, o)
      BY <3>2, SplitFacts
    <3>4. Part(d, k) = c /\ P[k + 1] = c
      BY <1>9, <2>1, <2>5, <2>6, <3>1, <3>3
    <3>. QED  BY <3>1, <3>4, ConcatEmpty
  <2>7. CASE k # 0
    <3>1. k \in 1 .. L
      BY <2>7
    <3>2. Part(d, k) = b
      BY <2>5, <2>7, CutNone
    <3>3. o \in 0 .. Len(a)
      BY <1>8, <2>3, <3>1
    <3>4. Drop(a \o b, o) = Drop(a, o) \o b
      BY <3>3, CutFirst
    <3>. QED  BY <1>9, <2>1, <2>3, <2>4, <3>1, <3>2, <3>4
  <2>. QED  BY <2>6, <2>7
<1>11. ASSUME NEW k \in 0 .. L - 1
       PROVE  FlattenSeq([j \in 1 .. k |-> Part(d, j - 1)]) = P[k]
  <2>1. PICK ps : ps = [j \in 1 .. k |-> Part(d, j - 1)]
    OBVIOUS
  <2>2. \A j \in 1 .. k : /\ j - 1 \in 0 .. L - 1 /\ (j - 1) + 1 = j
                          /\ ps[j] = Part(d, j - 1) /\ ps[j] \in Seq(Byte)
                          /\ P[j] = P[j - 1] \o ps[j]
    <3>1. \A j \in 1 .. k : j - 1 \in 0 .. L - 1 /\ (j - 1) + 1 = j /\ ps[j] = Part(d, j - 1)
      BY <2>1
    <3>. QED  BY <1>10, <3>1
  <2>3. ps \in Seq(Seq(Byte)) /\ Len(ps) = k
    <3>1. k \in Nat
      OBVIOUS
    <3>2. \A j \in 1 .. k : Part(d, j - 1) \in Seq(Byte)
      BY <2>2
    <3>3. [j \in 1 .. k |-> Part(d, j - 1)] \in [1 .. k -> Seq(Byte)]
      BY <3>2, Zenon
    <3>. QED  BY <2>1, <3>1, <3>3
  <2>4. Joins(P, ps)
    BY <1>9, <2>2, <2>3 DEF Joins
  <2>5. FlattenSeq(ps) = P[k]
    BY <2>3, <2>4, JoinedIs
  <2>. QED  BY <2>1, <2>5
<1>12. P[L] = Pending(d)
  <2>1. CASE L = 0
    <3>1. P[L] = <<>> /\ F[L] = <<>> /\ o = 0
      BY <1>4, <1>6, <1>9, <2>1
    <3>2. Drop(<<>>, 0) = <<>>
      BY EmptyInSeq, CutNone
    <3>. QED  BY <1>7, <3>1, <3>2
  <2>2. CASE L # 0
    <3>1. L \in 1 .. L
      BY <2>2
    <3>. QED  BY <1>7, <1>9, <3>1
  <2>. QED  BY <2>1, <2>2
<1>13. ASSUME NEW k \in 1 .. L
       PROVE  /\ FlattenSeq(Drop(s, k)) \in Seq(Byte)
              /\ Pending(d) = P[k] \o FlattenSeq(Drop(s, k))
  <2>0. k \in 0 .. Len(s)
    BY <1>2
  <2>1. PICK p \in Seq(Seq(Byte)) : p = Take(s, k)
    BY <2>0, SplitFacts
  <2>2. PICK q \in Seq(Seq(Byte)) : q = Drop(s, k)
    BY <2>0, SplitFacts
  <2>3. s = p \o q
    BY <2>0, <2>1, <2>2, TakeDrop
  <2>4. Len(p) = k /\ \A j \in 1 .. k : p[j] = s[j]
    <3>1. Len(Take(s, k)) = k /\ \A j \in 1 .. k : Take(s, k)[j] = s[j]
      BY <2>0, SplitFacts
    <3>. QED  BY <2>1, <3>1, Zenon
  <2>5. Joins(F, p)
    <3>1. \A j \in 1 .. k : j \in 1 .. L
      OBVIOUS
    <3>. QED  BY <1>6, <2>4, <3>1 DEF Joins
  <2>6. FlattenSeq(p) = F[k]
    BY <2>4, <2>5, JoinedIs
  <2>7. PICK c \in Seq(Byte) : c = FlattenSeq(q)
    BY FlattenConcat
  <2>8. PICK a \in Seq(Byte) : a = F[k]
    BY <1>6
  <2>9. F[L] = a \o c
    BY <1>5, <2>3, <2>6, <2>7, <2>8, FlattenConcat
  <2>10. Drop(a \o c, o) = Drop(a, o) \o c
    BY <1>8, <2>8, CutFirst
  <2>11. P[k] = Drop(a, o)
    BY <1>9, <2>8
  <2>12. Pending(d) = P[k] \o c
    BY <1>7, <2>9, <2>10, <2>11
  <2>. QED  BY <2>2, <2>7, <2>12
<1>14. Unread(P, d)
  BY <1>1, <1>2, <1>9, <1>10, <1>11, <1>12, <1>13 DEF Unread
<1>15. Pending(d) \in Seq(Byte)
  BY <1>9, <1>12
<1>. QED  BY <1>14, <1>15

\* Before pass k, what passes 0 .. k - 1 have copied is no longer missing.
LEMMA MissingIs ==
    ASSUME NEW d, Formed(d), NEW P, Unread(P, d), NEW n \in Nat
    PROVE  \A k \in 0 .. Len(d.msgs) - 1 : Missing(d, n, k) = n - Len(P[k])
<1>1. PICK L \in Nat : L = Len(d.msgs)
  BY FormedFacts
<1> DEFINE D == 0 .. L - 1
           Eqn(g) == g = [j \in 0 .. Len(d.msgs) - 1 |->
                            IF j = 0 THEN n ELSE g[j - 1] - Len(Part(d, j - 1))]
           h == [j \in D |-> n - Len(P[j])]
<1>2. ASSUME NEW j \in D
      PROVE  h[j] = IF j = 0 THEN n ELSE h[j - 1] - Len(Part(d, j - 1))
  <2>1. CASE j = 0
    <3>1. h[j] = n - Len(P[j]) /\ P[j] = <<>>
      BY <2>1 DEF Unread
    <3>. QED  BY <2>1, <3>1
  <2>2. CASE j # 0
    <3>1. j - 1 \in D /\ (j - 1) + 1 = j
      BY <2>2
    <3>2. PICK p \in Seq(Byte) : p = P[j - 1]
      <4>1. j - 1 \in 0 .. L
        BY <3>1
      <4>. QED  BY <1>1, <4>1 DEF Unread
    <3>3. PICK q \in Seq(Byte) : q = Part(d, j - 1)
      BY <1>1, <3>1 DEF Unread
    <3>4. P[j] = p \o q
      BY <1>1, <3>1, <3>2, <3>3 DEF Unread
    <3>5. Len(p \o q) = Len(p) + Len(q) /\ Len(p) \in Nat /\ Len(q) \in Nat
      OBVIOUS
    <3>6. h[j] = n - Len(p \o q) /\ h[j - 1] = n - Len(p)
      BY <3>1, <3>2, <3>4
    <3>7. h[j] = h[j - 1] - Len(q)
      <4> HIDE DEF h
      <4>. QED  BY <3>5, <3>6
    <3> HIDE DEF h
    <3>. QED  BY <2>2, <3>3, <3>7
  <2>. QED  BY <2>1, <2>2
<1>3. Eqn(h)
  <2>1. h = [j \in D |-> IF j = 0 THEN n ELSE h[j - 1] - Len(Part(d, j - 1))]
    BY <1>2
  <2> HIDE DEF h
  <2>. QED  BY <1>1, <2>1
<1>4. PICK g : g = CHOOSE x : Eqn(x)
  OBVIOUS
<1>5. Eqn(g)
  <2> HIDE DEF Eqn, h
  <2>. QED  BY <1>3, <1>4, Zenon
<1>6. \A k : Missing(d, n, k) = g[k]
  BY <1>4, Zenon DEF Missing
<1>7. /\ \A j \in D : g[j] = IF j = 0 THEN n ELSE g[j - 1] - Len(Part(d, j - 1))
      /\ \A j \in D : h[j] = IF j = 0 THEN n ELSE h[j - 1] - Len(Part(d, j - 1))
  <2> HIDE DEF h
  <2>. QED  BY <1>1, <1>2, <1>5
<1> DEFINE S == {j \in Nat : j <= L - 1 => g[j] = h[j]}
<1> HIDE DEF h
<1>8. 0 \in S
  BY <1>7
<1>9. ASSUME NEW j \in Nat, j \in S  PROVE j + 1 \in S
  <2>1. ASSUME j + 1 <= L - 1  PROVE g[j + 1] = h[j + 1]
    <3>1. j + 1 \in D /\ j + 1 # 0 /\ (j + 1) - 1 = j /\ g[j] = h[j]
      BY <1>9, <2>1
    <3>2. /\ g[j + 1] = g[(j + 1) - 1] - Len(Part(d, (j + 1) - 1))
          /\ h[j + 1] = h[(j + 1) - 1] - Len(Part(d, (j + 1) - 1))
      <4> HIDE DEF D
      <4>. QED  BY <1>7, <3>1
    <3>. QED  BY <3>1, <3>2, Zenon
  <2>. QED  BY <2>1
<1> HIDE DEF S
<1>10. Nat \subseteq S
  BY <1>8, <1>9, SetInduction
<1>11. \A k \in D : g[k] = n - Len(P[k])
  <2>1. ASSUME NEW k \in D  PROVE g[k] = n - Len(P[k])
    <3>1. k \in Nat /\ k <= L - 1
      OBVIOUS
    <3>2. g[k] = h[k]
      BY <1>10, <3>1 DEF S
    <3>3. h[k] = n - Len(P[k])
      BY DEF h
    <3>. QED  BY <3>2, <3>3
  <2>. QED  BY <2>1
<1>. QED  BY <1>1, <1>6, <1>11

\* The loop returns in the first pass up to which there are n bytes.
LEMMA LastPassIs ==
    ASSUME NEW d, Formed(d), NEW P, Unread(P, d), NEW n \in 1 .. Len(Pending(d))
    PROVE  /\ LastPass(d, n) \in 0 .. Len(d.msgs) - 1
           /\ n <= Len(P[LastPass(d, n) + 1])
           /\ n > Len(P[LastPass(d, n)])
           /\ Missing(d, n, LastPass(d, n)) = n - Len(P[LastPass(d, n)])
<1>1. PICK L \in Nat : L = Len(d.msgs)
  BY FormedFacts
<1>2. /\ P[0] = <<>> /\ P[L] = Pending(d) /\ n \in Nat /\ n > 0
      /\ \A k \in 0 .. L : P[k] \in Seq(Byte) /\ Len(P[k]) \in Nat
  <2>1. P[0] = <<>> /\ P[L] = Pending(d) /\ \A k \in 0 .. L : P[k] \in Seq(Byte)
    BY <1>1 DEF Unread
  <2>. QED  BY <2>1
<1>3. ASSUME NEW k \in 0 .. L - 1
      PROVE  /\ Missing(d, n, k) = n - Len(P[k])
             /\ Len(Part(d, k)) >= Missing(d, n, k) <=> n <= Len(P[k + 1])
  <2>1. k \in 0 .. L /\ Missing(d, n, k) = n - Len(P[k])
    <3>1. \A j \in 0 .. Len(d.msgs) - 1 : Missing(d, n, j) = n - Len(P[j])
      BY <1>2, MissingIs
    <3>. QED  BY <1>1, <3>1
  <2>2. PICK p \in Seq(Byte) : p = P[k]
    BY <1>2, <2>1
  <2>3. PICK q \in Seq(Byte) : q = Part(d, k)
    BY <1>1 DEF Unread
  <2>4. P[k + 1] = p \o q
    BY <1>1, <2>2, <2>3 DEF Unread
  <2>5. Len(p \o q) = Len(p) + Len(q) /\ Len(p) \in Nat /\ Len(q) \in Nat
    OBVIOUS
  <2>6. Len(q) >= n - Len(p) <=> n <= Len(p) + Len(q)
    BY <1>2, <2>5
  <2>. QED  BY <2>1, <2>2, <2>3, <2>4, <2>5, <2>6
<1> DEFINE K == {k \in 0 .. L - 1 : Len(Part(d, k)) >= Missing(d, n, k)}
<1>4. L # 0
  BY <1>2
<1>5. L - 1 \in K
  <2>1. L - 1 \in 0 .. L - 1 /\ (L - 1) + 1 = L /\ n <= Len(P[L])
    BY <1>2, <1>4
  <2>. QED  BY <1>3, <2>1
<1>6. K \subseteq Nat /\ K # {}
  BY <1>5
<1>7. LastPass(d, n) = Min(K)
  BY <1>1 DEF LastPass
<1> HIDE DEF K
<1>8. PICK k \in K : \A j \in K : k <= j
  BY <1>6, LeastNatural
<1>9. PICK m : m = Min(K)
  OBVIOUS
<1>10. m \in K /\ \A j \in K : m <= j
  BY <1>8, <1>9, Zenon DEF Min
<1>11. m \in 0 .. L - 1 /\ n <= Len(P[m + 1]) /\ Missing(d, n, m) = n - Len(P[m])
  <2>1. m \in 0 .. L - 1 /\ Len(Part(d, m)) >= Missing(d, n, m)
    BY <1>10 DEF K
  <2>. QED  BY <1>3, <2>1
<1>12. n > Len(P[m])
  <2>1. CASE m = 0
    BY <1>2, <2>1
  <2>2. CASE m # 0
    <3>1. m - 1 \in 0 .. L - 1 /\ (m - 1) + 1 = m /\ ~(m <= m - 1) /\ m \in 0 .. L
      BY <1>11, <2>2
    <3>2. m - 1 \notin K
      BY <1>10, <3>1
    <3>3. ~(n <= Len(P[m]))
      BY <1>3, <3>1, <3>2 DEF K
    <3>. QED  BY <1>2, <3>1, <3>3
  <2>. QED  BY <2>1, <2>2
<1>. QED  BY <1>1, <1>7, <1>9, <1>11, <1>12

(* A read of n bytes, when there are as many: the bytes copied are the next *)
(* n of the stream, the rest is what the buffer still holds, and the nodes  *)
(* returned are the chunks it has lost.                                     *)
LEMMA ReadIs ==
    ASSUME NEW d, Formed(d), NEW n \in 1 .. Len(Pending(d)), d.size = Len(Pending(d))
    PROVE  /\ Read(d, n).bytes = Take(Pending(d), n)
           /\ Formed(Read(d, n).left)
           /\ Pending(Read(d, n).left) = Drop(Pending(d), n)
           /\ Read(d, n).left.size = d.size - n
           /\ Read(d, n).left.header = d.header
           /\ Read(d, n).nodes \in Nat
           /\ Len(Read(d, n).left.msgs) = Len(d.msgs) - Read(d, n).nodes
<1>1. PICK P : Unread(P, d)
  BY UnreadExists
<1>2. PICK k : k = LastPass(d, n)
  OBVIOUS
<1>3. PICK L \in Nat : L = Len(d.msgs)
  BY FormedFacts
<1>4. k \in 0 .. L - 1 /\ n <= Len(P[k + 1]) /\ n > Len(P[k]) /\ Missing(d, n, k) = n - Len(P[k])
  BY <1>1, <1>2, <1>3, LastPassIs
<1>5. k \in 0 .. L /\ k + 1 \in 1 .. L /\ k + 1 \in 0 .. L
  BY <1>4
<1>6. PICK p \in Seq(Byte) : p = P[k]
  BY <1>1, <1>3, <1>5 DEF Unread
<1>7. PICK q \in Seq(Byte) : q = Part(d, k)
  BY <1>1, <1>3, <1>4 DEF Unread
<1>8. P[k + 1] = p \o q /\ FlattenSeq([j \in 1 .. k |-> Part(d, j - 1)]) = p
  BY <1>1, <1>3, <1>4, <1>6, <1>7 DEF Unread
<1>9. Len(p) \in Nat /\ Len(q) \in Nat /\ Len(p \o q) = Len(p) + Len(q) /\ n \in Nat
  <2>1. Len(Pending(d)) \in Nat
    BY UnreadExists
  <2>. QED  BY <2>1
<1>10. PICK m \in Nat : m = n - Len(p)
  <2>1. n > Len(p)
    BY <1>4, <1>6
  <2>2. n - Len(p) \in Nat
    BY <1>9, <2>1
  <2>. QED  BY <2>2
<1>11. Missing(d, n, k) = m /\ m > 0 /\ m <= Len(q) /\ n = Len(p) + m /\ m \in 0 .. Len(q)
  <2>1. Len(P[k]) = Len(p) /\ Len(P[k + 1]) = Len(p) + Len(q)
    BY <1>6, <1>8, <1>9
  <2>. QED  BY <1>4, <1>9, <1>10, <2>1
<1>12. PICK u \in 0 .. L : u = IF Len(q) = m THEN k + 1 ELSE k
  BY <1>5
<1>13. PICK o : o = IF Len(q) = m THEN 0 ELSE m + (IF k = 0 THEN d.offset ELSE 0)
  OBVIOUS
<1>14. PICK e : e = [d EXCEPT !.size = @ - n, !.offset = o, !.msgs = Drop(@, u)]
  OBVIOUS
<1>15. Read(d, n) = [bytes |-> p \o Take(q, m), left |-> e, nodes |-> u]
  BY <1>2, <1>7, <1>8, <1>11, <1>12, <1>13, <1>14 DEF Read
<1>16. PICK s \in Seq(Seq(Byte)) : s = d.msgs
  BY FormedFacts
<1>17. PICK a \in Seq(Seq(Byte)) : a = Drop(s, u)
  BY <1>3, <1>12, <1>16, SplitFacts
<1>18. Len(a) = L - u /\ \A j \in 1 .. L - u : a[j] = s[u + j]
  <2>1. u \in 0 .. Len(s) /\ Len(s) = L
    BY <1>3, <1>12, <1>16
  <2>2. Len(Drop(s, u)) = Len(s) - u /\ \A j \in 1 .. Len(s) - u : Drop(s, u)[j] = s[u + j]
    BY ONLY <2>1, s \in Seq(Seq(Byte)), SplitFacts, ZenonT(40)
  <2>. QED  BY <1>17, <2>1, <2>2, Zenon
<1>19. d.offset \in Nat /\ d.size \in Nat /\ d.header \in Int /\ L # 0
       /\ d.offset < Len(s[1]) /\ \A j \in 1 .. L : Len(s[j]) \in Nat /\ s[j] # <<>> /\ s[j] \in Seq(Byte)
  <2>1. L # 0
    BY <1>4
  <2>2. \A j \in 1 .. L : s[j] # <<>>
    BY <1>3, <1>16 DEF Formed
  <2>. QED  BY <1>3, <1>16, <2>1, <2>2, FormedFacts
<1>20. q = Drop(s[k + 1], IF k = 0 THEN d.offset ELSE 0)
  BY <1>7, <1>16 DEF Part
\* The chunk of the last pass, and the part of it that is looked at.
<1>21. PICK c \in Seq(Byte) : c = s[k + 1]
  BY <1>5, <1>19
<1>22. Len(q) = Len(c) - (IF k = 0 THEN d.offset ELSE 0) /\ Len(c) \in Nat
  <2>1. CASE k = 0
    <3>1. d.offset \in 0 .. Len(c)
      BY <1>19, <1>21, <2>1
    <3>2. q = Drop(c, d.offset)
      BY <1>20, <1>21, <2>1
    <3>3. Len(Drop(c, d.offset)) = Len(c) - d.offset /\ Len(c) \in Nat
      <4>1. PICK f \in 0 .. Len(c) : f = d.offset
        BY <3>1
      <4>2. Len(Drop(c, f)) = Len(c) - f
        BY SplitFacts
      <4>3. Len(c) \in Nat
        OBVIOUS
      <4>. QED  BY <4>1, <4>2, <4>3, Zenon
    <3>. QED  BY <2>1, <3>2, <3>3
  <2>2. CASE k # 0
    <3>1. q = c
      BY <1>20, <1>21, <2>2, CutNone
    <3>. QED  BY <2>2, <3>1
  <2>. QED  BY <2>1, <2>2
<1>23. o \in Nat
  BY <1>13, <1>19, SMTT(30)
<1>24. /\ e.size = d.size - n /\ e.header = d.header /\ e.offset = o /\ e.msgs = a
       /\ e \in BufferType
  <2>1. d \in BufferType
    BY DEF Formed
  <2>2. d.size - n \in Nat
    BY <1>9, <1>19
  <2>. QED  BY <1>14, <1>16, <1>17, <1>23, <2>1, <2>2 DEF BufferType
<1>25. Formed(e)
  <2>1. ASSUME NEW j \in 1 .. Len(a)  PROVE a[j] # <<>>
    <3>1. j \in 1 .. L - u /\ u + j \in 1 .. L
      BY <1>18
    <3>. QED  BY <1>18, <1>19, <3>1
  <2>2. CASE a = <<>>
    <3>1. u = L
      BY <1>18, <2>2
    <3>2. Len(q) = m
      BY <1>4, <1>12, <3>1
    <3>. QED  BY <1>13, <1>24, <2>1, <2>2, <3>2 DEF Formed
  <2>3. CASE a # <<>>
    <3>1. Len(a) > 0 /\ Len(a) \in Nat
      BY <2>3
    <3>2. 1 \in 1 .. L - u /\ a[1] = s[u + 1] /\ u + 1 \in 1 .. L
      BY <1>18, <3>1
    <3>3. CASE Len(q) = m
      <4>1. o = 0 /\ Len(a[1]) \in Nat /\ a[1] # <<>> /\ a[1] \in Seq(Byte)
        BY <1>13, <1>19, <3>2, <3>3
      <4>2. o < Len(a[1])
        BY <4>1
      <4>. QED  BY <1>24, <2>1, <2>3, <4>2 DEF Formed
    <3>4. CASE Len(q) # m
      <4>1. u = k /\ a[1] = c
        BY <1>12, <1>21, <3>2, <3>4
      <4>2. m < Len(q)
        BY <1>9, <1>11, <3>4
      <4>3. o < Len(c)
        BY <1>13, <1>19, <1>22, <3>4, <4>2
      <4>. QED  BY <1>24, <2>1, <2>3, <4>1, <4>3 DEF Formed
    <3>. QED  BY <3>3, <3>4
  <2>. QED  BY <2>2, <2>3
<1>26. PICK w \in Seq(Byte) : w = FlattenSeq(Drop(s, k + 1))
  BY <1>1, <1>3, <1>5, <1>16 DEF Unread
<1>27. Pending(d) = (p \o q) \o w
  BY <1>1, <1>3, <1>5, <1>8, <1>16, <1>26 DEF Unread
<1>28. p \o q \in Seq(Byte) /\ n \in 0 .. Len(p \o q)
  <2>1. p \o q \in Seq(Byte)
    BY ConcatInSeq
  <2>. QED  BY <1>9, <1>11, <2>1
<1>29. p \o Take(q, m) = Take(Pending(d), n)
  <2>1. Take((p \o q) \o w, n) = Take(p \o q, n)
    BY <1>28, CutFirst
  <2>2. Take(p \o q, Len(p) + m) = p \o Take(q, m)
    BY <1>11, CutSecond
  <2>. QED  BY <1>11, <1>27, <2>1, <2>2
<1>30. Pending(e) = Drop(FlattenSeq(a), o)
  BY <1>24 DEF Pending
<1>31. Drop(FlattenSeq(a), o) = Drop(Pending(d), n)
  <2>1. CASE Len(q) = m
    <3>1. FlattenSeq(a) = w /\ o = 0
      BY <1>12, <1>13, <1>17, <1>26, <2>1
    <3>2. Drop(FlattenSeq(a), o) = w
      BY <3>1, CutNone
    <3>3. n = Len(p \o q) + 0 /\ 0 \in 0 .. Len(w)
      BY <1>9, <1>11, <2>1
    <3>4. Drop((p \o q) \o w, Len(p \o q) + 0) = Drop(w, 0)
      BY <1>28, <3>3, CutSecond
    <3>5. Drop(w, 0) = w
      BY CutNone
    <3>. QED  BY <1>27, <3>2, <3>3, <3>4, <3>5
  <2>2. CASE Len(q) # m /\ k # 0
    <3>1. u = k /\ o = m /\ k \in 1 .. L
      BY <1>5, <1>11, <1>12, <1>13, <2>2
    <3>2. PICK x \in Seq(Byte) : x = FlattenSeq(Drop(s, k))
      BY <1>1, <1>3, <1>16, <3>1 DEF Unread
    <3>3. Pending(d) = p \o x /\ FlattenSeq(a) = x
      BY <1>1, <1>3, <1>6, <1>16, <1>17, <3>1, <3>2 DEF Unread
    <3>4. m \in 0 .. Len(x)
      <4>1. Len(p \o x) = Len(p) + Len(x) /\ Len(x) \in Nat
        OBVIOUS
      <4>2. Len(p) + m <= Len(p) + Len(x)
        BY <1>11, <3>3, <4>1
      <4>. QED  BY <1>9, <4>1, <4>2
    <3>5. Drop(p \o x, Len(p) + m) = Drop(x, m)
      BY <3>4, CutSecond
    <3>. QED  BY <1>11, <3>1, <3>3, <3>5
  <2>3. CASE Len(q) # m /\ k = 0
    <3>1. u = 0 /\ o = m + d.offset /\ m = n
      <4>1. p = <<>> /\ Len(p) = 0
        BY <1>1, <1>6, <2>3 DEF Unread
      <4>. QED  BY <1>11, <1>12, <1>13, <2>3, <4>1
    <3>2. a = s
      BY <1>17, <3>1, CutNone
    <3>3. PICK x \in Seq(Byte) : x = FlattenSeq(s)
      BY FlattenConcat
    <3>4. Pending(d) = Drop(x, d.offset)
      BY <1>16, <3>3 DEF Pending
    <3>5. x \in Seq(Int) /\ d.offset + n <= Len(x) /\ d.offset \in Nat /\ n \in Nat
      <4>1. x \in Seq(Int)
        BY BytesAreInts
      <4>2. c \o w = x
        <5>1. PICK y \in Seq(Seq(Byte)) : y = Drop(s, 1)
          <6>1. 1 \in 0 .. Len(s)
            BY <1>3, <1>16, <1>19
          <6>. QED  BY <6>1, SplitFacts
        <5>2. s = <<c>> \o y
          <6>1. s = Take(s, 1) \o Drop(s, 1) /\ Take(s, 1) = <<c>>
            <7>1. 1 \in 0 .. Len(s) /\ s[1] = c
              BY <1>3, <1>16, <1>19, <1>21, <2>3
            <7>2. PICK t \in Seq(Seq(Byte)) : t = Take(s, 1)
              BY <7>1, SplitFacts
            <7>3. Len(t) = 1 /\ t[1] = s[1]
              BY <7>1, <7>2 DEF Take
            <7>4. t = <<c>>
              BY <7>1, <7>3
            <7>. QED  BY <7>1, <7>2, <7>4, TakeDrop
          <6>. QED  BY <5>1, <6>1
        <5>3. <<c>> \in Seq(Seq(Byte))
          <6>1. \A Y : \A z \in Y : <<z>> \in Seq(Y)
            OBVIOUS
          <6>. QED  BY <6>1, Zenon
        <5>4. FlattenSeq(<<c>>) = c
          BY FlattenOne
        <5>5. k + 1 = 1
          BY <2>3
        <5>. QED  BY <1>26, <3>3, <5>1, <5>2, <5>3, <5>4, <5>5, FlattenConcat, ZenonT(40)
      <4>3. Len(x) = Len(c) + Len(w) /\ Len(w) \in Nat
        BY <4>2
      <4>4. Len(q) = Len(c) - d.offset /\ Len(c) \in Nat /\ n <= Len(q)
        BY <1>11, <1>22, <2>3, <3>1
      <4>5. d.offset + n <= Len(x)
        BY <1>9, <1>19, <4>3, <4>4, SMTT(30)
      <4>. QED  BY <1>9, <1>19, <4>1, <4>5
    <3>6. Drop(Drop(x, d.offset), n) = Drop(x, d.offset + n)
      BY <3>5, RestFacts
    <3>7. o = d.offset + n
      BY <1>9, <1>19, <3>1
    <3>. QED  BY <3>2, <3>3, <3>4, <3>6, <3>7
  <2>. QED  BY <2>1, <2>2, <2>3
<1>32. u \in Nat /\ Len(e.msgs) = Len(d.msgs) - u
  BY <1>3, <1>12, <1>18, <1>24
<1>33. Read(d, n).bytes = p \o Take(q, m) /\ Read(d, n).left = e /\ Read(d, n).nodes = u
  BY <1>15
<1>34. e.size = d.size - n /\ e.header = d.header
  BY <1>24
<1>. QED  BY <1>25, <1>29, <1>30, <1>31, <1>32, <1>33, <1>34, Zenon

-----------------------------------------------------------------------------
(* What every operation makes of one buffer, and of what it stands for.     *)

\* The frame buffer that d implements.
View(d) == [header |-> d.header, bytes |-> Pending(d)]

Exact(d) == Formed(d) /\ d.size = Len(Pending(d)) /\ d.header \in Header

LEMMA ExactFacts ==
    ASSUME NEW d, Exact(d)
    PROVE  /\ d \in BufferType /\ d.header \in Int /\ d.size \in Nat /\ d.size = Len(Pending(d))
           /\ d.msgs \in Seq(Seq(Byte)) /\ Len(d.msgs) \in Nat
           /\ Pending(d) \in Seq(Byte) /\ Pending(d) \in Seq(Int) /\ Len(Pending(d)) \in Nat
           /\ View(d) \in FrameType
           /\ View(d).header = d.header /\ View(d).bytes = Pending(d)
<1>1. Formed(d) /\ d.size = Len(Pending(d))
  BY DEF Exact
<1>2. Pending(d) \in Seq(Byte) /\ d.header \in Int /\ d.size \in Nat
      /\ d.msgs \in Seq(Seq(Byte)) /\ Len(d.msgs) \in Nat /\ d \in BufferType
  BY <1>1, UnreadExists, FormedFacts DEF Formed
<1>3. PICK p \in Seq(Byte) : p = Pending(d)
  BY <1>2
<1>4. p \in Seq(Int) /\ Len(p) \in Nat
  BY BytesAreInts
<1>5. View(d) \in FrameType /\ View(d).header = d.header /\ View(d).bytes = p
  BY <1>2, <1>3, <1>4 DEF View, FrameType
<1>. QED  BY <1>1, <1>2, <1>3, <1>4, <1>5

LEMMA HeaderRange == 0 \in Header
<1>1. HeaderSize \in Nat /\ HeaderSize \in 0 .. HeaderSize
  BY HeaderSizeAssumption
<1>2. PICK m \in Nat : m = Base ^ HeaderSize
  BY <1>1, PowerIsNat
<1>3. 0 \in -m .. m
  OBVIOUS
<1>. QED  BY <1>2, <1>3 DEF Header

LEMMA BlankIs == Exact(BlankBuffer) /\ View(BlankBuffer) = BlankFrame /\ Len(BlankBuffer.msgs) = 0
<1>1. /\ BlankBuffer.header = 0 /\ BlankBuffer.offset = 0 /\ BlankBuffer.size = 0
      /\ BlankBuffer.msgs = <<>> /\ BlankBuffer \in BufferType
  BY EmptyInSeq DEF BlankBuffer, BufferType
<1>2. Pending(BlankBuffer) = <<>>
  <2>1. FlattenSeq(<<>>) = <<>>
    BY EmptyInSeq, FlattenOne
  <2>2. Drop(<<>>, 0) = <<>>
    BY EmptyInSeq, CutNone
  <2>. QED  BY <1>1, <2>1, <2>2 DEF Pending
<1>3. Len(<<>>) = 0 /\ 1 .. 0 = {}
  OBVIOUS
<1>4. Formed(BlankBuffer)
  BY <1>1, <1>3 DEF Formed
<1>. QED  BY <1>1, <1>2, <1>3, <1>4, HeaderRange DEF Exact, View, BlankFrame

LEMMA PushIs ==
    ASSUME NEW d, Exact(d), NEW c \in Chunks, NEW e,
           e = [d EXCEPT !.size = @ + Len(c), !.msgs = Append(@, c)]
    PROVE  /\ Exact(e) /\ View(e) = [View(d) EXCEPT !.bytes = @ \o c]
           /\ Len(e.msgs) = Len(d.msgs) + 1
<1>1. c \in Seq(Byte) /\ c # <<>> /\ Len(c) \in Nat /\ Len(c) > 0
  <2>1. c \in Seq(Byte) /\ c # <<>>
    BY ChunksAssumption DEF Byte
  <2>. QED  BY <2>1
<1>2. PICK s \in Seq(Seq(Byte)) : s = d.msgs
  BY ExactFacts
<1>3. PICK t \in Seq(Seq(Byte)) : t = Append(s, c)
  BY <1>1, AppendInSeq
<1>4. /\ Len(s) \in Nat /\ Len(t) = Len(s) + 1 /\ t[Len(s) + 1] = c
      /\ \A j \in 1 .. Len(s) : t[j] = s[j]
  BY <1>1, <1>3
<1>5. PICK o \in Nat : o = d.offset
  BY FormedFacts DEF Exact
<1>6. /\ e.header = d.header /\ e.offset = o /\ e.size = d.size + Len(c) /\ e.msgs = t
      /\ e \in BufferType
  <2>1. d \in BufferType /\ d.size \in Nat
    BY ExactFacts
  <2>2. /\ e.header = d.header /\ e.offset = d.offset /\ e.size = d.size + Len(c)
        /\ e.msgs = Append(d.msgs, c)
    BY <2>1 DEF BufferType
  <2>3. /\ e = [header |-> d.header, offset |-> d.offset, size |-> d.size + Len(c),
                msgs |-> Append(d.msgs, c)]
        /\ d.header \in Int
    BY <2>1 DEF BufferType
  <2>4. d.size + Len(c) \in Nat /\ Append(d.msgs, c) = t /\ d.offset \in Nat
    BY <1>1, <1>2, <1>3, <1>5, <2>1
  <2>5. e \in BufferType
    BY <2>3, <2>4 DEF BufferType
  <2>. QED  BY <1>5, <2>2, <2>4, <2>5
<1>7. /\ \A j \in 1 .. Len(s) : s[j] # <<>> /\ Len(s[j]) \in Nat
      /\ Len(s) = 0 => o = 0
      /\ Len(s) # 0 => o < Len(s[1])
  BY <1>2, <1>5, FormedFacts DEF Exact, Formed
<1>8. Formed(e)
  <2>1. ASSUME NEW j \in 1 .. Len(t)  PROVE t[j] # <<>>
    <3>1. j \in 1 .. Len(s) \/ j = Len(s) + 1
      BY <1>4
    <3>. QED  BY <1>1, <1>4, <1>7, <3>1
  <2>2. t # <<>>
    BY <1>4
  <2>3. o < Len(t[1])
    <3>1. CASE Len(s) = 0
      BY <1>1, <1>4, <1>7, <3>1
    <3>2. CASE Len(s) # 0
      <4>1. 1 \in 1 .. Len(s)
        BY <1>4, <3>2
      <4>. QED  BY <1>4, <1>7, <3>2, <4>1
    <3>. QED  BY <3>1, <3>2
  <2>. QED  BY <1>6, <2>1, <2>2, <2>3 DEF Formed
<1>9. PICK f \in Seq(Byte) : f = FlattenSeq(s)
  BY FlattenConcat
<1>10. o \in 0 .. Len(f)
  <2>1. CASE Len(s) = 0
    <3>1. o = 0 /\ Len(f) \in Nat
      BY <1>7, <2>1
    <3>. QED  BY <3>1
  <2>2. CASE Len(s) # 0
    <3>1. 1 \in 0 .. Len(s)
      BY <1>4, <2>2
    <3>2. PICK y \in Seq(Seq(Byte)) : y = Drop(s, 1)
      BY <3>1, SplitFacts
    <3>3. PICK x \in Seq(Byte) : x = s[1]
      BY <1>4, <2>2
    <3>4. s = <<x>> \o y /\ <<x>> \in Seq(Seq(Byte))
      <4>1. PICK z \in Seq(Seq(Byte)) : z = Take(s, 1)
        BY <3>1, SplitFacts
      <4>2. Len(z) = 1 /\ z[1] = s[1]
        BY <3>1, <4>1 DEF Take
      <4>3. z = <<x>>
        BY <3>3, <4>2
      <4>. QED  BY <3>1, <3>2, <4>1, <4>3, TakeDrop
    <3>5. PICK w \in Seq(Byte) : w = FlattenSeq(y)
      BY FlattenConcat
    <3>6. f = x \o w
      <4>1. FlattenSeq(<<x>> \o y) = FlattenSeq(<<x>>) \o FlattenSeq(y)
        BY <3>4, FlattenConcat
      <4>2. FlattenSeq(<<x>>) = x
        BY FlattenOne
      <4>. QED  BY <1>9, <3>4, <3>5, <4>1, <4>2, Zenon
    <3>7. Len(f) = Len(x) + Len(w) /\ Len(x) \in Nat /\ Len(w) \in Nat
      BY <3>6
    <3>. QED  BY <1>7, <2>2, <3>3, <3>7
  <2>. QED  BY <2>1, <2>2
<1>11. FlattenSeq(t) = f \o c
  <2>1. t = s \o <<c>>
    BY <1>1, <1>3
  <2>2. <<c>> \in Seq(Seq(Byte))
    <3>1. \A Y : \A z \in Y : <<z>> \in Seq(Y)
      OBVIOUS
    <3>. QED  BY <1>1, <3>1, Zenon
  <2>3. FlattenSeq(s \o <<c>>) = FlattenSeq(s) \o FlattenSeq(<<c>>)
    BY <2>2, FlattenConcat
  <2>4. FlattenSeq(<<c>>) = c
    BY <1>1, FlattenOne
  <2>. QED  BY <1>9, <2>1, <2>3, <2>4, Zenon
<1>12. Pending(d) = Drop(f, o) /\ Pending(e) = Drop(f \o c, o)
  BY <1>2, <1>5, <1>6, <1>9, <1>11 DEF Pending
<1>13. Drop(f \o c, o) = Drop(f, o) \o c
  BY <1>1, <1>10, CutFirst
<1>14. PICK p \in Seq(Byte) : p = Pending(d)
  BY ExactFacts
<1>15. Pending(e) = p \o c
  BY <1>12, <1>13, <1>14
<1>16. Len(p \o c) = Len(p) + Len(c)
  BY <1>1
<1>17. e.size = Len(Pending(e))
  BY <1>6, <1>14, <1>15, <1>16 DEF Exact
<1>18. View(e) = [View(d) EXCEPT !.bytes = @ \o c]
  <2>1. View(d) = [header |-> d.header, bytes |-> p]
    BY <1>14 DEF View
  <2>2. PICK v : v = View(d)
    OBVIOUS
  <2>3. PICK x : x = p \o c
    OBVIOUS
  <2>4. v.bytes \o c = x
    BY <2>1, <2>2, <2>3
  <2>5. [v EXCEPT !.bytes = x] = [header |-> d.header, bytes |-> x]
    BY <2>1, <2>2
  <2>. QED  BY <1>6, <1>15, <2>2, <2>3, <2>4, <2>5 DEF View
<1>. QED  BY <1>2, <1>4, <1>6, <1>8, <1>17, <1>18 DEF Exact

LEMMA HeaderIs ==
    ASSUME NEW d, Exact(d), NEW h, h = WithHeader(d)
    PROVE  /\ Exact(h.left) /\ View(h.left) = AfterHeader(View(d))
           /\ Result(d, h.left) = HeaderResult(View(d))
           /\ h.nodes \in Nat /\ Len(h.left.msgs) = Len(d.msgs) - h.nodes
<1>1. PICK p \in Seq(Byte) : p = Pending(d)
  BY ExactFacts
<1>2. /\ d.size = Len(p) /\ d.header \in Int /\ Len(p) \in Nat /\ HeaderSize \in Nat \ {0}
      /\ View(d).header = d.header /\ View(d).bytes = p /\ Formed(d)
  BY <1>1, ExactFacts, HeaderSizeAssumption DEF Exact
<1>3. /\ Exact(h.left) /\ View(h.left) = AfterHeader(View(d))
      /\ h.nodes \in Nat /\ Len(h.left.msgs) = Len(d.msgs) - h.nodes
  <2>1. CASE NeedsHeader(d)
    <3>1. d.header = 0 /\ HeaderSize \in 1 .. Len(p) /\ HeaderSize \in 0 .. Len(p)
      BY <1>2, <2>1 DEF NeedsHeader
    <3>2. PICK r : r = Read(d, HeaderSize)
      OBVIOUS
    <3>3. /\ r.bytes = Take(p, HeaderSize) /\ Formed(r.left) /\ r.left.size = d.size - HeaderSize
          /\ Pending(r.left) = Drop(p, HeaderSize)
          /\ r.nodes \in Nat /\ Len(r.left.msgs) = Len(d.msgs) - r.nodes
      BY <1>1, <1>2, <3>1, <3>2, ReadIs
    <3>4. PICK v : v = HeaderValue(r.bytes)
      OBVIOUS
    <3>5. v \in Header /\ v \in Int
      <4>1. PICK b \in Seq(Byte) : b = Take(p, HeaderSize)
        BY <3>1, SplitFacts
      <4>2. Len(b) = HeaderSize
        BY <3>1, <4>1, SplitFacts
      <4>3. b \in Seq(0 .. Base - 1) /\ b \in Seq(Int)
        BY BytesAreInts DEF Byte
      <4>4. HeaderValue(b) \in Header
        BY <4>2, <4>3, HeaderInRange DEF Header
      <4>5. HeaderValue(b) \in Int
        BY <4>2, <4>3, HeaderIsInt
      <4>. QED  BY <3>3, <3>4, <4>1, <4>4, <4>5
    <3>6. PICK e : e = [r.left EXCEPT !.header = v]
      OBVIOUS
    <3>7. h = [left |-> e, nodes |-> r.nodes]
      BY <2>1, <3>2, <3>4, <3>6 DEF WithHeader
    <3>8. /\ e \in BufferType /\ e.header = v /\ e.msgs = r.left.msgs /\ e.offset = r.left.offset
          /\ e.size = r.left.size
      <4>1. r.left \in BufferType
        BY <3>3 DEF Formed
      <4>. QED  BY <3>5, <3>6, <4>1 DEF BufferType
    <3>9. Formed(e)
      BY <3>3, <3>8 DEF Formed
    <3>10. Pending(e) = Drop(p, HeaderSize)
      BY <3>3, <3>8 DEF Pending
    <3>11. Len(Drop(p, HeaderSize)) = Len(p) - HeaderSize
      BY <3>1, SplitFacts
    <3>12. Exact(e)
      BY <1>2, <3>3, <3>5, <3>8, <3>9, <3>10, <3>11 DEF Exact
    <3>13. View(e) = AfterHeader(View(d))
      <4>1. Len(p) >= HeaderSize
        BY <3>1
      <4>2. AfterHeader(View(d)) = [header |-> HeaderValue(Take(p, HeaderSize)),
                                    bytes  |-> Drop(p, HeaderSize)]
        BY <1>2, <3>1, <4>1 DEF AfterHeader
      <4>. QED  BY <3>3, <3>4, <3>8, <3>10, <4>2 DEF View
    <3>. QED  BY <3>3, <3>7, <3>8, <3>12, <3>13
  <2>2. CASE ~NeedsHeader(d)
    <3>1. h = [left |-> d, nodes |-> 0]
      BY <2>2 DEF WithHeader
    <3>2. AfterHeader(View(d)) = View(d)
      BY <1>2, <2>2 DEF AfterHeader, NeedsHeader
    <3>3. Len(d.msgs) \in Nat
      BY ExactFacts
    <3>. QED  BY <3>1, <3>2, <3>3
  <2>. QED  BY <2>1, <2>2
<1>4. Result(d, h.left) = HeaderResult(View(d))
  <2>1. PICK e : e = h.left
    OBVIOUS
  <2>2. View(e).header = e.header /\ Len(View(e).bytes) = e.size
    BY <1>3, <2>1, ExactFacts
  <2>. QED  BY <1>2, <1>3, <2>1, <2>2 DEF Result, HeaderResult
<1>. QED  BY <1>3, <1>4

LEMMA BodyIs ==
    ASSUME NEW d, Exact(d), d.header > 0, d.size >= d.header,
           NEW r, r = Read(d, d.header), NEW e, e = [r.left EXCEPT !.header = 0]
    PROVE  /\ Exact(e) /\ r.bytes = Take(View(d).bytes, d.header)
           /\ View(e) = [header |-> 0, bytes |-> Drop(View(d).bytes, d.header)]
           /\ r.nodes \in Nat /\ Len(e.msgs) = Len(d.msgs) - r.nodes
<1>1. PICK p \in Seq(Byte) : p = Pending(d)
  BY ExactFacts
<1>2. /\ d.size = Len(p) /\ d.header \in Int /\ Len(p) \in Nat
      /\ View(d).header = d.header /\ View(d).bytes = p /\ Formed(d)
  BY <1>1, ExactFacts DEF Exact
<1>3. PICK n \in 1 .. Len(p) : n = d.header
  BY <1>2
<1>4. /\ r.bytes = Take(p, n) /\ Formed(r.left) /\ r.left.size = d.size - n
      /\ Pending(r.left) = Drop(p, n)
      /\ r.nodes \in Nat /\ Len(r.left.msgs) = Len(d.msgs) - r.nodes
  BY <1>1, <1>2, <1>3, ReadIs
<1>5. /\ e \in BufferType /\ e.header = 0 /\ e.msgs = r.left.msgs /\ e.offset = r.left.offset
      /\ e.size = r.left.size
  <2>1. PICK l \in BufferType : l = r.left
    BY <1>4 DEF Formed
  <2>2. e = [l EXCEPT !.header = 0]
    BY <2>1
  <2>3. /\ e \in BufferType /\ e.header = 0 /\ e.msgs = l.msgs /\ e.offset = l.offset
        /\ e.size = l.size
    <3>1. l.offset \in Nat /\ l.size \in Nat /\ l.msgs \in Seq(Seq(Byte))
      BY DEF BufferType
    <3>2. e = [header |-> 0, offset |-> l.offset, size |-> l.size, msgs |-> l.msgs]
      BY <2>2 DEF BufferType
    <3>. QED  BY <3>1, <3>2 DEF BufferType
  <2>. QED  BY <2>1, <2>3
<1>6. Formed(e)
  BY <1>4, <1>5 DEF Formed
<1>7. Pending(e) = Drop(p, n)
  BY <1>4, <1>5 DEF Pending
<1>8. Len(Drop(p, n)) = Len(p) - n
  <2>1. n \in 0 .. Len(p)
    OBVIOUS
  <2>. QED  BY <2>1, SplitFacts
<1>9. Exact(e)
  BY <1>2, <1>4, <1>5, <1>6, <1>7, <1>8, HeaderRange DEF Exact
<1>10. View(e) = [header |-> 0, bytes |-> Drop(p, n)]
  BY <1>5, <1>7 DEF View
<1>. QED  BY <1>2, <1>3, <1>4, <1>5, <1>9, <1>10

-----------------------------------------------------------------------------
(* The frames of a stream s that were read, bs, and buffer d, which has the *)
(* rest of it; when nobody is at work on d, no whole frame is left.         *)
Follows(s, bs, d, idle) ==
    \E n : Cut(s, n, bs) /\ Matches(View(d), s, n) /\ (idle => ~Whole(s, n))

LEMMA FollowsBlank == Follows(<<>>, <<>>, BlankBuffer, TRUE)
<1>1. Cut(<<>>, 0, <<>>)
  BY CutStart
<1>2. <<>> \in Seq(Int) /\ Len(<<>>) = 0 /\ Drop(<<>>, 0) = <<>>
  BY EmptyInSeq, CutNone
<1>3. Matches(BlankFrame, <<>>, 0)
  BY <1>2 DEF Matches, FrameType, BlankFrame
<1>4. ~Whole(<<>>, 0)
  BY <1>2, HeaderSizeAssumption DEF Whole
<1>. QED  BY <1>1, <1>3, <1>4, BlankIs DEF Follows

LEMMA FollowsPush ==
    ASSUME NEW s \in Seq(Int), NEW bs, NEW d, NEW idle, Follows(s, bs, d, idle),
           NEW c \in Seq(Int), NEW e, View(e) = [View(d) EXCEPT !.bytes = @ \o c]
    PROVE  Follows(s \o c, bs, e, FALSE)
<1>1. PICK n : Cut(s, n, bs) /\ Matches(View(d), s, n)
  BY DEF Follows
<1>2. Cut(s \o c, n, bs)
  BY <1>1, CutStays
<1>3. Matches(View(e), s \o c, n)
  BY <1>1, MatchGrows
<1>. QED  BY <1>2, <1>3 DEF Follows

LEMMA FollowsHeader ==
    ASSUME NEW s \in Seq(Int), NEW bs \in Seq(Seq(Int)), NEW d, NEW idle, Follows(s, bs, d, idle),
           NEW e, View(e) = AfterHeader(View(d))
    PROVE  Follows(s, bs, e, HeaderResult(View(d)) < 0)
<1>1. PICK n : Cut(s, n, bs) /\ Matches(View(d), s, n)
  BY DEF Follows
<1>2. PICK f : f = View(d)
  OBVIOUS
<1>3. n \in 0 .. Len(s) /\ n \in Nat /\ Len(s) \in Nat /\ f \in FrameType /\ HeaderSize \in Nat
  BY <1>1, <1>2, HeaderSizeAssumption DEF Matches
<1>4. PICK r \in Int : r = HeaderResult(f)
  BY <1>1, <1>2, HeaderMatch
<1>5. CASE r < 0
  <2>1. ~Whole(s, n) /\ Matches(View(e), s, n)
    BY <1>1, <1>2, <1>4, <1>5, HeaderMatch
  <2>. QED  BY <1>1, <2>1 DEF Follows
<1>6. CASE ~(r < 0)
  <2>1. PICK g : g = AfterHeader(f)
    OBVIOUS
  <2>2. /\ Whole(s, n) /\ r = HeaderAt(s, n) /\ g.header = r /\ g.bytes = Drop(s, n + HeaderSize)
    BY <1>1, <1>2, <1>4, <1>6, <2>1, HeaderMatch
  <2>3. g \in FrameType
    BY <1>3, <2>1, HeaderStep
  <2>4. n + HeaderSize <= Len(s)
    BY <2>2 DEF Whole
  <2>5. ~(HeaderResult(View(d)) < 0) /\ View(e) = g
    BY <1>2, <1>4, <1>6, <2>1
  <2>6. CASE r # 0
    <3>1. Matches(g, s, n)
      BY <1>3, <2>2, <2>3, <2>4, <2>6 DEF Matches
    <3>. QED  BY <1>1, <2>5, <3>1 DEF Follows
  \* An empty frame is past once its header is.
  <2>7. CASE r = 0
    <3>1. BodyAt(s, n) = <<>> /\ NextAt(s, n) = n + HeaderSize
      BY <1>3, <2>2, <2>7 DEF BodyAt, NextAt
    <3>2. bs \o <<>> = bs
      BY ConcatEmpty
    <3>3. Cut(s, n + HeaderSize, bs)
      <4>1. Cut(s, NextAt(s, n), bs \o BodyAt(s, n))
        BY <1>1, <1>3, <2>2, CutStep
      <4>. QED  BY <3>1, <3>2, <4>1
    <3>4. Matches(g, s, n + HeaderSize)
      BY <1>3, <2>2, <2>3, <2>4, <2>7 DEF Matches
    <3>. QED  BY <2>5, <3>3, <3>4 DEF Follows
  <2>. QED  BY <2>6, <2>7
<1>. QED  BY <1>5, <1>6

LEMMA FollowsBody ==
    ASSUME NEW s \in Seq(Int), NEW bs \in Seq(Seq(Int)), NEW d, NEW idle, Follows(s, bs, d, idle),
           View(d).header > 0, Len(View(d).bytes) >= View(d).header,
           NEW e, View(e) = [header |-> 0, bytes |-> Drop(View(d).bytes, View(d).header)]
    PROVE  Follows(s, Append(bs, Take(View(d).bytes, View(d).header)), e, FALSE)
<1>1. PICK n : Cut(s, n, bs) /\ Matches(View(d), s, n)
  BY DEF Follows
<1>2. PICK f : f = View(d)
  OBVIOUS
<1>3. n \in 0 .. Len(s) /\ n \in Nat /\ Len(s) \in Nat /\ f \in FrameType /\ HeaderSize \in Nat
      /\ f.header \in Int /\ f.bytes \in Seq(Int)
  BY <1>1, <1>2, HeaderSizeAssumption DEF Matches, FrameType
<1>4. PICK h \in Nat : h = f.header /\ h > 0
  BY <1>2, <1>3
<1>5. n + HeaderSize <= Len(s) /\ h = HeaderAt(s, n) /\ f.bytes = Drop(s, n + HeaderSize)
  BY <1>1, <1>2, <1>4 DEF Matches
<1>6. PICK m \in Nat : m = n + HeaderSize
  BY <1>3
<1>7. m \in 0 .. Len(s) /\ Len(Drop(s, m)) = Len(s) - m
  <2>1. m \in 0 .. Len(s)
    BY <1>3, <1>5, <1>6
  <2>. QED  BY <2>1, SplitFacts
<1>8. m + h <= Len(s)
  BY <1>2, <1>3, <1>4, <1>5, <1>6, <1>7
<1>9. Whole(s, n)
  BY <1>3, <1>4, <1>5, <1>6, <1>8 DEF Whole
<1>10. Take(f.bytes, h) = SubSeq(s, m + 1, m + h) /\ Drop(f.bytes, h) = Drop(s, m + h)
  BY <1>5, <1>6, <1>8, RestFacts, ZenonT(90)
<1>11. BodyAt(s, n) = <<Take(f.bytes, h)>> /\ NextAt(s, n) = m + h
  <2>1. n + HeaderSize + 1 = m + 1 /\ n + HeaderSize + h = m + h
    BY <1>3, <1>6
  <2>2. HeaderAt(s, n) # 0
    BY <1>4, <1>5
  <2>. QED  BY <1>5, <1>10, <2>1, <2>2 DEF BodyAt, NextAt
<1>12. Cut(s, m + h, Append(bs, Take(f.bytes, h)))
  <2>1. Cut(s, NextAt(s, n), bs \o BodyAt(s, n))
    BY <1>1, <1>3, <1>9, CutStep
  <2>2. PICK x \in Seq(Int) : x = Take(f.bytes, h)
    <3>1. h \in 0 .. Len(f.bytes)
      BY <1>2, <1>4
    <3>. QED  BY <1>3, <3>1, SplitFacts
  <2>3. bs \o <<x>> = Append(bs, x)
    OBVIOUS
  <2>. QED  BY <1>11, <2>1, <2>2, <2>3, Zenon
<1>13. Matches(View(e), s, m + h)
  <2>1. View(e) = [header |-> 0, bytes |-> Drop(s, m + h)]
    BY <1>2, <1>4, <1>10
  <2>2. m + h \in 0 .. Len(s)
    BY <1>3, <1>8
  <2>3. Drop(s, m + h) \in Seq(Int)
    BY <2>2, SplitFacts
  <2>. QED  BY <2>1, <2>2, <2>3 DEF Matches, FrameType
<1>. QED  BY <1>2, <1>4, <1>12, <1>13 DEF Follows

LEMMA FollowsFrames ==
    ASSUME NEW s \in Seq(Int), NEW bs, NEW d, NEW idle, Follows(s, bs, d, idle)
    PROVE  IsPrefix(bs, Frames(s)) /\ (idle => bs = Frames(s))
<1>1. PICK n : Cut(s, n, bs) /\ (idle => ~Whole(s, n))
  BY DEF Follows
<1>2. n \in Nat /\ bs \in Seq(Seq(Int))
  BY <1>1, CutType
<1>3. PICK t \in Seq(Seq(Int)) : t = ParseFrom(s, n)
  BY <1>2, ParseUnfolds
<1>4. Frames(s) = bs \o t
  BY <1>1, <1>3, CutFrames
<1>5. IsPrefix(bs, bs \o t)
  <2>1. Len(bs) \in 0 .. Len(bs) /\ Len(bs) <= Len(bs \o t)
    BY <1>2
  <2>2. Take(bs \o t, Len(bs)) = Take(bs, Len(bs))
    BY <1>2, <2>1, CutFirst
  <2>. QED  BY <2>1, <2>2 DEF IsPrefix, Take
<1>6. ASSUME idle  PROVE bs = Frames(s)
  <2>1. t = <<>>
    BY <1>1, <1>2, <1>3, <1>6, ParseUnfolds
  <2>. QED  BY <1>2, <1>4, <2>1, ConcatEmpty
<1>. QED  BY <1>4, <1>5, <1>6

-----------------------------------------------------------------------------
(* The inductive invariant.                                                 *)

DataType ==
    /\ db \in [Buffers -> BufferType]
    /\ mp \in [free : Nat, blocks : Nat]
    /\ busy \in Buffers \cup {NoBuffer}
    /\ sent \in [Buffers -> Seq(Int)]
    /\ got \in [Buffers -> Seq(Seq(Int))]

\* The list nodes that the buffers hold.
Held == [b \in Buffers |-> Len(db[b].msgs)]

DataInv ==
    /\ DataType
    /\ \A b \in Buffers : Exact(db[b])
    /\ mp.free + Total(Held, Buffers) = mp.blocks * MESSAGEPOOL
    /\ \A b \in Buffers : Follows(sent[b], got[b], db[b], busy # b)

LEMMA HeldIs == MapThenSumSet(LAMBDA b : Len(db[b].msgs), Buffers) = Total(Held, Buffers)
<1>1. \A s \in SUBSET Buffers : s # {} => Held[AnyOf(s)] = Len(db[AnyOf(s)].msgs)
  <2>1. \A s \in SUBSET Buffers : s # {} => AnyOf(s) \in Buffers
    BY DEF AnyOf
  <2>. QED  BY <2>1 DEF Held
<1>2. ASSUME NEW g
      PROVE  g = [s \in SUBSET Buffers |->
                    IF s = {} THEN 0
                    ELSE Len(db[CHOOSE x \in s : TRUE].msgs) + g[s \ {CHOOSE x \in s : TRUE}]]
             <=> SumsUp(g, Held, Buffers)
  BY <1>1 DEF SumsUp, AnyOf
<1>. QED  BY <1>2, Zenon DEF MapThenSumSet, MapThenFoldSet, Total

\* The nodes held after a change of one buffer.
LEMMA HeldChanges ==
    ASSUME DataInv, NEW b \in Buffers, NEW e, Exact(e), db' = [db EXCEPT ![b] = e]
    PROVE  Total(Held, Buffers)' = Total(Held, Buffers) - Len(db[b].msgs) + Len(e.msgs)
<1>1. db \in [Buffers -> BufferType] /\ \A c \in Buffers : Exact(db[c])
  BY DEF DataInv, DataType
<1>2. \A c \in Buffers : Held[c] = Len(db[c].msgs) /\ Held[c] \in Int
  BY <1>1, ExactFacts DEF Held
<1>3. PICK H : H = [c \in Buffers |-> Len(db'[c].msgs)]
  OBVIOUS
<1>4. \A c \in Buffers : H[c] = IF c = b THEN Len(e.msgs) ELSE Held[c]
  BY <1>1, <1>2, <1>3
<1>5. Len(e.msgs) \in Int
  BY ExactFacts
<1>6. Total(H, Buffers) = Total(Held, Buffers) - Held[b] + H[b]
  <2>1. \A c \in Buffers : Held[c] \in Int /\ H[c] \in Int
    BY <1>2, <1>4, <1>5
  <2>2. \A c \in Buffers : c # b => H[c] = Held[c]
    BY <1>4
  <2>3. PICK F : F = Held
    OBVIOUS
  <2>4. /\ \A c \in Buffers : F[c] \in Int /\ H[c] \in Int
        /\ \A c \in Buffers : c # b => H[c] = F[c]
    BY <2>1, <2>2, <2>3
  <2>5. IsFiniteSet(Buffers)
    BY BuffersAssumption
  <2>6. Total(H, Buffers) = Total(F, Buffers) - F[b] + H[b]
    BY ONLY <2>4, <2>5, TotalChanges, b \in Buffers
  <2>. QED  BY <2>3, <2>6
<1>7. Total(Held, Buffers)' = Total(H, Buffers)
  BY <1>3 DEF Held, Total, SumsUp
<1>. QED  BY <1>2, <1>4, <1>6, <1>7

LEMMA HeldType ==
    ASSUME DataInv
    PROVE  Total(Held, Buffers) \in Int
<1>1. \A c \in Buffers : Held[c] \in Int
  BY ExactFacts DEF DataInv, Held
<1>. QED  BY <1>1, BuffersAssumption, TotalUnfolds

\* n nodes go from a buffer to the free list.
LEMMA NodesReturn ==
    ASSUME DataInv, NEW b \in Buffers, NEW e, Exact(e), db' = [db EXCEPT ![b] = e],
           NEW n \in Nat, Len(e.msgs) = Len(db[b].msgs) - n, ReturnNodes(n)
    PROVE  /\ mp' \in [free : Nat, blocks : Nat]
           /\ (mp.free + Total(Held, Buffers) = mp.blocks * MESSAGEPOOL)'
<1>1. PICK t \in Int : t = Total(Held, Buffers)
  BY HeldType
<1>2. Len(e.msgs) \in Nat /\ Len(db[b].msgs) \in Nat
  BY ExactFacts DEF DataInv
<1>3. Total(Held, Buffers)' = t - n
  <2>1. Total(Held, Buffers)' = t - Len(db[b].msgs) + Len(e.msgs)
    BY <1>1, HeldChanges
  <2>. QED  BY <1>2, <2>1
<1>4. mp \in [free : Nat, blocks : Nat] /\ mp.free + t = mp.blocks * MESSAGEPOOL
  BY <1>1 DEF DataInv, DataType
<1>5. mp' \in [free : Nat, blocks : Nat] /\ mp'.free = mp.free + n /\ mp'.blocks = mp.blocks
  BY <1>4 DEF ReturnNodes
<1>6. mp'.free + (t - n) = mp.free + t
  BY <1>4, <1>5
<1>. QED  BY <1>3, <1>4, <1>5, <1>6

\* A change of one buffer leaves the others what they were.
LEMMA OthersStay ==
    ASSUME DataInv, NEW b \in Buffers, NEW e, Exact(e), db' = [db EXCEPT ![b] = e],
           NEW s \in Seq(Int), sent' = [sent EXCEPT ![b] = s],
           NEW bs \in Seq(Seq(Int)), got' = [got EXCEPT ![b] = bs],
           busy = b \/ busy = NoBuffer, busy' = b \/ busy' = NoBuffer,
           Follows(s, bs, e, busy' # b)
    PROVE  /\ db' \in [Buffers -> BufferType] /\ sent' \in [Buffers -> Seq(Int)]
           /\ got' \in [Buffers -> Seq(Seq(Int))] /\ busy' \in Buffers \cup {NoBuffer}
           /\ \A c \in Buffers : Exact(db'[c]) /\ Follows(sent'[c], got'[c], db'[c], busy' # c)
<1>1. /\ db \in [Buffers -> BufferType] /\ sent \in [Buffers -> Seq(Int)]
      /\ got \in [Buffers -> Seq(Seq(Int))] /\ e \in BufferType
  BY ExactFacts DEF DataInv, DataType
<1>2. ASSUME NEW c \in Buffers
      PROVE  Exact(db'[c]) /\ Follows(sent'[c], got'[c], db'[c], busy' # c)
  <2>1. CASE c = b
    <3>1. db'[c] = e /\ sent'[c] = s /\ got'[c] = bs
      BY <1>1, <2>1
    <3>. QED  BY <2>1, <3>1
  <2>2. CASE c # b
    <3>1. db'[c] = db[c] /\ sent'[c] = sent[c] /\ got'[c] = got[c]
      BY <1>1, <2>2
    <3>2. busy # c
      BY <2>2, BuffersAssumption
    <3>3. Exact(db[c]) /\ Follows(sent[c], got[c], db[c], busy # c)
      BY DEF DataInv
    <3>4. Follows(sent[c], got[c], db[c], busy' # c)
      BY <3>2, <3>3 DEF Follows
    <3>. QED  BY <3>1, <3>3, <3>4
  <2>. QED  BY <2>1, <2>2
<1>. QED  BY <1>1, <1>2

LEMMA DataInit == Init => DataInv
<1> SUFFICES ASSUME Init  PROVE DataInv
  OBVIOUS
<1> USE DEF Init
<1>1. <<>> \in Seq(Int) /\ <<>> \in Seq(Seq(Int)) /\ BlankBuffer \in BufferType
  BY EmptyInSeq, BlankIs, ExactFacts
<1>2. DataType
  BY <1>1 DEF DataType
<1>3. \A b \in Buffers : Exact(db[b])
  BY BlankIs
<1>4. mp.free + Total(Held, Buffers) = mp.blocks * MESSAGEPOOL
  <2>1. \A b \in Buffers : Held[b] = 0
    BY BlankIs DEF Held
  <2>2. Total(Held, Buffers) = 0
    BY <2>1, BuffersAssumption, TotalZero
  <2>. QED  BY <2>2, PoolAssumption
<1>5. \A b \in Buffers : Follows(sent[b], got[b], db[b], busy # b)
  <2>1. \A b \in Buffers : busy # b
    BY BuffersAssumption
  <2>2. \A b \in Buffers : sent[b] = <<>> /\ got[b] = <<>> /\ db[b] = BlankBuffer
    OBVIOUS
  <2>. QED  BY <2>1, <2>2, FollowsBlank DEF Follows
<1>. QED  BY <1>2, <1>3, <1>4, <1>5 DEF DataInv

LEMMA DataPush ==
    ASSUME DataInv, NEW b \in Buffers, NEW c \in Chunks, databuffer_push(b, c)
    PROVE  /\ DataInv' /\ busy = NoBuffer
           /\ View(db[b])' = [View(db[b]) EXCEPT !.bytes = @ \o c]
           /\ db' = [db EXCEPT ![b] = db'[b]]
<1>1. /\ db \in [Buffers -> BufferType] /\ sent \in [Buffers -> Seq(Int)]
      /\ got \in [Buffers -> Seq(Seq(Int))] /\ Exact(db[b])
      /\ Follows(sent[b], got[b], db[b], busy # b)
  BY DEF DataInv, DataType
<1>2. c \in Seq(Int)
  <2>1. c \in Seq(Byte)
    BY ChunksAssumption DEF Byte
  <2>. QED  BY <2>1, BytesAreInts
<1>3. PICK e : e = [db[b] EXCEPT !.size = @ + Len(c), !.msgs = Append(@, c)]
  OBVIOUS
<1>4. /\ db' = [db EXCEPT ![b] = e] /\ sent' = [sent EXCEPT ![b] = sent[b] \o c]
      /\ got' = [got EXCEPT ![b] = got[b]] /\ busy' = b /\ busy = NoBuffer /\ TakeNode
  BY <1>1, <1>3 DEF databuffer_push, BufferType
<1>5. /\ Exact(e) /\ View(e) = [View(db[b]) EXCEPT !.bytes = @ \o c]
      /\ Len(e.msgs) = Len(db[b].msgs) + 1
  BY <1>1, <1>3, PushIs
<1>6. PICK s \in Seq(Int) : s = sent[b] \o c
  BY <1>1, <1>2, ConcatInSeq
<1>7. Follows(s, got[b], e, busy' # b)
  <2>1. sent[b] \in Seq(Int)
    BY <1>1
  <2>2. Follows(sent[b] \o c, got[b], e, FALSE)
    BY <1>1, <1>2, <1>5, <2>1, FollowsPush
  <2>. QED  BY <1>4, <1>6, <2>2 DEF Follows
<1>8. /\ db' \in [Buffers -> BufferType] /\ sent' \in [Buffers -> Seq(Int)]
      /\ got' \in [Buffers -> Seq(Seq(Int))] /\ busy' \in Buffers \cup {NoBuffer}
      /\ \A x \in Buffers : Exact(db'[x]) /\ Follows(sent'[x], got'[x], db'[x], busy' # x)
  <2>1. got[b] \in Seq(Seq(Int))
    BY <1>1
  <2>. QED  BY <1>4, <1>5, <1>6, <1>7, <2>1, OthersStay
<1>9. /\ mp' \in [free : Nat, blocks : Nat]
      /\ (mp.free + Total(Held, Buffers) = mp.blocks * MESSAGEPOOL)'
  <2>1. PICK t \in Int : t = Total(Held, Buffers)
    BY HeldType
  <2>2. Len(db[b].msgs) \in Nat
    BY <1>1, ExactFacts
  <2>3. Total(Held, Buffers)' = t + 1
    <3>1. Total(Held, Buffers)' = t - Len(db[b].msgs) + Len(e.msgs)
      BY <1>4, <1>5, <2>1, HeldChanges
    <3>. QED  BY <1>5, <2>2, <3>1
  <2>4. /\ mp \in [free : Nat, blocks : Nat] /\ mp.free + t = mp.blocks * MESSAGEPOOL
        /\ mp.free \in Nat /\ mp.blocks \in Nat /\ MESSAGEPOOL \in Nat /\ MESSAGEPOOL > 1
    BY <2>1, PoolAssumption DEF DataInv, DataType
  <2>5. CASE mp.free > 0
    <3>1. mp' = [mp EXCEPT !.free = @ - 1]
      BY <1>4, <2>5 DEF TakeNode
    <3>2. mp'.free = mp.free - 1 /\ mp'.blocks = mp.blocks /\ mp.free - 1 \in Nat
          /\ mp' \in [free : Nat, blocks : Nat]
      BY <2>4, <2>5, <3>1
    <3>3. mp'.free + (t + 1) = mp.free + t
      BY <2>4, <3>2
    <3>. QED  BY <2>3, <2>4, <3>2, <3>3
  <2>6. CASE ~(mp.free > 0)
    <3>1. mp' = [free |-> MESSAGEPOOL - 1, blocks |-> mp.blocks + 1]
      BY <1>4, <2>6 DEF TakeNode
    <3>2. /\ mp'.free = MESSAGEPOOL - 1 /\ mp'.blocks = mp.blocks + 1
          /\ mp' \in [free : Nat, blocks : Nat]
      BY <2>4, <3>1
    <3>3. PICK k \in Nat : k = mp.blocks
      BY <2>4
    <3>4. (k + 1) * MESSAGEPOOL = k * MESSAGEPOOL + MESSAGEPOOL
      BY <2>4
    <3>5. t = k * MESSAGEPOOL
      BY <2>4, <2>6, <3>3
    <3>6. (MESSAGEPOOL - 1) + (t + 1) = (k + 1) * MESSAGEPOOL
      BY <2>4, <3>4, <3>5
    <3>. QED  BY <2>3, <3>2, <3>3, <3>6
  <2>. QED  BY <2>5, <2>6
<1>10. DataInv'
  BY <1>8, <1>9 DEF DataInv, DataType
<1>11. db'[b] = e
  BY <1>1, <1>4
<1>. QED  BY <1>4, <1>5, <1>10, <1>11

LEMMA DataHeader ==
    ASSUME DataInv, NEW b \in Buffers, databuffer_readheader(b)
    PROVE  /\ DataInv' /\ View(db[b])' = AfterHeader(View(db[b]))
           /\ db' = [db EXCEPT ![b] = db'[b]]
<1>1. /\ db \in [Buffers -> BufferType] /\ sent \in [Buffers -> Seq(Int)]
      /\ got \in [Buffers -> Seq(Seq(Int))] /\ Exact(db[b])
      /\ Follows(sent[b], got[b], db[b], busy # b)
  BY DEF DataInv, DataType
<1>2. PICK h : h = WithHeader(db[b])
  OBVIOUS
<1>3. /\ Exact(h.left) /\ View(h.left) = AfterHeader(View(db[b]))
      /\ Result(db[b], h.left) = HeaderResult(View(db[b]))
      /\ h.nodes \in Nat /\ Len(h.left.msgs) = Len(db[b].msgs) - h.nodes
  BY <1>1, <1>2, HeaderIs
<1>4. /\ db' = [db EXCEPT ![b] = h.left] /\ sent' = [sent EXCEPT ![b] = sent[b]]
      /\ got' = [got EXCEPT ![b] = got[b]] /\ busy = b /\ ReturnNodes(h.nodes)
      /\ busy' = IF HeaderResult(View(db[b])) < 0 THEN NoBuffer ELSE b
  BY <1>1, <1>2, <1>3 DEF databuffer_readheader
<1>5. sent[b] \in Seq(Int) /\ got[b] \in Seq(Seq(Int))
  BY <1>1
<1>6. Follows(sent[b], got[b], h.left, busy' # b)
  <2>1. Follows(sent[b], got[b], h.left, HeaderResult(View(db[b])) < 0)
    BY <1>1, <1>3, <1>5, FollowsHeader
  <2>2. busy' # b => HeaderResult(View(db[b])) < 0
    BY <1>4
  <2>. QED  BY <2>1, <2>2 DEF Follows
<1>7. busy' = b \/ busy' = NoBuffer
  BY <1>4
<1>8. PICK e : e = h.left
  OBVIOUS
<1>9. /\ db' \in [Buffers -> BufferType] /\ sent' \in [Buffers -> Seq(Int)]
      /\ got' \in [Buffers -> Seq(Seq(Int))] /\ busy' \in Buffers \cup {NoBuffer}
      /\ \A x \in Buffers : Exact(db'[x]) /\ Follows(sent'[x], got'[x], db'[x], busy' # x)
  <2>1. /\ Exact(e) /\ db' = [db EXCEPT ![b] = e] /\ Follows(sent[b], got[b], e, busy' # b)
    BY <1>3, <1>4, <1>6, <1>8
  <2>. QED  BY <1>4, <1>5, <1>7, <2>1, OthersStay
<1>10. /\ mp' \in [free : Nat, blocks : Nat]
       /\ (mp.free + Total(Held, Buffers) = mp.blocks * MESSAGEPOOL)'
  <2>1. PICK n \in Nat : n = h.nodes
    BY <1>3
  <2>2. /\ Exact(e) /\ db' = [db EXCEPT ![b] = e] /\ Len(e.msgs) = Len(db[b].msgs) - n
        /\ ReturnNodes(n)
    BY <1>3, <1>4, <1>8, <2>1
  <2>. QED  BY <2>2, NodesReturn
<1>11. DataInv'
  BY <1>9, <1>10 DEF DataInv, DataType
<1>12. db'[b] = e
  BY <1>1, <1>4, <1>8
<1>. QED  BY <1>3, <1>4, <1>8, <1>11, <1>12

LEMMA DataBody ==
    ASSUME DataInv, NEW b \in Buffers, ReadBody(b)
    PROVE  /\ DataInv' /\ sent' = sent
           /\ View(db[b]).header > 0 /\ Len(View(db[b]).bytes) >= View(db[b]).header
           /\ View(db[b])' = [header |-> 0, bytes |-> Drop(View(db[b]).bytes, View(db[b]).header)]
           /\ got' = [got EXCEPT ![b] = Append(@, Take(View(db[b]).bytes, View(db[b]).header))]
           /\ db' = [db EXCEPT ![b] = db'[b]]
<1>1. /\ db \in [Buffers -> BufferType] /\ sent \in [Buffers -> Seq(Int)]
      /\ got \in [Buffers -> Seq(Seq(Int))] /\ Exact(db[b])
      /\ Follows(sent[b], got[b], db[b], busy # b)
  BY DEF DataInv, DataType
<1>2. db[b].header \in Int /\ db[b].header > 0 /\ db[b].size >= db[b].header
  BY BigFrameAssumption DEF ReadBody
<1>3. PICK r : r = Read(db[b], db[b].header)
  OBVIOUS
<1>4. PICK e : e = [r.left EXCEPT !.header = 0]
  OBVIOUS
<1>5. PICK f : f = View(db[b])
  OBVIOUS
<1>6. /\ f.header = db[b].header /\ Len(f.bytes) = db[b].size /\ f.bytes \in Seq(Int)
  BY <1>1, <1>5, ExactFacts
<1>7. /\ Exact(e) /\ r.bytes = Take(f.bytes, f.header)
      /\ View(e) = [header |-> 0, bytes |-> Drop(f.bytes, f.header)]
      /\ r.nodes \in Nat /\ Len(e.msgs) = Len(db[b].msgs) - r.nodes
  <2>1. PICK d : d = db[b]
    OBVIOUS
  <2>2. /\ Exact(d) /\ d.header > 0 /\ d.size >= d.header /\ r = Read(d, d.header)
        /\ e = [r.left EXCEPT !.header = 0] /\ f = View(d) /\ f.header = d.header
    BY <1>1, <1>2, <1>3, <1>4, <1>5, <1>6, <2>1
  <2>3. /\ Exact(e) /\ r.bytes = Take(View(d).bytes, d.header)
        /\ View(e) = [header |-> 0, bytes |-> Drop(View(d).bytes, d.header)]
        /\ r.nodes \in Nat /\ Len(e.msgs) = Len(d.msgs) - r.nodes
    BY <2>2, BodyIs
  <2>. QED  BY <2>1, <2>2, <2>3
<1>8. /\ db' = [db EXCEPT ![b] = e] /\ sent' = [sent EXCEPT ![b] = sent[b]] /\ sent' = sent
      /\ got' = [got EXCEPT ![b] = Append(got[b], r.bytes)]
      /\ busy = b /\ busy' = b /\ ReturnNodes(r.nodes)
  BY <1>1, <1>3, <1>4 DEF ReadBody
<1>9. sent[b] \in Seq(Int) /\ got[b] \in Seq(Seq(Int))
  BY <1>1
<1>10. PICK bs \in Seq(Seq(Int)) : bs = Append(got[b], r.bytes)
  <2>1. PICK h \in 0 .. Len(f.bytes) : h = f.header
    <3>1. Len(f.bytes) \in Nat
      BY <1>6
    <3>. QED  BY <1>2, <1>6, <3>1
  <2>2. r.bytes \in Seq(Int)
    BY <1>6, <1>7, <2>1, SplitFacts
  <2>. QED  BY <1>9, <2>2, AppendInSeq
<1>11. Follows(sent[b], bs, e, busy' # b)
  <2>1. Follows(sent[b], Append(got[b], Take(f.bytes, f.header)), e, FALSE)
    BY <1>1, <1>2, <1>5, <1>6, <1>7, <1>9, FollowsBody
  <2>. QED  BY <1>7, <1>8, <1>10, <2>1 DEF Follows
<1>12. /\ db' \in [Buffers -> BufferType] /\ sent' \in [Buffers -> Seq(Int)]
       /\ got' \in [Buffers -> Seq(Seq(Int))] /\ busy' \in Buffers \cup {NoBuffer}
       /\ \A x \in Buffers : Exact(db'[x]) /\ Follows(sent'[x], got'[x], db'[x], busy' # x)
  BY <1>7, <1>8, <1>9, <1>10, <1>11, OthersStay
<1>13. /\ mp' \in [free : Nat, blocks : Nat]
       /\ (mp.free + Total(Held, Buffers) = mp.blocks * MESSAGEPOOL)'
  <2>1. PICK n \in Nat : n = r.nodes
    BY <1>7
  <2>2. Len(e.msgs) = Len(db[b].msgs) - n /\ ReturnNodes(n)
    BY <1>7, <1>8, <2>1
  <2>. QED  BY <1>7, <1>8, <2>2, NodesReturn
<1>14. DataInv'
  BY <1>12, <1>13 DEF DataInv, DataType
<1>15. db'[b] = e
  BY <1>1, <1>8
<1>. QED  BY <1>2, <1>5, <1>6, <1>7, <1>8, <1>14, <1>15

LEMMA DataClear ==
    ASSUME DataInv, NEW b \in Buffers, busy = b \/ busy = NoBuffer, databuffer_clear(b)
    PROVE  /\ DataInv' /\ View(db[b])' = BlankFrame /\ db' = [db EXCEPT ![b] = db'[b]]
<1>1. db \in [Buffers -> BufferType] /\ Exact(db[b])
  BY DEF DataInv, DataType
<1>2. /\ db' = [db EXCEPT ![b] = BlankBuffer] /\ sent' = [sent EXCEPT ![b] = <<>>]
      /\ got' = [got EXCEPT ![b] = <<>>] /\ busy' = NoBuffer /\ ReturnNodes(Len(db[b].msgs))
  BY DEF databuffer_clear
<1>3. PICK e : e = BlankBuffer
  OBVIOUS
<1>4. Exact(e) /\ View(e) = BlankFrame /\ Len(e.msgs) = 0
  BY <1>3, BlankIs
<1>5. <<>> \in Seq(Int) /\ <<>> \in Seq(Seq(Int))
  BY EmptyInSeq
<1>6. Follows(<<>>, <<>>, e, busy' # b)
  BY <1>3, FollowsBlank DEF Follows
<1>7. /\ db' \in [Buffers -> BufferType] /\ sent' \in [Buffers -> Seq(Int)]
      /\ got' \in [Buffers -> Seq(Seq(Int))] /\ busy' \in Buffers \cup {NoBuffer}
      /\ \A x \in Buffers : Exact(db'[x]) /\ Follows(sent'[x], got'[x], db'[x], busy' # x)
  BY <1>2, <1>3, <1>4, <1>5, <1>6, OthersStay
<1>8. /\ mp' \in [free : Nat, blocks : Nat]
      /\ (mp.free + Total(Held, Buffers) = mp.blocks * MESSAGEPOOL)'
  <2>1. PICK n \in Nat : n = Len(db[b].msgs)
    BY <1>1, ExactFacts
  <2>2. Len(e.msgs) = Len(db[b].msgs) - n /\ ReturnNodes(n)
    BY <1>2, <1>4, <2>1
  <2>. QED  BY <1>2, <1>3, <1>4, <2>2, NodesReturn
<1>9. DataInv'
  BY <1>7, <1>8 DEF DataInv, DataType
<1>10. db'[b] = e
  BY <1>1, <1>2, <1>3
<1>. QED  BY <1>2, <1>3, <1>4, <1>9, <1>10

LEMMA DataNext == DataInv /\ [Next]_vars => DataInv'
<1> SUFFICES ASSUME DataInv, [Next]_vars  PROVE DataInv'
  OBVIOUS
<1>1. ASSUME NEW b \in Buffers, NEW c \in Chunks, databuffer_push(b, c)  PROVE DataInv'
  BY <1>1, DataPush
<1>2. ASSUME NEW b \in Buffers, databuffer_readheader(b)  PROVE DataInv'
  BY <1>2, DataHeader
<1>3. ASSUME NEW b \in Buffers, ReadBody(b)  PROVE DataInv'
  BY <1>3, DataBody
<1>4. ASSUME NEW b \in Buffers, TooLong(b) \/ Closed(b)  PROVE DataInv'
  BY <1>4, DataClear DEF TooLong, Closed
<1>5. CASE UNCHANGED vars
  BY <1>5 DEF vars, DataInv, DataType, Held
<1>. QED  BY <1>1, <1>2, <1>3, <1>4, <1>5 DEF Next, LoopStep

-----------------------------------------------------------------------------

(* databuffer_read never runs off the list of chunks, the size that every   *)
(* length test uses is the number of unread bytes, and the pool neither     *)
(* loses a node nor hands one out twice.                                    *)
THEOREM DataBuffersExact == Spec => []BuffersExact
<1>1. DataInv => BuffersExact
  <2> SUFFICES ASSUME DataInv  PROVE BuffersExact
    OBVIOUS
  <2>1. ASSUME NEW b \in Buffers
        PROVE  /\ db[b].header \in Header
               /\ db[b].offset \in Nat /\ db[b].size \in Nat /\ db[b].msgs \in Seq(Seq(Byte))
               /\ db[b].size = Len(Pending(db[b]))
               /\ IF db[b].msgs = <<>> THEN db[b].offset = 0
                                       ELSE db[b].offset < Len(db[b].msgs[1])
    <3>1. Exact(db[b])
      BY DEF DataInv
    <3>. QED  BY <3>1, FormedFacts DEF Exact, Formed
  <2>2. mp.free \in Nat /\ mp.blocks \in Nat /\ busy \in Buffers \cup {NoBuffer}
    BY DEF DataInv, DataType
  <2>3. TypeOK
    BY <2>1, <2>2 DEF TypeOK, Header, Byte
  <2>4. mp.free + MapThenSumSet(LAMBDA b : Len(db[b].msgs), Buffers) = mp.blocks * MESSAGEPOOL
    BY HeldIs DEF DataInv
  <2>. QED  BY <2>1, <2>3, <2>4, Zenon DEF BuffersExact
<1>. QED  BY <1>1, DataInit, DataNext, PTL DEF Spec

(* The frames that dispatch_message's loop reads are those of the reference *)
(* parse of the bytes received, all of them between two socket messages,    *)
(* however the socket cut the stream into chunks.                           *)
THEOREM DataFramesExact == Spec => []FramesExact
<1>1. DataInv => FramesExact
  <2> SUFFICES ASSUME DataInv, NEW b \in Buffers
               PROVE  /\ IsPrefix(got[b], Frames(sent[b]))
                      /\ busy # b => got[b] = Frames(sent[b])
    BY DEF FramesExact
  <2>1. sent[b] \in Seq(Int) /\ Follows(sent[b], got[b], db[b], busy # b)
    BY DEF DataInv, DataType
  <2>. QED  BY <2>1, FollowsFrames
<1>. QED  BY <1>1, DataInit, DataNext, PTL DEF Spec

(* Every step on the chunks and the pool is a step of the frame buffer, or  *)
(* leaves it as it was.                                                     *)
THEOREM DataImplementsFrames == Spec => ImplementsFrames
<1> DEFINE Mapped == [b \in Buffers |-> [header |-> db[b].header, bytes |-> Pending(db[b])]]
<1>0. /\ Abstract!BlankFrame = BlankFrame
      /\ \A p, n : Abstract!Take(p, n) = Take(p, n) /\ Abstract!Drop(p, n) = Drop(p, n)
      /\ \A f : Abstract!AfterHeader(f) = AfterHeader(f)
  <2>1. Abstract!BlankFrame = BlankFrame
    BY DEF Abstract!BlankFrame, BlankFrame
  <2>2. \A p, n : Abstract!Take(p, n) = Take(p, n) /\ Abstract!Drop(p, n) = Drop(p, n)
    BY Zenon DEF Abstract!Take, Take, Abstract!Drop, Drop
  <2>3. \A p : Abstract!HeaderValue(p) = HeaderValue(p)
    BY Zenon DEF Abstract!HeaderValue, HeaderValue
  <2>4. \A f : Abstract!AfterHeader(f) = AfterHeader(f)
    BY <2>2, <2>3 DEF Abstract!AfterHeader, AfterHeader
  <2>. QED  BY <2>1, <2>2, <2>4, Zenon
<1>1. Init => Abstract!FrameInit
  <2>1. \A b \in Buffers : Init => [header |-> db[b].header, bytes |-> Pending(db[b])] = BlankFrame
    BY BlankIs DEF Init, View
  <2>. QED  BY <1>0, <2>1 DEF Init, Abstract!FrameInit
<1>2. DataInv /\ [Next]_vars => [Abstract!FrameNext]_(Abstract!frameVars)
  <2> SUFFICES ASSUME DataInv, [Next]_vars
               PROVE  Abstract!FrameNext \/ UNCHANGED Abstract!frameVars
    OBVIOUS
  <2>0. db \in [Buffers -> BufferType] /\ \A b \in Buffers : Mapped[b] = View(db[b])
    BY DEF DataInv, DataType, View
  <2>a. ASSUME NEW b \in Buffers, db' = [db EXCEPT ![b] = db'[b]], NEW f, View(db[b])' = f
        PROVE  Mapped' = [Mapped EXCEPT ![b] = f]
    <3>1. \A c \in Buffers : Mapped'[c] = View(db[c])'
      BY DEF View
    <3>2. \A c \in Buffers : c # b => View(db[c])' = Mapped[c]
      BY <2>0, <2>a DEF View
    <3>3. \A c \in Buffers : Mapped'[c] = [Mapped EXCEPT ![b] = f][c]
      BY <2>a, <3>1, <3>2
    <3>. QED  BY <3>3
  <2>1. ASSUME NEW b \in Buffers, NEW c \in Chunks, databuffer_push(b, c)
        PROVE  Abstract!FramePush(b, c)
    <3>1. /\ View(db[b])' = [View(db[b]) EXCEPT !.bytes = @ \o c]
          /\ db' = [db EXCEPT ![b] = db'[b]]
      BY <2>1, DataPush
    <3>2. Mapped' = [Mapped EXCEPT ![b] = [View(db[b]) EXCEPT !.bytes = @ \o c]]
      <4> HIDE DEF Mapped
      <4>. QED  BY <2>a, <3>1
    <3>3. [Mapped EXCEPT ![b].bytes = @ \o c] = [Mapped EXCEPT ![b] = [View(db[b]) EXCEPT !.bytes = @ \o c]]
      <4> HIDE DEF Mapped
      <4>. QED  BY <2>0
    <3>4. Mapped' = [Mapped EXCEPT ![b].bytes = @ \o c]
      <4> HIDE DEF Mapped
      <4>. QED  BY <3>2, <3>3
    <3>. QED  BY <2>1, <3>4, Zenon DEF Abstract!FramePush, databuffer_push
  <2>2. ASSUME NEW b \in Buffers, databuffer_readheader(b)  PROVE Abstract!FrameReadHeader(b)
    <3>1. /\ View(db[b])' = AfterHeader(View(db[b]))
          /\ db' = [db EXCEPT ![b] = db'[b]]
      BY <2>2, DataHeader
    <3>2. Mapped' = [Mapped EXCEPT ![b] = AfterHeader(@)]
      <4> HIDE DEF Mapped
      <4>. QED  BY <2>0, <2>a, <3>1
    <3>. QED  BY <1>0, <2>2, <3>2 DEF Abstract!FrameReadHeader, databuffer_readheader
  <2>3. ASSUME NEW b \in Buffers, ReadBody(b)  PROVE Abstract!FrameReadBody(b)
    <3>1. PICK f : f = View(db[b])
      OBVIOUS
    <3>2. /\ sent' = sent /\ f.header > 0 /\ Len(f.bytes) >= f.header
          /\ View(db[b])' = [header |-> 0, bytes |-> Drop(f.bytes, f.header)]
          /\ got' = [got EXCEPT ![b] = Append(@, Take(f.bytes, f.header))]
          /\ db' = [db EXCEPT ![b] = db'[b]]
      BY <2>3, <3>1, DataBody
    <3>3. Mapped' = [Mapped EXCEPT ![b] = [header |-> 0, bytes |-> Drop(f.bytes, f.header)]]
      <4> HIDE DEF Mapped
      <4>. QED  BY <2>a, <3>2
    <3>4. Mapped[b] = f
      BY <2>0, <3>1
    <3>. QED  BY <1>0, <3>2, <3>3, <3>4 DEF Abstract!FrameReadBody
  <2>4. ASSUME NEW b \in Buffers, TooLong(b) \/ Closed(b)  PROVE Abstract!FrameClear(b)
    <3>1. databuffer_clear(b) /\ (busy = b \/ busy = NoBuffer)
      BY <2>4 DEF TooLong, Closed
    <3>2. View(db[b])' = BlankFrame /\ db' = [db EXCEPT ![b] = db'[b]]
      BY <3>1, DataClear
    <3>3. Mapped' = [Mapped EXCEPT ![b] = BlankFrame]
      <4> HIDE DEF Mapped
      <4>. QED  BY <2>a, <3>2
    <3>. QED  BY <1>0, <3>1, <3>3 DEF Abstract!FrameClear, databuffer_clear
  <2>5. CASE UNCHANGED vars
    BY <2>5 DEF vars, Abstract!frameVars, Pending
  <2>. QED  BY <2>1, <2>2, <2>3, <2>4, <2>5 DEF Next, LoopStep, Abstract!FrameNext
<1>. QED  BY <1>1, <1>2, DataInit, DataNext, PTL DEF Spec, ImplementsFrames, Abstract!FrameSpec
=============================================================================
