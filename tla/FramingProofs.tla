--------------------------- MODULE FramingProofs ---------------------------
(***************************************************************************)
(* Facts about frames in a byte stream, for every header size and base:    *)
(* what a header read makes of a buffer, which frames a stream begins      *)
(* with, and what the reference parse makes of them.  The proofs about     *)
(* the gate and about its receive buffers share them.                      *)
(***************************************************************************)
EXTENDS Framing, DataLemmas

FrameType == [header : Int, bytes : Seq(Int)]

LEMMA PowerIsNat == \A k \in 0 .. HeaderSize : Base ^ k \in Nat
<1> DEFINE S == {k \in Nat : k <= HeaderSize => Base ^ k \in Nat}
<1>1. HeaderSize \in Nat /\ Base \in Nat
  BY HeaderSizeAssumption, BaseAssumption
<1>2. 0 \in S
  BY PowerAssumption
<1>3. ASSUME NEW k \in Nat, k \in S  PROVE k + 1 \in S
  <2>1. SUFFICES ASSUME k + 1 <= HeaderSize  PROVE Base ^ (k + 1) \in Nat
    OBVIOUS
  <2>2. k \in 0 .. HeaderSize - 1 /\ Base ^ k \in Nat
    BY <1>1, <1>3, <2>1
  <2>3. PICK p \in Nat : p = Base ^ k
    BY <2>2
  <2>4. Base ^ (k + 1) = p * Base
    BY <2>2, <2>3, PowerAssumption
  <2>. QED  BY <1>1, <2>4
<1> HIDE DEF S
<1>4. Nat \subseteq S
  BY <1>2, <1>3, SetInduction
<1>. QED  BY <1>1, <1>4 DEF S

\* v[k] is the number that the first k bytes of s spell.
Spelled(v, s) ==
    /\ v[0] = 0
    /\ \A k \in 1 .. HeaderSize : v[k] = v[k - 1] * Base + s[k]
    /\ \A k \in 0 .. HeaderSize : v[k] \in Int

LEMMA HeaderSpelled ==
    ASSUME NEW s \in Seq(Int), Len(s) = HeaderSize
    PROVE  \E v : /\ Spelled(v, s)
                  /\ HeaderValue(s) = IF v[HeaderSize] >= Base ^ HeaderSize \div 2
                                      THEN v[HeaderSize] - Base ^ HeaderSize
                                      ELSE v[HeaderSize]
<1> DEFINE D == 0 .. HeaderSize
           v[k \in 0 .. HeaderSize] == IF k = 0 THEN 0 ELSE v[k - 1] * Base + s[k]
           B == [k \in D |-> 0]
           N == [k \in D |-> k - 1]
           E == [p \in D \X Int |-> p[2] * Base + s[p[1]]]
           mu == [k \in D |-> k]
           Eqn(g) == g = [k \in 0 .. HeaderSize |-> IF k = 0 THEN 0 ELSE g[k - 1] * Base + s[k]]
<1>1. HeaderSize \in Nat \ {0} /\ Base \in Nat /\ \A k \in D : k # 0 => s[k] \in Int
  BY HeaderSizeAssumption, BaseAssumption
<1>2. \E g \in [D -> Int] : Solves(g, D, {0}, B, N, E)
  <2>1. \A k \in D : mu[k] \in Nat
    BY <1>1
  <2>2. \A k \in D : k \in {0} => B[k] \in Int
    OBVIOUS
  <2>3. \A k \in D : k \notin {0} => N[k] \in D /\ mu[N[k]] < mu[k]
    BY <1>1
  <2>4. \A k \in D, r \in Int : k \notin {0} => E[<<k, r>>] \in Int
    BY <1>1
  <2> HIDE DEF D, B, N, E, mu
  <2>. QED  BY <2>1, <2>2, <2>3, <2>4, RecursionExists
<1>3. \E g : Eqn(g)
  <2>1. PICK g \in [D -> Int] : Solves(g, D, {0}, B, N, E)
    BY <1>2
  <2>2. ASSUME NEW k \in D
        PROVE  g[k] = IF k = 0 THEN 0 ELSE g[k - 1] * Base + s[k]
    <3>1. k # 0 => k - 1 \in D /\ g[k - 1] \in Int
      BY <1>1
    <3>. QED  BY <2>1, <3>1 DEF Solves
  <2>3. Eqn(g)
    BY <2>2
  <2> HIDE DEF Eqn
  <2>. QED  BY <2>3
<1>4. Eqn(v)
  <2> HIDE DEF Eqn
  <2>1. Eqn(CHOOSE g : Eqn(g))
    BY <1>3, Zenon
  <2>. QED  BY <2>1 DEF Eqn
<1> HIDE DEF v
<1>5. \A k \in D : v[k] \in Int
  <2> DEFINE T == {k \in D : v[k] \in Int}
  <2>1. ASSUME NEW k \in D, \A j \in D : mu[j] < mu[k] => j \in T
        PROVE  k \in T
    <3>1. k # 0 => k - 1 \in D /\ mu[k - 1] < mu[k]
      BY <1>1
    <3>. QED  BY <1>1, <1>4, <2>1, <3>1, SMTT(30)
  <2>2. \A k \in D : mu[k] \in Nat
    BY <1>1
  <2> HIDE DEF T, D, mu
  <2>3. D \subseteq T
    BY <2>1, <2>2, MeasureInduction, ZenonT(40)
  <2>. QED  BY <2>3 DEF T, D
<1>6. Spelled(v, s)
  <2>1. \A k \in D : v[k] = IF k = 0 THEN 0 ELSE v[k - 1] * Base + s[k]
    BY <1>4
  <2>2. 0 \in D /\ \A k \in 1 .. HeaderSize : k \in D /\ k # 0
    BY <1>1
  <2>. QED  BY <1>5, <2>1, <2>2 DEF Spelled
<1>7. HeaderValue(s) = IF v[HeaderSize] >= Base ^ HeaderSize \div 2
                       THEN v[HeaderSize] - Base ^ HeaderSize
                       ELSE v[HeaderSize]
  BY Zenon DEF HeaderValue, v
<1>. QED  BY <1>6, <1>7

\* A header is an integer, whatever its bytes are.
LEMMA HeaderIsInt ==
    ASSUME NEW s \in Seq(Int), Len(s) = HeaderSize
    PROVE  HeaderValue(s) \in Int
<1>1. PICK v : /\ Spelled(v, s)
               /\ HeaderValue(s) = IF v[HeaderSize] >= Base ^ HeaderSize \div 2
                                   THEN v[HeaderSize] - Base ^ HeaderSize
                                   ELSE v[HeaderSize]
  BY HeaderSpelled
<1>2. HeaderSize \in Nat /\ Base ^ HeaderSize \in Nat
  BY HeaderSizeAssumption, PowerIsNat
<1>3. v[HeaderSize] \in Int
  BY <1>1, <1>2 DEF Spelled
<1>. QED  BY <1>1, <1>2, <1>3

\* The bytes of a header spell a number below Base ^ HeaderSize.
LEMMA HeaderInRange ==
    ASSUME NEW s \in Seq(0 .. Base - 1), Len(s) = HeaderSize
    PROVE  HeaderValue(s) \in -(Base ^ HeaderSize) .. Base ^ HeaderSize
<1>1. s \in Seq(Int) /\ HeaderSize \in Nat /\ Base \in Nat
  BY HeaderSizeAssumption, BaseAssumption
<1>2. PICK v : /\ Spelled(v, s)
               /\ HeaderValue(s) = IF v[HeaderSize] >= Base ^ HeaderSize \div 2
                                   THEN v[HeaderSize] - Base ^ HeaderSize
                                   ELSE v[HeaderSize]
  BY <1>1, HeaderSpelled
<1> DEFINE S == {k \in Nat : k <= HeaderSize => v[k] >= 0 /\ v[k] < Base ^ k}
<1>3. 0 \in S
  BY <1>2, PowerAssumption DEF Spelled
<1>4. ASSUME NEW k \in Nat, k \in S  PROVE k + 1 \in S
  <2>1. SUFFICES ASSUME k + 1 <= HeaderSize  PROVE v[k + 1] >= 0 /\ v[k + 1] < Base ^ (k + 1)
    OBVIOUS
  <2>2. /\ k \in 0 .. HeaderSize - 1 /\ k \in 0 .. HeaderSize /\ k + 1 \in 1 .. HeaderSize
        /\ (k + 1) - 1 = k
    BY <1>1, <2>1
  <2>3. PICK p \in Nat : p = Base ^ k
    BY <2>2, PowerIsNat
  <2>4. PICK a \in Int : a = v[k]
    BY <1>2, <2>2 DEF Spelled
  <2>5. PICK c \in 0 .. Base - 1 : c = s[k + 1]
    BY <1>1, <2>2
  <2>6. a >= 0 /\ a < p
    BY <1>1, <1>4, <2>1, <2>3, <2>4
  <2>7. v[k + 1] = a * Base + c /\ Base ^ (k + 1) = p * Base
    BY <1>2, <2>2, <2>3, <2>4, <2>5, PowerAssumption DEF Spelled
  <2>8. a * Base >= 0 /\ (p - 1 - a) * Base >= 0
    BY <1>1, <2>6
  <2>9. (p - 1 - a) * Base = p * Base - Base - a * Base
    BY <1>1
  <2>10. PICK x \in Int : x = a * Base
    BY <1>1
  <2>11. PICK y \in Int : y = p * Base
    BY <1>1
  <2>12. x >= 0 /\ y - Base - x >= 0
    BY <2>8, <2>9, <2>10, <2>11
  <2>13. x + c >= 0 /\ x + c < y
    BY <1>1, <2>12
  <2>. QED  BY <2>7, <2>10, <2>11, <2>13
<1> HIDE DEF S
<1>5. Nat \subseteq S
  BY <1>3, <1>4, SetInduction
<1>6. PICK w \in Int : w = v[HeaderSize]
  BY <1>1, <1>2 DEF Spelled
<1>7. PICK m \in Nat : m = Base ^ HeaderSize
  BY <1>1, PowerIsNat
<1>8. w >= 0 /\ w < m
  BY <1>1, <1>5, <1>6, <1>7 DEF S
<1>9. HeaderValue(s) = IF w >= m \div 2 THEN w - m ELSE w
  BY <1>2, <1>6, <1>7
<1>10. HeaderValue(s) \in -m .. m
  BY <1>8, <1>9
<1>. QED  BY <1>7, <1>10

LEMMA SubSeqFacts ==
    ASSUME NEW s \in Seq(Int), NEW n \in 0 .. Len(s)
    PROVE  /\ Take(s, n) \in Seq(Int) /\ Len(Take(s, n)) = n
           /\ Drop(s, n) \in Seq(Int) /\ Len(Drop(s, n)) = Len(s) - n
BY DEF Take, Drop

\* One call of databuffer_readheader.
LEMMA HeaderStep ==
    ASSUME NEW f \in FrameType
    PROVE  /\ AfterHeader(f) \in FrameType
           /\ HeaderResult(f) \in Int
           /\ HeaderResult(f) >= 0 =>
                /\ AfterHeader(f).header = HeaderResult(f)
                /\ HeaderResult(f) <= Len(AfterHeader(f).bytes)
                /\ \/ f.header # 0 /\ AfterHeader(f) = f
                   \/ f.header = 0 /\ Len(AfterHeader(f).bytes) = Len(f.bytes) - HeaderSize
<1>1. f.header \in Int /\ f.bytes \in Seq(Int) /\ Len(f.bytes) \in Nat /\ HeaderSize \in Nat \ {0}
  BY HeaderSizeAssumption DEF FrameType
<1>2. CASE f.header = 0 /\ Len(f.bytes) >= HeaderSize
  <2>1. HeaderSize \in 0 .. Len(f.bytes)
    BY <1>1, <1>2
  <2>2. /\ HeaderValue(Take(f.bytes, HeaderSize)) \in Int
        /\ Drop(f.bytes, HeaderSize) \in Seq(Int)
        /\ Len(Drop(f.bytes, HeaderSize)) = Len(f.bytes) - HeaderSize
    BY <1>1, <2>1, SubSeqFacts, HeaderIsInt
  <2>3. AfterHeader(f) = [header |-> HeaderValue(Take(f.bytes, HeaderSize)),
                          bytes  |-> Drop(f.bytes, HeaderSize)]
    BY <1>2 DEF AfterHeader
  <2>. QED  BY <1>1, <1>2, <2>2, <2>3 DEF HeaderResult, FrameType
<1>3. CASE ~ (f.header = 0 /\ Len(f.bytes) >= HeaderSize)
  <2>1. AfterHeader(f) = f
    BY <1>3 DEF AfterHeader
  <2>. QED  BY <1>1, <1>3, <2>1 DEF HeaderResult
<1>. QED  BY <1>2, <1>3

-----------------------------------------------------------------------------
(* Frames in a stream.  The header at offset n of s, whether s holds the    *)
(* whole frame there, its body, and the offset after it.                    *)
HeaderAt(s, n) == HeaderValue(SubSeq(s, n + 1, n + HeaderSize))
Whole(s, n) ==
    /\ n + HeaderSize <= Len(s)
    /\ HeaderAt(s, n) >= 0 /\ n + HeaderSize + HeaderAt(s, n) <= Len(s)
NextAt(s, n) == n + HeaderSize + HeaderAt(s, n)
BodyAt(s, n) ==
    IF HeaderAt(s, n) = 0 THEN <<>>
    ELSE <<SubSeq(s, n + HeaderSize + 1, n + HeaderSize + HeaderAt(s, n))>>

(* The first n bytes of s are whole frames with the bodies bs: the least    *)
(* relation that holds at 0 and goes on from frame to frame.                *)
Followed(s, R) ==
    /\ <<0, <<>>>> \in R
    /\ \A n \in Nat, bs \in Seq(Seq(Int)) :
         <<n, bs>> \in R /\ Whole(s, n) => <<NextAt(s, n), bs \o BodyAt(s, n)>> \in R
Cut(s, n, bs) == \A R : Followed(s, R) => <<n, bs>> \in R

LEMMA FrameAt ==
    ASSUME NEW s \in Seq(Int), NEW n \in Nat, n + HeaderSize <= Len(s)
    PROVE  /\ HeaderAt(s, n) \in Int
           /\ HeaderSize \in Nat \ {0}
           /\ Whole(s, n) =>
                /\ NextAt(s, n) \in Nat /\ NextAt(s, n) > n /\ NextAt(s, n) <= Len(s)
                /\ NextAt(s, n) = n + HeaderSize + HeaderAt(s, n)
                /\ BodyAt(s, n) \in Seq(Seq(Int))
<1>1. HeaderSize \in Nat \ {0} /\ Len(s) \in Nat
  BY HeaderSizeAssumption
<1>2. SubSeq(s, n + 1, n + HeaderSize) \in Seq(Int) /\ Len(SubSeq(s, n + 1, n + HeaderSize)) = HeaderSize
  BY <1>1
<1>3. HeaderAt(s, n) \in Int
  BY <1>2, HeaderIsInt DEF HeaderAt
<1>4. ASSUME Whole(s, n)
      PROVE  SubSeq(s, n + HeaderSize + 1, n + HeaderSize + HeaderAt(s, n)) \in Seq(Int)
  <2>1. PICK h \in Int : h = HeaderAt(s, n)
    BY <1>3
  <2>2. h >= 0 /\ n + HeaderSize + h <= Len(s)
    BY <1>4, <2>1 DEF Whole
  <2>3. SubSeq(s, n + HeaderSize + 1, n + HeaderSize + h) \in Seq(Int)
    BY <1>1, <2>2
  <2>. QED  BY <2>1, <2>3
<1>5. Whole(s, n) => BodyAt(s, n) \in Seq(Seq(Int))
  BY <1>4 DEF BodyAt
<1>6. ASSUME Whole(s, n)
      PROVE  NextAt(s, n) \in Nat /\ NextAt(s, n) > n /\ NextAt(s, n) <= Len(s)
             /\ NextAt(s, n) = n + HeaderSize + HeaderAt(s, n)
  BY <1>1, <1>3, <1>6 DEF Whole, NextAt
<1>. QED  BY <1>1, <1>3, <1>5, <1>6

\* More bytes change nothing about a header or a whole frame.
LEMMA HeaderStays ==
    ASSUME NEW s \in Seq(Int), NEW c \in Seq(Int), NEW n \in Nat, n + HeaderSize <= Len(s)
    PROVE  /\ n + HeaderSize <= Len(s \o c) /\ HeaderAt(s \o c, n) = HeaderAt(s, n)
           /\ Whole(s, n) => /\ Whole(s \o c, n) /\ NextAt(s \o c, n) = NextAt(s, n)
                             /\ BodyAt(s \o c, n) = BodyAt(s, n)
<1>1. HeaderSize \in Nat \ {0} /\ Len(s) \in Nat /\ Len(c) \in Nat /\ Len(s \o c) = Len(s) + Len(c)
      /\ s \o c \in Seq(Int)
  BY HeaderSizeAssumption
<1>2. \A a, b \in Nat : b <= Len(s) => SubSeq(s \o c, a + 1, b) = SubSeq(s, a + 1, b)
  <2>1. SUFFICES ASSUME NEW a \in Nat, NEW b \in Nat, b <= Len(s)
                 PROVE  SubSeq(s \o c, a + 1, b) = SubSeq(s, a + 1, b)
    OBVIOUS
  <2>2. \A k \in 1 .. Len(s) : (s \o c)[k] = s[k]
    BY <1>1
  <2>. QED  BY <1>1, <2>1, <2>2
<1>3. HeaderAt(s \o c, n) = HeaderAt(s, n)
  <2>1. n + HeaderSize \in Nat
    BY <1>1
  <2>2. SubSeq(s \o c, n + 1, n + HeaderSize) = SubSeq(s, n + 1, n + HeaderSize)
    BY <1>2, <2>1
  <2>. QED  BY <2>2, Zenon DEF HeaderAt
<1>4. HeaderAt(s, n) \in Int
  BY FrameAt
<1>5. ASSUME Whole(s, n)
      PROVE  /\ Whole(s \o c, n) /\ NextAt(s \o c, n) = NextAt(s, n)
             /\ BodyAt(s \o c, n) = BodyAt(s, n)
  <2>1. PICK h \in Int : h = HeaderAt(s, n)
    BY <1>4
  <2>2. h >= 0 /\ n + HeaderSize + h <= Len(s)
    BY <1>5, <2>1 DEF Whole
  <2>3. SubSeq(s \o c, n + HeaderSize + 1, n + HeaderSize + h) = SubSeq(s, n + HeaderSize + 1, n + HeaderSize + h)
    BY <1>1, <1>2, <2>2
  <2>4. n + HeaderSize <= Len(s \o c) /\ n + HeaderSize + h <= Len(s \o c)
    BY <1>1, <2>2
  <2>. QED  BY <1>3, <2>1, <2>2, <2>3, <2>4 DEF Whole, NextAt, BodyAt
<1>6. n + HeaderSize <= Len(s \o c)
  BY <1>1
<1>. QED  BY <1>3, <1>5, <1>6

LEMMA CutStart == \A s : Cut(s, 0, <<>>)
BY DEF Cut, Followed

LEMMA CutStep ==
    ASSUME NEW s, NEW n \in Nat, NEW bs \in Seq(Seq(Int)), Cut(s, n, bs), Whole(s, n)
    PROVE  Cut(s, NextAt(s, n), bs \o BodyAt(s, n))
<1> SUFFICES ASSUME NEW R, Followed(s, R)
             PROVE  <<NextAt(s, n), bs \o BodyAt(s, n)>> \in R
  BY DEF Cut
<1>1. <<n, bs>> \in R
  BY DEF Cut
<1>. QED  BY <1>1 DEF Followed

LEMMA CutType ==
    ASSUME NEW s \in Seq(Int), NEW n, NEW bs, Cut(s, n, bs)
    PROVE  n \in 0 .. Len(s) /\ bs \in Seq(Seq(Int))
<1> DEFINE R == {p \in (0 .. Len(s)) \X Seq(Seq(Int)) : TRUE}
<1>a. Len(s) \in Nat
  OBVIOUS
<1>b. <<>> \in Seq(Seq(Int))
  BY EmptyInSeq
<1>1. Len(s) \in Nat /\ 0 \in 0 .. Len(s) /\ <<>> \in Seq(Seq(Int))
  BY <1>a, <1>b
<1>2. <<0, <<>>>> \in R
  BY ONLY <1>1
<1>3. ASSUME NEW m \in Nat, NEW cs \in Seq(Seq(Int)), <<m, cs>> \in R, Whole(s, m)
      PROVE  <<NextAt(s, m), cs \o BodyAt(s, m)>> \in R
  <2>1. m + HeaderSize <= Len(s)
    BY <1>3 DEF Whole
  <2>2. NextAt(s, m) \in 0 .. Len(s) /\ BodyAt(s, m) \in Seq(Seq(Int))
    BY <1>1, <1>3, <2>1, FrameAt
  <2>3. cs \o BodyAt(s, m) \in Seq(Seq(Int))
    BY <2>2
  <2>. QED  BY <2>2, <2>3
<1>4. Followed(s, R)
  <2> HIDE DEF R
  <2>. QED  BY <1>2, <1>3 DEF Followed
<1>5. <<n, bs>> \in R
  <2> HIDE DEF R
  <2>. QED  BY <1>4 DEF Cut
<1>. QED  BY <1>5

LEMMA CutStays ==
    ASSUME NEW s \in Seq(Int), NEW c \in Seq(Int), NEW n, NEW bs, Cut(s, n, bs)
    PROVE  Cut(s \o c, n, bs)
<1> SUFFICES ASSUME NEW R, Followed(s \o c, R)
             PROVE  <<n, bs>> \in R
  BY DEF Cut
<1>1. ASSUME NEW m \in Nat, NEW cs \in Seq(Seq(Int)), <<m, cs>> \in R, Whole(s, m)
      PROVE  <<NextAt(s, m), cs \o BodyAt(s, m)>> \in R
  <2>1. m + HeaderSize <= Len(s)
    BY <1>1 DEF Whole
  <2>2. /\ Whole(s \o c, m) /\ NextAt(s \o c, m) = NextAt(s, m)
        /\ BodyAt(s \o c, m) = BodyAt(s, m)
    BY <1>1, <2>1, HeaderStays
  <2>3. <<NextAt(s \o c, m), cs \o BodyAt(s \o c, m)>> \in R
    BY <1>1, <2>2 DEF Followed
  <2>. QED  BY <2>2, <2>3, Zenon
<1>2. Followed(s, R)
  BY <1>1 DEF Followed
<1>. QED  BY <1>2 DEF Cut

\* Sequences of bodies.
LEMMA BodiesJoin ==
    ASSUME NEW x \in Seq(Seq(Int)), NEW y \in Seq(Seq(Int)), NEW z \in Seq(Seq(Int))
    PROVE  x \o (y \o z) = (x \o y) \o z /\ x \o y \in Seq(Seq(Int))
BY SMTT(30)

\* Frames(s), from offset n on.
ParseFrom(s, at) ==
    LET parse[n \in Nat] ==
          LET size == HeaderValue(SubSeq(s, n + 1, n + HeaderSize))
              body == n + HeaderSize
          IN  IF body > Len(s) THEN <<>>
              ELSE IF size < 0 \/ body + size > Len(s) THEN <<>>
              ELSE (IF size = 0 THEN <<>> ELSE <<SubSeq(s, body + 1, body + size)>>)
                     \o parse[body + size]
    IN  parse[at]

LEMMA ParseUnfolds ==
    ASSUME NEW s \in Seq(Int), NEW n0 \in Nat
    PROVE  /\ ParseFrom(s, n0) \in Seq(Seq(Int))
           /\ ParseFrom(s, n0) = IF Whole(s, n0) THEN BodyAt(s, n0) \o ParseFrom(s, NextAt(s, n0))
                                 ELSE <<>>
<1> DEFINE Body(n, g) == IF Whole(s, n) THEN BodyAt(s, n) \o g[NextAt(s, n)] ELSE <<>>
           Raw(n, g) ==
             LET size == HeaderValue(SubSeq(s, n + 1, n + HeaderSize))
                 body == n + HeaderSize
             IN  IF body > Len(s) THEN <<>>
                 ELSE IF size < 0 \/ body + size > Len(s) THEN <<>>
                 ELSE (IF size = 0 THEN <<>> ELSE <<SubSeq(s, body + 1, body + size)>>)
                        \o g[body + size]
           Eqn(g) == g = [n \in Nat |-> Raw(n, g)]
           base == {n \in Nat : ~Whole(s, n)}
           B == [n \in Nat |-> <<>>]
           N == [n \in Nat |-> NextAt(s, n)]
           R == Seq(Seq(Int))
           E == [p \in Nat \X R |-> BodyAt(s, p[1]) \o p[2]]
           mu == [n \in Nat |-> IF n <= Len(s) THEN Len(s) - n ELSE 0]
<1>0. Len(s) \in Nat /\ HeaderSize \in Nat
  BY HeaderSizeAssumption
<1>1. ASSUME NEW n \in Nat, NEW g  PROVE Raw(n, g) = Body(n, g)
  <2>1. CASE n + HeaderSize > Len(s)
    BY <1>0, <2>1 DEF Whole
  <2>2. CASE ~(n + HeaderSize > Len(s))
    <3>1. n + HeaderSize <= Len(s)
      BY <1>0, <2>2
    <3>2. PICK h \in Int : h = HeaderAt(s, n)
      BY <3>1, FrameAt
    <3>3. Raw(n, g) = IF h < 0 \/ n + HeaderSize + h > Len(s) THEN <<>>
                      ELSE (IF h = 0 THEN <<>> ELSE <<SubSeq(s, n + HeaderSize + 1, n + HeaderSize + h)>>)
                             \o g[n + HeaderSize + h]
      BY <2>2, <3>2, Zenon DEF HeaderAt
    <3>4. Body(n, g) = IF h >= 0 /\ n + HeaderSize + h <= Len(s)
                       THEN (IF h = 0 THEN <<>> ELSE <<SubSeq(s, n + HeaderSize + 1, n + HeaderSize + h)>>)
                             \o g[n + HeaderSize + h]
                       ELSE <<>>
      BY <3>1, <3>2, Zenon DEF Whole, BodyAt, NextAt
    <3>5. (h < 0 \/ n + HeaderSize + h > Len(s)) <=> ~(h >= 0 /\ n + HeaderSize + h <= Len(s))
      BY <1>0
    <3> HIDE DEF Raw, Body
    <3>. QED  BY <3>3, <3>4, <3>5
  <2>. QED  BY <2>1, <2>2
<1>2. \A n \in Nat : mu[n] \in Nat
  BY <1>0
<1>3. \A n \in Nat : n \in base => B[n] \in R
  BY EmptyInSeq
<1>4. ASSUME NEW n \in Nat, n \notin base
      PROVE  N[n] \in Nat /\ mu[N[n]] < mu[n] /\ N[n] = NextAt(s, n) /\ BodyAt(s, n) \in R
  <2>1. Whole(s, n) /\ n + HeaderSize <= Len(s)
    BY <1>4 DEF Whole
  <2>2. /\ NextAt(s, n) \in Nat /\ NextAt(s, n) > n /\ NextAt(s, n) <= Len(s)
        /\ BodyAt(s, n) \in R
    BY <2>1, FrameAt
  <2>. QED  BY <1>0, <2>2
<1>5. ASSUME NEW n \in Nat, NEW r \in R, n \notin base
      PROVE  E[<<n, r>>] \in R /\ E[<<n, r>>] = BodyAt(s, n) \o r
  <2>1. BodyAt(s, n) \in R
    BY <1>4, <1>5
  <2>2. BodyAt(s, n) \o r \in R
    BY <2>1
  <2>. QED  BY <2>2
<1>6. PICK h \in [Nat -> R] : Solves(h, Nat, base, B, N, E)
  <2> HIDE DEF base, B, N, E, mu, R
  <2>. QED  BY <1>2, <1>3, <1>4, <1>5, RecursionExists
<1>7. ASSUME NEW n \in Nat  PROVE h[n] = Raw(n, h)
  <2>1. h[n] = Body(n, h)
    <3>1. CASE n \in base
      BY <1>6, <3>1 DEF Solves
    <3>2. CASE n \notin base
      <4>1. h[n] = E[<<n, h[N[n]]>>] /\ h[N[n]] \in R
        BY <1>4, <1>6, <3>2 DEF Solves
      <4>2. h[n] = BodyAt(s, n) \o h[NextAt(s, n)]
        <5> HIDE DEF E, N, R
        <5>. QED  BY <1>4, <1>5, <3>2, <4>1
      <4>. QED  BY <3>2, <4>2
    <3>. QED  BY <3>1, <3>2
  <2> HIDE DEF Body, Raw
  <2>. QED  BY <1>1, <2>1
<1>8. Eqn(h)
  <2> HIDE DEF Raw
  <2>. QED  BY <1>6, <1>7
<1> DEFINE go == CHOOSE g : Eqn(g)
<1>9. Eqn(go)
  <2> HIDE DEF Eqn
  <2>. QED  BY <1>8, Zenon
<1>10. \A n : ParseFrom(s, n) = go[n]
  BY DEF ParseFrom
<1> HIDE DEF go
<1>11. \A n \in Nat : go[n] = Body(n, go)
  <2> HIDE DEF Body
  <2>1. \A n \in Nat : go[n] = Raw(n, go)
    <3> HIDE DEF Raw
    <3>. QED  BY <1>9
  <2> HIDE DEF Raw
  <2>. QED  BY <1>1, <2>1
<1>12. go[n0] \in R
  <2> DEFINE T == {n \in Nat : go[n] \in R}
  <2>1. ASSUME NEW n \in Nat, \A y \in Nat : mu[y] < mu[n] => y \in T
        PROVE  n \in T
    <3>1. CASE n \in base
      <4>1. go[n] = <<>>
        BY <1>11, <3>1
      <4>. QED  BY <4>1, EmptyInSeq
    <3>2. CASE n \notin base
      <4>1. N[n] \in Nat /\ N[n] \in T /\ N[n] = NextAt(s, n) /\ BodyAt(s, n) \in R
        <5> HIDE DEF N, mu, R
        <5>. QED  BY <1>4, <2>1, <3>2
      <4>2. go[n] = BodyAt(s, n) \o go[NextAt(s, n)]
        BY <1>11, <3>2
      <4>3. go[NextAt(s, n)] \in R
        BY <4>1
      <4>4. BodyAt(s, n) \o go[NextAt(s, n)] \in R
        BY <4>1, <4>3
      <4>. QED  BY <4>2, <4>4
    <3>. QED  BY <3>1, <3>2
  <2> HIDE DEF T, mu
  <2>2. PICK D : D = Nat
    OBVIOUS
  <2>3. /\ \A n \in D : mu[n] \in Nat
        /\ \A n \in D : (\A y \in D : mu[y] < mu[n] => y \in T) => n \in T
    BY <1>2, <2>1, <2>2
  <2>4. D \subseteq T
    BY ONLY <2>3, MeasureInduction
  <2>. QED  BY <2>2, <2>4 DEF T
<1>. QED  BY <1>10, <1>11, <1>12

\* What the reference parse finds begins with the frames that were cut off.
LEMMA CutFrames ==
    ASSUME NEW s \in Seq(Int), NEW n, NEW bs, Cut(s, n, bs)
    PROVE  Frames(s) = bs \o ParseFrom(s, n)
<1> DEFINE R == {p \in Nat \X Seq(Seq(Int)) : Frames(s) = p[2] \o ParseFrom(s, p[1])}
<1>1. Frames(s) = ParseFrom(s, 0)
  BY DEF Frames, ParseFrom
<1>2. <<0, <<>>>> \in R
  <2>1. ParseFrom(s, 0) \in Seq(Seq(Int)) /\ <<>> \in Seq(Seq(Int))
    BY ParseUnfolds, EmptyInSeq
  <2>2. PICK q \in Seq(Seq(Int)) : q = ParseFrom(s, 0)
    BY <2>1
  <2>3. <<>> \o q = q
    OBVIOUS
  <2>. QED  BY <1>1, <2>1, <2>2, <2>3
<1>3. ASSUME NEW m \in Nat, NEW cs \in Seq(Seq(Int)), <<m, cs>> \in R, Whole(s, m)
      PROVE  <<NextAt(s, m), cs \o BodyAt(s, m)>> \in R
  <2>1. m + HeaderSize <= Len(s)
    BY <1>3 DEF Whole
  <2>2. NextAt(s, m) \in Nat /\ BodyAt(s, m) \in Seq(Seq(Int))
    BY <1>3, <2>1, FrameAt
  <2>3. PICK b \in Seq(Seq(Int)) : b = BodyAt(s, m)
    BY <2>2
  <2>4. PICK q \in Seq(Seq(Int)) : q = ParseFrom(s, NextAt(s, m))
    BY <2>2, ParseUnfolds
  <2>5. ParseFrom(s, m) = b \o q
    BY <1>3, <2>3, <2>4, ParseUnfolds
  <2>6. Frames(s) = cs \o (b \o q)
    BY <1>3, <2>5
  <2>7. cs \o (b \o q) = (cs \o b) \o q /\ cs \o b \in Seq(Seq(Int))
    BY SMTT(30)
  <2>8. Frames(s) = (cs \o b) \o q
    BY ONLY <2>6, <2>7, Zenon
  <2>. QED  BY <2>2, <2>3, <2>4, <2>7, <2>8
<1>4. Followed(s, R)
  <2> HIDE DEF R
  <2>. QED  BY <1>2, <1>3 DEF Followed
<1>5. <<n, bs>> \in R
  <2> HIDE DEF R
  <2>. QED  BY <1>4 DEF Cut
<1>. QED  BY <1>5

-----------------------------------------------------------------------------
(* The rest of a stream, and the buffer that holds it.                      *)

LEMMA SameSeq ==
    ASSUME NEW p \in Seq(Int), NEW q \in Seq(Int), Len(p) = Len(q),
           \A k \in 1 .. Len(p) : p[k] = q[k]
    PROVE  p = q
OBVIOUS

LEMMA DropIs ==
    ASSUME NEW s \in Seq(Int), NEW n \in 0 .. Len(s)
    PROVE  /\ Drop(s, n) \in Seq(Int) /\ Len(Drop(s, n)) = Len(s) - n
           /\ \A k \in 1 .. Len(s) - n : Drop(s, n)[k] = s[n + k]
BY DEF Drop

LEMMA RestFacts ==
    ASSUME NEW s \in Seq(Int), NEW n \in Nat, NEW m \in Nat, n + m <= Len(s)
    PROVE  /\ Drop(Drop(s, n), m) = Drop(s, n + m)
           /\ Take(Drop(s, n), m) = SubSeq(s, n + 1, n + m)
<1>1. Len(s) \in Nat /\ n \in 0 .. Len(s) /\ n + m \in 0 .. Len(s)
  OBVIOUS
<1>2. PICK d \in Seq(Int) : d = Drop(s, n)
  BY <1>1, DropIs
<1>3. /\ d \in Seq(Int) /\ Len(d) = Len(s) - n
      /\ \A k \in 1 .. Len(s) - n : d[k] = s[n + k]
  BY <1>1, <1>2, DropIs
<1>4. m \in 0 .. Len(d)
  BY <1>1, <1>3
<1>5. Drop(d, m) = Drop(s, n + m)
  <2>1. PICK p : p = Drop(d, m)
    OBVIOUS
  <2>2. PICK q : q = Drop(s, n + m)
    OBVIOUS
  <2>3. /\ p \in Seq(Int) /\ Len(p) = Len(d) - m
        /\ \A k \in 1 .. Len(d) - m : p[k] = d[m + k]
    BY <1>4, <2>1, DropIs
  <2>4. /\ q \in Seq(Int) /\ Len(q) = Len(s) - (n + m)
        /\ \A k \in 1 .. Len(s) - (n + m) : q[k] = s[(n + m) + k]
    BY <1>1, <2>2, DropIs
  <2>5. Len(p) = Len(q)
    BY <1>1, <1>3, <2>3, <2>4
  <2>6. ASSUME NEW k \in 1 .. Len(p)  PROVE p[k] = q[k]
    <3>1. /\ k \in 1 .. Len(d) - m /\ m + k \in 1 .. Len(s) - n
          /\ n + (m + k) = (n + m) + k /\ k \in 1 .. Len(s) - (n + m)
      <4>1. PICK z \in Nat : z = Len(s)
        BY <1>1
      <4>2. Len(d) = z - n /\ Len(p) = z - n - m /\ n + m <= z
        BY ONLY <1>1, <1>3, <2>3, <4>1, n \in Nat, m \in Nat
      <4>3. k \in 1 .. z - n - m
        BY <4>2
      <4>. QED  BY ONLY <4>1, <4>2, <4>3, n \in Nat, m \in Nat
    <3>. QED  BY ONLY <1>3, <2>3, <2>4, <3>1
  <2>7. p = q
    BY <2>3, <2>4, <2>5, <2>6, SameSeq
  <2>. QED  BY <2>1, <2>2, <2>7
<1>6. Take(d, m) = SubSeq(s, n + 1, n + m)
  <2>1. PICK p : p = Take(d, m)
    OBVIOUS
  <2>2. PICK q : q = SubSeq(s, n + 1, n + m)
    OBVIOUS
  <2>3. p \in Seq(Int) /\ Len(p) = m /\ \A k \in 1 .. m : p[k] = d[k]
    BY <1>3, <1>4, <2>1 DEF Take
  <2>4. q \in Seq(Int) /\ Len(q) = m /\ \A k \in 1 .. m : q[k] = s[n + k]
    <3>1. /\ SubSeq(s, n + 1, n + m) \in Seq(Int) /\ Len(SubSeq(s, n + 1, n + m)) = m
          /\ \A k \in 1 .. m : SubSeq(s, n + 1, n + m)[k] = s[n + k]
      <4>1. n + 1 \in Int /\ n + m \in Int /\ (n + m) - (n + 1) + 1 = m
        BY <1>1
      <4>2. SubSeq(s, n + 1, n + m) \in Seq(Int) /\ Len(SubSeq(s, n + 1, n + m)) = m
        BY <1>1, <4>1
      <4>3. ASSUME NEW k \in 1 .. m
            PROVE  SubSeq(s, n + 1, n + m)[k] = s[n + k]
        <5>1. SubSeq(s, n + 1, n + m)[k] = s[k + (n + 1) - 1] /\ k + (n + 1) - 1 = n + k
          BY <1>1, <4>1
        <5>. QED  BY <5>1, Zenon
      <4>. QED  BY <4>2, <4>3
    <3>. QED  BY <2>2, <3>1, Zenon
  <2>5. \A k \in 1 .. m : k \in 1 .. Len(s) - n
    BY <1>1
  <2>6. \A k \in 1 .. Len(p) : p[k] = q[k]
    BY <1>3, <2>3, <2>4, <2>5
  <2>7. p = q
    BY <2>3, <2>4, <2>6, SameSeq
  <2>. QED  BY <2>1, <2>2, <2>7
<1>. QED  BY <1>2, <1>5, <1>6

LEMMA RestGrows ==
    ASSUME NEW s \in Seq(Int), NEW c \in Seq(Int), NEW n \in 0 .. Len(s)
    PROVE  Drop(s \o c, n) = Drop(s, n) \o c
<1>1. /\ Len(s) \in Nat /\ Len(c) \in Nat /\ n \in Nat /\ n <= Len(s)
  OBVIOUS
<1>t. s \o c \in Seq(Int)
  OBVIOUS
<1>2. PICK t \in Seq(Int) : t = s \o c
  BY <1>t, Zenon
<1>3. /\ t \in Seq(Int) /\ Len(t) = Len(s) + Len(c)
      /\ \A k \in 1 .. Len(s) : t[k] = s[k]
      /\ \A k \in 1 .. Len(c) : t[Len(s) + k] = c[k]
  BY <1>1, <1>2
<1>4. PICK p : p = Drop(t, n)
  OBVIOUS
<1>5. /\ p \in Seq(Int) /\ Len(p) = Len(t) - n
      /\ \A k \in 1 .. Len(t) - n : p[k] = t[n + k]
  <2>1. n \in 0 .. Len(t)
    BY <1>1, <1>3
  <2>. QED  BY <1>4, <2>1, DropIs
<1>6. PICK d \in Seq(Int) : d = Drop(s, n)
  BY <1>1, DropIs
<1>7. /\ d \in Seq(Int) /\ Len(d) = Len(s) - n
      /\ \A k \in 1 .. Len(s) - n : d[k] = s[n + k]
  BY <1>1, <1>6, DropIs
<1>8. PICK q : q = d \o c
  OBVIOUS
<1>9. /\ q \in Seq(Int) /\ Len(q) = Len(d) + Len(c)
      /\ \A k \in 1 .. Len(d) : q[k] = d[k]
      /\ \A k \in 1 .. Len(c) : q[Len(d) + k] = c[k]
  <2>1. /\ d \o c \in Seq(Int) /\ Len(d \o c) = Len(d) + Len(c)
        /\ \A k \in 1 .. Len(d) : (d \o c)[k] = d[k]
        /\ \A k \in 1 .. Len(c) : (d \o c)[Len(d) + k] = c[k]
    OBVIOUS
  <2>. QED  BY <1>8, <2>1, Zenon
<1>10. Len(p) = Len(q)
  BY <1>1, <1>3, <1>5, <1>7, <1>9
<1>11. ASSUME NEW k \in 1 .. Len(p)  PROVE p[k] = q[k]
  <2>1. CASE k <= Len(d)
    <3>1. k \in 1 .. Len(t) - n /\ k \in 1 .. Len(d) /\ k \in 1 .. Len(s) - n
          /\ n + k \in 1 .. Len(s)
      BY <1>1, <1>3, <1>5, <1>7, <2>1
    <3>. QED  BY ONLY <1>3, <1>5, <1>7, <1>9, <3>1
  <2>2. CASE k > Len(d)
    <3>1. /\ k \in 1 .. Len(t) - n /\ k - Len(d) \in 1 .. Len(c)
          /\ Len(d) + (k - Len(d)) = k /\ Len(s) + (k - Len(d)) = n + k
      BY <1>1, <1>3, <1>5, <1>7, <2>2
    <3>2. PICK j \in 1 .. Len(c) : j = k - Len(d)
      BY <3>1
    <3>3. p[k] = t[Len(s) + j] /\ q[k] = q[Len(d) + j]
      BY <1>5, <3>1, <3>2, Zenon
    <3>4. t[Len(s) + j] = c[j] /\ q[Len(d) + j] = c[j]
      BY <1>3, <1>9, Zenon
    <3>. QED  BY <3>3, <3>4, Zenon
  <2>. QED  BY <1>7, <2>1, <2>2
<1>12. p = q
  BY <1>5, <1>9, <1>10, <1>11, SameSeq
<1>. QED  BY <1>2, <1>4, <1>6, <1>8, <1>12

(* Buffer f holds what stream s has from offset n on; the header there may  *)
(* have been read off already.                                              *)
Matches(f, s, n) ==
    /\ f \in FrameType /\ n \in 0 .. Len(s)
    /\ f.header = 0 => f.bytes = Drop(s, n)
    /\ f.header # 0 => /\ n + HeaderSize <= Len(s) /\ f.header = HeaderAt(s, n)
                       /\ f.bytes = Drop(s, n + HeaderSize)

\* What arrives goes to the end of both.
LEMMA MatchGrows ==
    ASSUME NEW s \in Seq(Int), NEW c \in Seq(Int), NEW n, NEW f, Matches(f, s, n)
    PROVE  Matches([f EXCEPT !.bytes = @ \o c], s \o c, n)
<1>1. /\ f \in FrameType /\ f.header \in Int /\ f.bytes \in Seq(Int) /\ n \in 0 .. Len(s)
      /\ n \in Nat /\ Len(s) \in Nat /\ Len(s \o c) = Len(s) + Len(c) /\ Len(c) \in Nat
      /\ HeaderSize \in Nat \ {0}
  BY HeaderSizeAssumption DEF Matches, FrameType
<1>2. PICK g : g = [f EXCEPT !.bytes = @ \o c]
  OBVIOUS
<1>3. g \in FrameType /\ g.header = f.header /\ g.bytes = f.bytes \o c
  <2>1. f.bytes \o c \in Seq(Int)
    BY <1>1
  <2>. QED  BY <1>1, <1>2, <2>1 DEF FrameType
<1>4. n \in 0 .. Len(s \o c)
  BY <1>1
<1>5. CASE f.header = 0
  <2>1. g.bytes = Drop(s \o c, n)
    BY <1>1, <1>3, <1>5, RestGrows, ZenonT(40) DEF Matches
  <2>. QED  BY <1>2, <1>3, <1>4, <1>5, <2>1 DEF Matches
<1>6. CASE f.header # 0
  <2>1. n + HeaderSize <= Len(s) /\ f.header = HeaderAt(s, n) /\ f.bytes = Drop(s, n + HeaderSize)
    BY <1>6 DEF Matches
  <2>2. n + HeaderSize <= Len(s \o c) /\ HeaderAt(s \o c, n) = HeaderAt(s, n)
    BY <1>1, <2>1, HeaderStays
  <2>3. n + HeaderSize \in 0 .. Len(s)
    BY <1>1, <2>1
  <2>4. Drop(s \o c, n + HeaderSize) = f.bytes \o c
    BY <2>1, <2>3, RestGrows
  <2>. QED  BY <1>2, <1>3, <1>4, <1>6, <2>1, <2>2, <2>4 DEF Matches
<1>. QED  BY <1>5, <1>6

\* What databuffer_readheader makes of such a buffer.
LEMMA HeaderMatch ==
    ASSUME NEW s \in Seq(Int), NEW n, NEW f, Matches(f, s, n)
    PROVE  /\ HeaderResult(f) \in Int
           /\ HeaderResult(f) < 0 => ~Whole(s, n) /\ Matches(AfterHeader(f), s, n)
           /\ HeaderResult(f) >= 0 =>
                /\ Whole(s, n) /\ HeaderResult(f) = HeaderAt(s, n)
                /\ AfterHeader(f).header = HeaderResult(f)
                /\ AfterHeader(f).bytes = Drop(s, n + HeaderSize)
<1>1. /\ f \in FrameType /\ f.header \in Int /\ f.bytes \in Seq(Int) /\ n \in 0 .. Len(s)
      /\ n \in Nat /\ Len(s) \in Nat /\ HeaderSize \in Nat \ {0}
  BY HeaderSizeAssumption DEF Matches, FrameType
<1>2. HeaderResult(f) \in Int
  BY <1>1, HeaderStep
<1>3. PICK a \in FrameType : a = AfterHeader(f)
  BY <1>1, HeaderStep
<1>4. CASE f.header = 0 /\ Len(f.bytes) < HeaderSize
  <2>1. HeaderResult(f) = -1 /\ AfterHeader(f) = f
    BY <1>1, <1>4 DEF HeaderResult, AfterHeader
  <2>2. Len(f.bytes) = Len(s) - n
    BY <1>1, <1>4, SubSeqFacts DEF Matches
  <2>3. ~Whole(s, n)
    BY <1>1, <1>4, <2>2 DEF Whole
  <2>. QED  BY <2>1, <2>3
\* The header is there, in the buffer or in its field.
<1>5. CASE ~(f.header = 0 /\ Len(f.bytes) < HeaderSize)
  <2>1. /\ n + HeaderSize <= Len(s) /\ a.header = HeaderAt(s, n)
        /\ a.bytes = Drop(s, n + HeaderSize)
    <3>1. CASE f.header = 0
      <4>1. f.bytes = Drop(s, n) /\ Len(f.bytes) = Len(s) - n /\ Len(f.bytes) \in Nat
        BY <1>1, <3>1, SubSeqFacts DEF Matches
      <4>2. Len(f.bytes) >= HeaderSize
        BY <1>1, <1>5, <3>1, <4>1
      <4>3. n + HeaderSize <= Len(s)
        BY ONLY <1>1, <4>1, <4>2
      <4>4. Take(f.bytes, HeaderSize) = SubSeq(s, n + 1, n + HeaderSize)
            /\ Drop(f.bytes, HeaderSize) = Drop(s, n + HeaderSize)
        <5>1. HeaderSize \in Nat
          BY <1>1
        <5>2. Take(Drop(s, n), HeaderSize) = SubSeq(s, n + 1, n + HeaderSize)
              /\ Drop(Drop(s, n), HeaderSize) = Drop(s, n + HeaderSize)
          BY <1>1, <4>3, <5>1, RestFacts
        <5>. QED  BY <4>1, <5>2, Zenon
      <4>5. a = [header |-> HeaderValue(Take(f.bytes, HeaderSize)), bytes |-> Drop(f.bytes, HeaderSize)]
        BY <1>3, <3>1, <4>2 DEF AfterHeader
      <4>. QED  BY <4>3, <4>4, <4>5 DEF HeaderAt
    <3>2. CASE f.header # 0
      BY <1>3, <3>2 DEF AfterHeader, Matches
    <3>. QED  BY <3>1, <3>2
  <2>2. HeaderResult(f) = IF Len(a.bytes) < a.header THEN -1 ELSE a.header
    BY <1>3, <1>5 DEF HeaderResult
  <2>3. n + HeaderSize \in 0 .. Len(s)
    BY <1>1, <2>1
  <2>4. Len(a.bytes) = Len(s) - (n + HeaderSize)
    BY <2>1, <2>3, SubSeqFacts
  <2>5. a.header \in Int
    BY DEF FrameType
  <2>6. CASE Len(a.bytes) < a.header \/ a.header < 0
    <3>1. ~Whole(s, n)
      BY <1>1, <2>1, <2>4, <2>5, <2>6 DEF Whole
    <3>2. a.header # 0
      BY <1>1, <2>1, <2>4, <2>5, <2>6
    <3>3. Matches(a, s, n)
      BY <1>1, <2>1, <3>2 DEF Matches
    <3>4. HeaderResult(f) < 0
      BY <2>2, <2>5, <2>6
    <3>. QED  BY <1>2, <1>3, <3>1, <3>3, <3>4
  <2>7. CASE ~(Len(a.bytes) < a.header \/ a.header < 0)
    <3>1. HeaderResult(f) = a.header /\ a.header >= 0
      BY <2>2, <2>5, <2>7
    <3>2. Whole(s, n)
      BY <1>1, <2>1, <2>4, <2>5, <2>7 DEF Whole
    <3>. QED  BY <1>2, <1>3, <2>1, <3>1, <3>2
  <2>. QED  BY <2>6, <2>7
<1>. QED  BY <1>4, <1>5
=============================================================================
