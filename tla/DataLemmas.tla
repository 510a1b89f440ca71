---------------------------- MODULE DataLemmas ----------------------------
(***************************************************************************)
(* Induction and recursion on a natural measure, stated with sets and      *)
(* functions in place of operators, so that every prover can use them.     *)
(* The proofs about loops and chains rest on them: what a recursive        *)
(* function of a model computes is found by showing that its equation has  *)
(* a solution, and then by induction on the solution.  Then the facts on   *)
(* queues that the proofs share: the members of a queue, queues that hold  *)
(* nothing twice, and a change at one place; sums over finite sets;        *)
(* sequences of sequences, joined; parts of a sequence; and tables that    *)
(* are counted.                                                            *)
(***************************************************************************)
EXTENDS Integers, SequencesExt, FiniteSetTheorems, WellFoundedInduction, TLAPS

\* A non-empty set of naturals has a least element.
LEMMA LeastNatural ==
    ASSUME NEW S \in SUBSET Nat, S # {}
    PROVE  \E i \in S : \A j \in S : i <= j
<1> DEFINE Less == {p \in Nat \X Nat : p[1] < p[2]}
<1>1. IsWellFoundedOn(Less, Nat)
  BY NatLessThanWellFounded, Zenon DEF OpToRel
<1> HIDE DEF Less
<1>2. PICK x \in S : \A y \in S : ~ (<<y, x>> \in Less)
  BY <1>1, WFMin, Zenon
<1>3. ASSUME NEW y \in S, y < x  PROVE FALSE
  <2>1. <<y, x>> \in Less
    BY <1>3 DEF Less
  <2>. QED  BY <1>2, <2>1
<1>4. \A y \in S : x <= y
  BY <1>3
<1>. QED  BY <1>4

\* A set of naturals with 0 and every successor holds them all.
LEMMA SetInduction ==
    ASSUME NEW S, 0 \in S, \A n \in Nat : n \in S => n + 1 \in S
    PROVE  Nat \subseteq S
<1> DEFINE Out == {n \in Nat : n \notin S}
<1>1. SUFFICES ASSUME Out # {}  PROVE FALSE
  OBVIOUS
<1>2. PICK i \in Out : \A j \in Out : i <= j
  BY <1>1, LeastNatural
<1>3. i # 0 /\ i - 1 \in Nat /\ i - 1 \in S
  BY <1>2
<1>. QED  BY <1>2, <1>3

\* What holds for x when it holds for all of smaller measure holds for all.
LEMMA MeasureInduction ==
    ASSUME NEW D, NEW T, NEW mu, \A x \in D : mu[x] \in Nat,
           \A x \in D : (\A y \in D : mu[y] < mu[x] => y \in T) => x \in T
    PROVE  D \subseteq T
<1> DEFINE S == {n \in Nat : \A x \in D : mu[x] < n => x \in T}
<1>1. 0 \in S
  OBVIOUS
<1>2. ASSUME NEW n \in Nat, n \in S  PROVE n + 1 \in S
  <2>1. ASSUME NEW x \in D, mu[x] < n + 1  PROVE x \in T
    <3>1. \A y \in D : mu[y] < mu[x] => y \in T
      BY <1>2, <2>1
    <3>. QED  BY <3>1
  <2>. QED  BY <2>1
<1>3. Nat \subseteq S
  <2> HIDE DEF S
  <2>. QED  BY <1>1, <1>2, SetInduction
<1>4. ASSUME NEW x \in D  PROVE x \in T
  <2>1. mu[x] + 1 \in S
    BY <1>3
  <2>. QED  BY <2>1
<1>. QED  BY <1>4

(* A recursive equation: x in base has the value B[x], any other x a value  *)
(* made by E from the value of N[x].  Solves says that g is a solution on X.*)
Solves(g, X, base, B, N, E) ==
    \A x \in X : g[x] = IF x \in base THEN B[x] ELSE E[<<x, g[N[x]]>>]

\* When the measure falls from x to N[x], the equation has a solution.
LEMMA RecursionExists ==
    ASSUME NEW D, NEW R, NEW base, NEW B, NEW N, NEW E, NEW mu,
           \A x \in D : mu[x] \in Nat,
           \A x \in D : x \in base => B[x] \in R,
           \A x \in D : x \notin base => N[x] \in D /\ mu[N[x]] < mu[x],
           \A x \in D, r \in R : x \notin base => E[<<x, r>>] \in R
    PROVE  \E g \in [D -> R] : Solves(g, D, base, B, N, E)
<1> DEFINE Below(n) == {x \in D : mu[x] < n}
           Partial(n, g) == g \in [Below(n) -> R] /\ Solves(g, Below(n), base, B, N, E)
\* Two solutions agree where both are defined.
<1>1. ASSUME NEW m \in Nat, NEW n \in Nat, NEW g, NEW h, Partial(m, g), Partial(n, h)
      PROVE  \A x \in D : mu[x] < m /\ mu[x] < n => g[x] = h[x]
  <2> DEFINE T == {x \in D : mu[x] < m /\ mu[x] < n => g[x] = h[x]}
  <2>1. ASSUME NEW x \in D, \A y \in D : mu[y] < mu[x] => y \in T
        PROVE  x \in T
    <3>1. SUFFICES ASSUME mu[x] < m, mu[x] < n  PROVE g[x] = h[x]
      OBVIOUS
    <3>2. x \in Below(m) /\ x \in Below(n)
      BY <3>1
    <3>3. CASE x \in base
      BY <1>1, <3>2, <3>3 DEF Solves
    <3>4. CASE x \notin base
      <4>1. N[x] \in D /\ mu[N[x]] < mu[x] /\ mu[N[x]] \in Nat /\ mu[x] \in Nat
        BY <3>4
      <4>2. g[N[x]] = h[N[x]]
        BY <2>1, <3>1, <4>1
      <4>. QED  BY <1>1, <3>2, <3>4, <4>2 DEF Solves
    <3>. QED  BY <3>3, <3>4
  <2> HIDE DEF T
  <2>2. D \subseteq T
    BY <2>1, MeasureInduction
  <2>. QED  BY <2>2 DEF T
\* There is one below every bound.
<1> DEFINE S == {n \in Nat : \E g : Partial(n, g)}
<1>2. 0 \in S
  <2>1. Below(0) = {}
    OBVIOUS
  <2>2. Partial(0, [x \in {} |-> x])
    BY <2>1 DEF Solves
  <2>. QED  BY <2>2
<1>3. ASSUME NEW n \in Nat, n \in S  PROVE n + 1 \in S
  <2>1. PICK g : Partial(n, g)
    BY <1>3
  <2> DEFINE V(x) == IF x \in Below(n) THEN g[x]
                     ELSE IF x \in base THEN B[x] ELSE E[<<x, g[N[x]]>>]
             h == [x \in Below(n + 1) |-> V(x)]
  <2>2. ASSUME NEW x \in Below(n + 1)
        PROVE  /\ V(x) \in R
               /\ V(x) = IF x \in base THEN B[x] ELSE E[<<x, g[N[x]]>>]
               /\ x \notin base => N[x] \in Below(n) /\ N[x] \in Below(n + 1)
    <3>1. x \in D /\ mu[x] \in Nat /\ mu[x] < n + 1
      OBVIOUS
    <3>2. x \notin base => N[x] \in Below(n) /\ N[x] \in Below(n + 1) /\ g[N[x]] \in R
      <4>1. SUFFICES ASSUME x \notin base
                     PROVE  N[x] \in Below(n) /\ N[x] \in Below(n + 1) /\ g[N[x]] \in R
        OBVIOUS
      <4>2. N[x] \in D /\ mu[N[x]] < mu[x] /\ mu[N[x]] \in Nat
        BY <3>1, <4>1
      <4>3. N[x] \in Below(n) /\ N[x] \in Below(n + 1)
        BY <3>1, <4>2
      <4>. QED  BY <2>1, <4>3
    <3>3. V(x) = IF x \in base THEN B[x] ELSE E[<<x, g[N[x]]>>]
      BY <2>1 DEF Solves
    <3>4. V(x) \in R
      BY <3>1, <3>2, <3>3
    <3>. QED  BY <3>2, <3>3, <3>4
  <2>3. h \in [Below(n + 1) -> R]
    BY <2>2
  <2>4. ASSUME NEW x \in Below(n + 1)
        PROVE  h[x] = IF x \in base THEN B[x] ELSE E[<<x, h[N[x]]>>]
    <3>1. x \notin base => h[N[x]] = g[N[x]]
      BY <2>2
    <3>2. h[x] = V(x)
      OBVIOUS
    <3>. QED  BY <2>2, <3>1, <3>2
  <2>5. Partial(n + 1, h)
    BY <2>3, <2>4 DEF Solves
  <2> HIDE DEF h, Partial
  <2>6. \E k : Partial(n + 1, k)
    BY <2>5, Zenon
  <2>. QED  BY <2>6
<1>4. Nat \subseteq S
  <2> HIDE DEF S
  <2>. QED  BY <1>2, <1>3, SetInduction
\* Put together, they solve the equation on D.
<1> DEFINE Sol(n) == CHOOSE g : Partial(n, g)
           f == [x \in D |-> Sol(mu[x] + 1)[x]]
<1>5. \A n \in Nat : Partial(n, Sol(n))
  <2>1. SUFFICES ASSUME NEW n \in Nat  PROVE Partial(n, Sol(n))
    OBVIOUS
  <2>2. \E g : Partial(n, g)
    BY <1>4
  <2> HIDE DEF Partial
  <2>. QED  BY <2>2
<1> HIDE DEF Sol
<1>6. ASSUME NEW x \in D
      PROVE  /\ f[x] \in R
             /\ f[x] = IF x \in base THEN B[x] ELSE E[<<x, f[N[x]]>>]
  <2>1. mu[x] \in Nat /\ mu[x] + 1 \in Nat /\ x \in Below(mu[x] + 1)
    OBVIOUS
  <2>2. Partial(mu[x] + 1, Sol(mu[x] + 1))
    BY <1>5, <2>1
  <2>3. f[x] = Sol(mu[x] + 1)[x] /\ f[x] \in R
    BY <2>1, <2>2
  <2>4. CASE x \in base
    BY <2>1, <2>2, <2>3, <2>4 DEF Solves
  <2>5. CASE x \notin base
    <3>1. N[x] \in D /\ mu[N[x]] < mu[x] /\ mu[N[x]] \in Nat /\ mu[N[x]] + 1 \in Nat
      BY <2>5
    <3>2. Partial(mu[N[x]] + 1, Sol(mu[N[x]] + 1))
      BY <1>5, <3>1
    <3>3. mu[N[x]] < mu[x] + 1 /\ mu[N[x]] < mu[N[x]] + 1
      BY <2>1, <3>1
    <3> HIDE DEF Partial
    <3>4. Sol(mu[x] + 1)[N[x]] = Sol(mu[N[x]] + 1)[N[x]]
      BY <1>1, <2>1, <2>2, <3>1, <3>2, <3>3
    <3>5. f[N[x]] = Sol(mu[x] + 1)[N[x]]
      BY <3>1, <3>4
    <3>6. Sol(mu[x] + 1)[x] = E[<<x, Sol(mu[x] + 1)[N[x]]>>]
      BY <2>1, <2>2, <2>5 DEF Solves, Partial
    <3>. QED  BY <2>3, <2>5, <3>5, <3>6
  <2>. QED  BY <2>3, <2>4, <2>5
<1>7. f \in [D -> R]
  BY <1>6
<1>8. Solves(f, D, base, B, N, E)
  BY <1>6 DEF Solves
<1>. QED  BY <1>7, <1>8

\* The same with two values to go by, those of N[x] and M[x].
SolvesPair(g, X, base, B, N, M, E) ==
    \A x \in X : g[x] = IF x \in base THEN B[x] ELSE E[<<x, g[N[x]], g[M[x]]>>]

\* The solutions below a bound are the values of a recursion on the bound.
LEMMA PairRecursionExists ==
    ASSUME NEW D, NEW R, NEW base, NEW B, NEW N, NEW M, NEW E, NEW mu,
           \A x \in D : mu[x] \in Nat,
           \A x \in D : x \in base => B[x] \in R,
           \A x \in D : x \notin base => /\ N[x] \in D /\ mu[N[x]] < mu[x]
                                         /\ M[x] \in D /\ mu[M[x]] < mu[x],
           \A x \in D, r \in R, q \in R : x \notin base => E[<<x, r, q>>] \in R
    PROVE  \E g \in [D -> R] : SolvesPair(g, D, base, B, N, M, E)
<1>1. SUFFICES ASSUME D # {}  PROVE \E g \in [D -> R] : SolvesPair(g, D, base, B, N, M, E)
  <2>1. CASE D = {}
    <3>1. [x \in {} |-> x] \in [D -> R] /\ SolvesPair([x \in {} |-> x], D, base, B, N, M, E)
      BY <2>1 DEF SolvesPair
    <3>. QED  BY <3>1
  <2>. QED  BY <2>1
<1>2. PICK any \in R : TRUE
  <2>1. PICK x \in D : \A y \in D : ~ (mu[y] < mu[x])
    <3> DEFINE S == {mu[y] : y \in D}
    <3>1. S \in SUBSET Nat /\ S # {}
      BY <1>1
    <3>2. PICK i \in S : \A j \in S : i <= j
      BY <3>1, LeastNatural
    <3>3. PICK x \in D : i = mu[x]
      OBVIOUS
    <3>4. \A y \in D : mu[x] <= mu[y] /\ mu[x] \in Nat /\ mu[y] \in Nat
      BY <3>2, <3>3
    <3>5. \A y \in D : ~ (mu[y] < mu[x])
      BY ONLY <3>4
    <3>. QED  BY <3>5
  <2>2. x \in base
    BY <2>1
  <2>. QED  BY <2>1, <2>2
<1> DEFINE F == [D -> R]
           V(h, x) == IF x \in base THEN B[x] ELSE E[<<x, h[N[x]], h[M[x]]>>]
           up == [p \in Nat \X F |-> [x \in D |-> V(p[2], x)]]
           first == [n \in Nat |-> [x \in D |-> any]]
           pred == [n \in Nat |-> n - 1]
           id == [n \in Nat |-> n]
<1>3. ASSUME NEW n \in Nat, NEW h \in F  PROVE up[<<n, h>>] = [x \in D |-> V(h, x)]
  OBVIOUS
<1>4. PICK G \in [Nat -> F] : Solves(G, Nat, {0}, first, pred, up)
  <2>1. \A n \in Nat : id[n] \in Nat
    OBVIOUS
  <2>2. \A n \in Nat : n \in {0} => first[n] \in F
    OBVIOUS
  <2>3. \A n \in Nat : n \notin {0} => pred[n] \in Nat /\ id[pred[n]] < id[n]
    OBVIOUS
  <2>4. \A n \in Nat, h \in F : n \notin {0} => up[<<n, h>>] \in F
    <3> SUFFICES ASSUME NEW n \in Nat, NEW h \in F  PROVE up[<<n, h>>] \in F
      OBVIOUS
    <3>1. up[<<n, h>>] = [x \in D |-> V(h, x)]
      BY <1>3
    <3>2. \A x \in D : V(h, x) \in R
      OBVIOUS
    <3>. QED  BY <3>1, <3>2
  <2> HIDE DEF F, up, first, pred, id
  <2>. QED  BY <2>1, <2>2, <2>3, <2>4, RecursionExists
<1>5. ASSUME NEW n \in Nat, NEW x \in D  PROVE G[n + 1][x] = V(G[n], x)
  <2>1. G[n + 1] = up[<<n + 1, G[n]>>]
    <3>1. n + 1 \in Nat /\ n + 1 \notin {0} /\ pred[n + 1] = n
      OBVIOUS
    <3>. QED  BY <1>4, <3>1, Zenon DEF Solves
  <2>2. G[n] \in F
    BY <1>4
  <2>3. PICK h \in F : h = G[n]
    BY <2>2
  <2>4. up[<<n + 1, h>>] = [y \in D |-> V(h, y)]
    <3>1. n + 1 \in Nat
      OBVIOUS
    <3> HIDE DEF V, up, F
    <3>. QED  BY <1>3, <3>1
  <2> HIDE DEF V, up
  <2>. QED  BY <2>1, <2>3, <2>4
<1> HIDE DEF V
\* Above its measure, the value of x no longer changes.
<1> DEFINE T == {x \in D : \A n \in Nat : n > mu[x] => G[n][x] = G[mu[x] + 1][x]}
<1>6. ASSUME NEW x \in D, \A y \in D : mu[y] < mu[x] => y \in T  PROVE x \in T
  <2>1. SUFFICES ASSUME NEW n \in Nat, n > mu[x]  PROVE G[n][x] = G[mu[x] + 1][x]
    OBVIOUS
  <2>2. mu[x] \in Nat /\ n - 1 \in Nat
    BY <2>1
  <2>3. G[n][x] = V(G[n - 1], x) /\ G[mu[x] + 1][x] = V(G[mu[x]], x)
    <3>1. G[(n - 1) + 1][x] = V(G[n - 1], x)
      BY <1>5, <2>2
    <3>2. (n - 1) + 1 = n
      OBVIOUS
    <3>. QED  BY <1>5, <2>2, <3>1, <3>2
  <2>4. CASE x \in base
    BY <2>3, <2>4 DEF V
  <2>5. CASE x \notin base
    <3>1. ASSUME NEW y \in D, mu[y] < mu[x]  PROVE G[n - 1][y] = G[mu[x]][y]
      <4>1. y \in T /\ mu[y] \in Nat /\ n - 1 > mu[y]
        BY <1>6, <2>1, <2>2, <3>1
      <4>. QED  BY <2>2, <3>1, <4>1
    <3>2. N[x] \in D /\ mu[N[x]] < mu[x] /\ M[x] \in D /\ mu[M[x]] < mu[x]
      BY <2>5
    <3>. QED  BY <2>3, <3>1, <3>2 DEF V
  <2>. QED  BY <2>4, <2>5
<1>7. \A x \in D : x \in T
  <2> HIDE DEF T
  <2>1. \A x \in D : (\A y \in D : mu[y] < mu[x] => y \in T) => x \in T
    BY <1>6
  <2>2. D \subseteq T
    BY ONLY <2>1, \A x \in D : mu[x] \in Nat, MeasureInduction
  <2>. QED  BY <2>2
<1> DEFINE g == [x \in D |-> G[mu[x] + 1][x]]
<1>8. g \in [D -> R]
  <2>1. \A x \in D : mu[x] + 1 \in Nat
    OBVIOUS
  <2>. QED  BY <1>4, <2>1
<1>9. ASSUME NEW x \in D  PROVE g[x] = V(g, x)
  <2>1. mu[x] \in Nat /\ g[x] = V(G[mu[x]], x)
    BY <1>5
  <2>2. CASE x \in base
    BY <2>1, <2>2 DEF V
  <2>3. CASE x \notin base
    <3>1. ASSUME NEW y \in D, mu[y] < mu[x]  PROVE G[mu[x]][y] = g[y]
      BY <1>7, <2>1, <3>1
    <3>2. N[x] \in D /\ mu[N[x]] < mu[x] /\ M[x] \in D /\ mu[M[x]] < mu[x]
      BY <2>3
    <3> HIDE DEF g
    <3>. QED  BY <2>1, <3>1, <3>2 DEF V
  <2>. QED  BY <2>2, <2>3
<1> HIDE DEF g
<1>. QED  BY <1>8, <1>9 DEF SolvesPair, V

-----------------------------------------------------------------------------
(* Queues.                                                                  *)

LEMMA EmptyInSeq == \A S : <<>> \in Seq(S)
OBVIOUS

LEMMA AppendInSeq ==
    ASSUME NEW S, NEW q \in Seq(S), NEW e \in S
    PROVE  Append(q, e) \in Seq(S)
OBVIOUS

LEMMA ConcatInSeq ==
    ASSUME NEW S, NEW p \in Seq(S), NEW q \in Seq(S)
    PROVE  p \o q \in Seq(S)
OBVIOUS

LEMMA RangeAppend ==
    ASSUME NEW S, NEW q \in Seq(S), NEW e \in S
    PROVE  Range(Append(q, e)) = Range(q) \cup {e}
<1>1. /\ Len(Append(q, e)) = Len(q) + 1 /\ Len(q) \in Nat
      /\ DOMAIN Append(q, e) = 1 .. Len(q) + 1 /\ DOMAIN q = 1 .. Len(q)
      /\ \A k \in 1 .. Len(q) : Append(q, e)[k] = q[k]
      /\ Append(q, e)[Len(q) + 1] = e
  OBVIOUS
<1>2. ASSUME NEW x \in Range(Append(q, e))  PROVE x \in Range(q) \cup {e}
  <2>1. PICK k \in 1 .. Len(q) + 1 : x = Append(q, e)[k]
    BY <1>1 DEF Range
  <2>2. k \in 1 .. Len(q) \/ k = Len(q) + 1
    BY <1>1
  <2>. QED  BY <1>1, <2>1, <2>2 DEF Range
<1>3. ASSUME NEW x \in Range(q) \cup {e}  PROVE x \in Range(Append(q, e))
  <2>1. CASE x = e
    BY <1>1, <2>1 DEF Range
  <2>2. CASE x \in Range(q)
    <3>1. PICK k \in 1 .. Len(q) : x = q[k]
      BY <1>1, <2>2 DEF Range
    <3>. QED  BY <1>1, <3>1 DEF Range
  <2>. QED  BY <2>1, <2>2
<1>. QED  BY <1>2, <1>3

LEMMA RangeTail ==
    ASSUME NEW S, NEW q \in Seq(S), q # <<>>
    PROVE  Range(q) = Range(Tail(q)) \cup {Head(q)}
<1>1. /\ Head(q) = q[1] /\ Len(q) \in Nat /\ Len(q) >= 1
      /\ DOMAIN q = 1 .. Len(q) /\ DOMAIN Tail(q) = 1 .. Len(q) - 1
      /\ \A k \in 1 .. Len(q) - 1 : Tail(q)[k] = q[k + 1]
  OBVIOUS
<1>2. ASSUME NEW x \in Range(q)  PROVE x \in Range(Tail(q)) \cup {Head(q)}
  <2>1. PICK k \in 1 .. Len(q) : x = q[k]
    BY <1>1 DEF Range
  <2>2. CASE k = 1
    BY <1>1, <2>1, <2>2
  <2>3. CASE k # 1
    <3>1. k - 1 \in 1 .. Len(q) - 1 /\ Tail(q)[k - 1] = q[k]
      BY <1>1, <2>3
    <3>. QED  BY <1>1, <2>1, <3>1 DEF Range
  <2>. QED  BY <2>2, <2>3
<1>3. ASSUME NEW x \in Range(Tail(q)) \cup {Head(q)}  PROVE x \in Range(q)
  <2>1. CASE x = Head(q)
    BY <1>1, <2>1 DEF Range
  <2>2. CASE x \in Range(Tail(q))
    <3>1. PICK k \in 1 .. Len(q) - 1 : x = Tail(q)[k]
      BY <1>1, <2>2 DEF Range
    <3>2. k + 1 \in 1 .. Len(q) /\ x = q[k + 1]
      BY <1>1, <3>1
    <3>. QED  BY <1>1, <3>2 DEF Range
  <2>. QED  BY <2>1, <2>2
<1>. QED  BY <1>2, <1>3

LEMMA RangeType ==
    ASSUME NEW S, NEW q \in Seq(S)
    PROVE  Range(q) \subseteq S
BY DEF Range

LEMMA RangeConcat ==
    ASSUME NEW S, NEW p \in Seq(S), NEW q \in Seq(S)
    PROVE  Range(p \o q) = Range(p) \cup Range(q)
<1>1. /\ Len(p) \in Nat /\ Len(q) \in Nat
      /\ DOMAIN p = 1 .. Len(p) /\ DOMAIN q = 1 .. Len(q)
      /\ DOMAIN (p \o q) = 1 .. Len(p) + Len(q)
      /\ \A k \in 1 .. Len(p) : (p \o q)[k] = p[k]
      /\ \A k \in 1 .. Len(q) : (p \o q)[Len(p) + k] = q[k]
  OBVIOUS
<1>2. ASSUME NEW x \in Range(p \o q)  PROVE x \in Range(p) \cup Range(q)
  <2>1. PICK k \in 1 .. Len(p) + Len(q) : x = (p \o q)[k]
    BY <1>1 DEF Range
  <2>2. CASE k <= Len(p)
    <3>1. k \in 1 .. Len(p) /\ x = p[k]
      BY <1>1, <2>1, <2>2
    <3>. QED  BY <1>1, <3>1 DEF Range
  <2>3. CASE k > Len(p)
    <3>1. k - Len(p) \in 1 .. Len(q) /\ Len(p) + (k - Len(p)) = k
      BY <1>1, <2>3
    <3>2. x = q[k - Len(p)]
      BY <1>1, <2>1, <3>1
    <3>. QED  BY <1>1, <3>1, <3>2 DEF Range
  <2>. QED  BY <1>1, <2>2, <2>3
<1>3. ASSUME NEW x \in Range(p)  PROVE x \in Range(p \o q)
  <2>1. PICK k \in 1 .. Len(p) : x = p[k]
    BY <1>1 DEF Range
  <2>2. k \in 1 .. Len(p) + Len(q) /\ x = (p \o q)[k]
    BY <1>1, <2>1
  <2>. QED  BY <1>1, <2>2 DEF Range
<1>4. ASSUME NEW x \in Range(q)  PROVE x \in Range(p \o q)
  <2>1. PICK k \in 1 .. Len(q) : x = q[k]
    BY <1>1 DEF Range
  <2>2. Len(p) + k \in 1 .. Len(p) + Len(q) /\ x = (p \o q)[Len(p) + k]
    BY <1>1, <2>1
  <2>. QED  BY <1>1, <2>2 DEF Range
<1>. QED  BY <1>2, <1>3, <1>4

LEMMA RangeEmpty == Range(<<>>) = {}
BY DEF Range

\* Nothing is in the queue twice.
Distinct(q) == \A j, k \in 1 .. Len(q) : q[j] = q[k] => j = k

LEMMA DistinctAppend ==
    ASSUME NEW S, NEW q \in Seq(S), NEW e \in S, Distinct(q), e \notin Range(q)
    PROVE  Distinct(Append(q, e))
<1>1. /\ Len(Append(q, e)) = Len(q) + 1 /\ Len(q) \in Nat /\ DOMAIN q = 1 .. Len(q)
      /\ \A k \in 1 .. Len(q) : Append(q, e)[k] = q[k]
      /\ Append(q, e)[Len(q) + 1] = e
  OBVIOUS
<1>2. \A k \in 1 .. Len(q) : q[k] # e
  BY <1>1 DEF Range
<1>3. \A k \in 1 .. Len(q) + 1 : k \in 1 .. Len(q) \/ k = Len(q) + 1
  BY <1>1
<1>. QED  BY <1>1, <1>2, <1>3 DEF Distinct

LEMMA DistinctTail ==
    ASSUME NEW S, NEW q \in Seq(S), q # <<>>, Distinct(q)
    PROVE  Distinct(Tail(q)) /\ Head(q) \notin Range(Tail(q))
<1>1. /\ Head(q) = q[1] /\ Len(q) \in Nat /\ Len(q) >= 1 /\ Len(Tail(q)) = Len(q) - 1
      /\ DOMAIN Tail(q) = 1 .. Len(q) - 1
      /\ \A k \in 1 .. Len(q) - 1 : Tail(q)[k] = q[k + 1]
  OBVIOUS
<1>2. \A k \in 1 .. Len(q) - 1 : k + 1 \in 1 .. Len(q) /\ k + 1 # 1
  BY <1>1
<1>3. 1 \in 1 .. Len(q)
  BY <1>1
<1>4. Head(q) \notin Range(Tail(q))
  BY <1>1, <1>2, <1>3 DEF Range, Distinct
<1>5. ASSUME NEW j \in 1 .. Len(q) - 1, NEW k \in 1 .. Len(q) - 1, Tail(q)[j] = Tail(q)[k]
      PROVE  j = k
  <2>1. j + 1 = k + 1
    BY <1>1, <1>2, <1>5 DEF Distinct
  <2>. QED  BY <2>1
<1>. QED  BY <1>1, <1>4, <1>5 DEF Distinct

\* A queue cut in two.
LEMMA QueueSplit ==
    ASSUME NEW S, NEW q \in Seq(S), NEW n \in 0 .. Len(q)
    PROVE  /\ SubSeq(q, 1, n) \in Seq(S) /\ SubSeq(q, n + 1, Len(q)) \in Seq(S)
           /\ Range(SubSeq(q, 1, n)) \cup Range(SubSeq(q, n + 1, Len(q))) = Range(q)
           /\ Distinct(q) => Distinct(SubSeq(q, 1, n)) /\ Distinct(SubSeq(q, n + 1, Len(q)))
<1>1. Len(q) \in Nat /\ n \in Nat /\ n <= Len(q) /\ DOMAIN q = 1 .. Len(q)
  OBVIOUS
<1>2. PICK p : p = SubSeq(q, 1, n)
  OBVIOUS
<1>3. PICK r : r = SubSeq(q, n + 1, Len(q))
  OBVIOUS
<1>4. /\ p \in Seq(S) /\ Len(p) = n /\ DOMAIN p = 1 .. n
      /\ \A k \in 1 .. n : p[k] = q[k]
  BY <1>1, <1>2
<1>5. /\ r \in Seq(S) /\ Len(r) = Len(q) - n /\ DOMAIN r = 1 .. Len(q) - n
      /\ \A k \in 1 .. Len(q) - n : r[k] = q[n + k]
  BY <1>1, <1>3
<1>6. \A k \in 1 .. Len(q) - n : n + k \in 1 .. Len(q)
  BY <1>1
<1>7. \A k \in 1 .. n : k \in 1 .. Len(q)
  BY <1>1
<1>8. ASSUME NEW x \in Range(q)  PROVE x \in Range(p) \cup Range(r)
  <2>1. PICK k \in 1 .. Len(q) : x = q[k]
    BY <1>1 DEF Range
  <2>2. CASE k <= n
    <3>1. k \in 1 .. n
      BY <1>1, <2>2
    <3>. QED  BY <1>4, <2>1, <3>1 DEF Range
  <2>3. CASE k > n
    <3>1. k - n \in 1 .. Len(q) - n /\ n + (k - n) = k
      BY <1>1, <2>3
    <3>2. r[k - n] = x
      BY <1>5, <2>1, <3>1
    <3>. QED  BY <1>5, <3>1, <3>2 DEF Range
  <2>. QED  BY <1>1, <2>2, <2>3
<1>9. Range(p) \subseteq Range(q) /\ Range(r) \subseteq Range(q)
  BY <1>1, <1>4, <1>5, <1>6, <1>7 DEF Range
<1>10. ASSUME Distinct(q)  PROVE Distinct(p) /\ Distinct(r)
  <2>1. Distinct(p)
    BY <1>4, <1>7, <1>10 DEF Distinct
  <2>2. ASSUME NEW j \in 1 .. Len(q) - n, NEW k \in 1 .. Len(q) - n, r[j] = r[k]
        PROVE  j = k
    <3>1. n + j = n + k
      BY <1>5, <1>6, <1>10, <2>2 DEF Distinct
    <3>. QED  BY <1>1, <3>1
  <2>. QED  BY <1>5, <2>1, <2>2 DEF Distinct
<1>. QED  BY <1>2, <1>3, <1>4, <1>5, <1>8, <1>9, <1>10

\* Sequences that are joined, and that gain or lose a member at one place.
LEMMA ConcatValues ==
    ASSUME NEW X, NEW p \in Seq(X), NEW q \in Seq(X)
    PROVE  /\ p \o q \in Seq(X) /\ Len(p \o q) = Len(p) + Len(q)
           /\ \A j \in 1 .. Len(p) : (p \o q)[j] = p[j]
           /\ \A j \in 1 .. Len(q) : (p \o q)[Len(p) + j] = q[j]
OBVIOUS

\* t is s with e after its first i members.
Gains(t, s, i, e) ==
    \A j \in 1 .. Len(t) : t[j] = IF j <= i THEN s[j] ELSE IF j = i + 1 THEN e ELSE s[j - 1]

LEMMA InsertAtValues ==
    ASSUME NEW X, NEW s \in Seq(X), NEW i \in 0 .. Len(s), NEW e \in X,
           NEW t, t = InsertAt(s, i + 1, e)
    PROVE  t \in Seq(X) /\ Len(t) = Len(s) + 1 /\ Gains(t, s, i, e)
<1>1. Len(s) \in Nat /\ i \in Nat /\ i <= Len(s) /\ (i + 1) - 1 = i
  OBVIOUS
<1>2. PICK p : p = SubSeq(s, 1, i)
  OBVIOUS
<1>3. PICK r : r = SubSeq(s, i + 1, Len(s))
  OBVIOUS
<1>4. p \in Seq(X) /\ Len(p) = i /\ \A j \in 1 .. i : p[j] = s[j]
  BY <1>1, <1>2
<1>5. r \in Seq(X) /\ Len(r) = Len(s) - i /\ \A j \in 1 .. Len(s) - i : r[j] = s[i + j]
  BY <1>1, <1>3
<1>6. t = p \o <<e>> \o r
  BY <1>1, <1>2, <1>3 DEF InsertAt
<1>7. PICK u : u = p \o <<e>>
  OBVIOUS
<1>8. /\ u \in Seq(X) /\ Len(u) = i + 1 /\ u[i + 1] = e
      /\ \A j \in 1 .. i : u[j] = p[j]
  BY <1>1, <1>4, <1>7
<1>9. t = u \o r
  BY <1>6, <1>7
<1>10. /\ t \in Seq(X) /\ Len(t) = Len(s) + 1
       /\ \A j \in 1 .. i + 1 : t[j] = u[j]
       /\ \A j \in i + 2 .. Len(s) + 1 : t[j] = r[j - (i + 1)]
  <2>1. /\ t \in Seq(X) /\ Len(t) = Len(u) + Len(r)
        /\ \A j \in 1 .. Len(u) : t[j] = u[j]
        /\ \A j \in 1 .. Len(r) : t[Len(u) + j] = r[j]
    <3>1. u \in Seq(X) /\ r \in Seq(X)
      BY <1>5, <1>8
    <3>2. /\ u \o r \in Seq(X) /\ Len(u \o r) = Len(u) + Len(r)
          /\ \A j \in 1 .. Len(u) : (u \o r)[j] = u[j]
          /\ \A j \in 1 .. Len(r) : (u \o r)[Len(u) + j] = r[j]
      BY ONLY <3>1, ConcatValues
    <3>. QED  BY ONLY <1>9, <3>2, Zenon
  <2>2. Len(t) = Len(s) + 1 /\ \A j \in 1 .. i + 1 : t[j] = u[j]
    BY <1>1, <1>5, <1>8, <2>1
  <2>3. ASSUME NEW j \in i + 2 .. Len(s) + 1  PROVE t[j] = r[j - (i + 1)]
    <3>0. Len(u) = i + 1 /\ Len(r) = Len(s) - i
      BY <1>5, <1>8
    <3>1. j - (i + 1) \in 1 .. Len(r) /\ Len(u) + (j - (i + 1)) = j
      BY ONLY <1>1, <3>0, j \in i + 2 .. Len(s) + 1
    <3>2. t[Len(u) + (j - (i + 1))] = r[j - (i + 1)]
      BY <2>1, <3>1
    <3>. QED  BY <3>1, <3>2
  <2>. QED  BY <2>1, <2>2, <2>3
<1>11. ASSUME NEW j \in 1 .. Len(s) + 1
       PROVE  t[j] = IF j <= i THEN s[j] ELSE IF j = i + 1 THEN e ELSE s[j - 1]
  <2>1. CASE j <= i
    <3>1. j \in 1 .. i /\ j \in 1 .. i + 1
      BY <1>1, <2>1
    <3>. QED  BY <1>4, <1>8, <1>10, <2>1, <3>1
  <2>2. CASE j = i + 1
    <3>1. j \in 1 .. i + 1 /\ ~(j <= i)
      BY <1>1, <2>2
    <3>. QED  BY <1>8, <1>10, <2>2, <3>1
  <2>3. CASE j > i + 1
    <3>1. /\ j \in i + 2 .. Len(s) + 1 /\ j - (i + 1) \in 1 .. Len(s) - i
          /\ i + (j - (i + 1)) = j - 1 /\ ~(j <= i) /\ j # i + 1
      BY <1>1, <2>3
    <3>2. t[j] = r[j - (i + 1)] /\ r[j - (i + 1)] = s[i + (j - (i + 1))]
      BY <1>5, <1>10, <3>1
    <3>. QED  BY <3>1, <3>2
  <2>. QED  BY <1>1, <2>1, <2>2, <2>3
<1>. QED  BY <1>10, <1>11 DEF Gains

LEMMA RemoveAtValues ==
    ASSUME NEW X, NEW s \in Seq(X), NEW k \in 1 .. Len(s), NEW t, t = RemoveAt(s, k)
    PROVE  /\ t \in Seq(X) /\ Len(t) = Len(s) - 1
           /\ \A j \in 1 .. Len(t) : t[j] = IF j < k THEN s[j] ELSE s[j + 1]
<1>1. Len(s) \in Nat /\ k \in Nat /\ 1 <= k /\ k <= Len(s)
  OBVIOUS
<1>2. PICK p : p = SubSeq(s, 1, k - 1)
  OBVIOUS
<1>3. PICK r : r = SubSeq(s, k + 1, Len(s))
  OBVIOUS
<1>4. p \in Seq(X) /\ Len(p) = k - 1 /\ \A j \in 1 .. k - 1 : p[j] = s[j]
  BY <1>1, <1>2
<1>5. r \in Seq(X) /\ Len(r) = Len(s) - k /\ \A j \in 1 .. Len(s) - k : r[j] = s[k + j]
  BY <1>1, <1>3
<1>6. t = p \o r
  BY <1>2, <1>3 DEF RemoveAt
<1>7. /\ t \in Seq(X) /\ Len(t) = Len(s) - 1
      /\ \A j \in 1 .. k - 1 : t[j] = p[j]
      /\ \A j \in k .. Len(s) - 1 : t[j] = r[j - (k - 1)]
  BY <1>1, <1>4, <1>5, <1>6, SMTT(30)
<1>8. ASSUME NEW j \in 1 .. Len(s) - 1  PROVE t[j] = IF j < k THEN s[j] ELSE s[j + 1]
  <2>1. CASE j < k
    <3>1. j \in 1 .. k - 1
      BY <1>1, <2>1
    <3>. QED  BY <1>4, <1>7, <2>1, <3>1
  <2>2. CASE ~(j < k)
    <3>1. j \in k .. Len(s) - 1 /\ j - (k - 1) \in 1 .. Len(s) - k /\ k + (j - (k - 1)) = j + 1
      BY <1>1, <2>2
    <3>2. t[j] = r[j - (k - 1)] /\ r[j - (k - 1)] = s[k + (j - (k - 1))]
      BY <1>5, <1>7, <3>1
    <3>. QED  BY <2>2, <3>1, <3>2
  <2>. QED  BY <2>1, <2>2
<1>. QED  BY <1>7, <1>8

-----------------------------------------------------------------------------
(* Sums over finite sets.                                                   *)

\* One element of s, the one that the folds of the library take first.
AnyOf(s) == CHOOSE x \in s : TRUE

\* g[s] is the sum of f over s, for the parts s of S.
SumsUp(g, f, S) ==
    g = [s \in SUBSET S |-> IF s = {} THEN 0 ELSE f[AnyOf(s)] + g[s \ {AnyOf(s)}]]

\* MapThenSumSet for a function.
Total(f, S) == (CHOOSE g : SumsUp(g, f, S))[S]

LEMMA SumsExist ==
    ASSUME NEW S, IsFiniteSet(S), NEW f, \A x \in S : f[x] \in Int
    PROVE  \E g \in [SUBSET S -> Int] : SumsUp(g, f, S)
<1> DEFINE D == SUBSET S
           B == [s \in D |-> 0]
           N == [s \in D |-> s \ {AnyOf(s)}]
           E == [p \in D \X Int |-> f[AnyOf(p[1])] + p[2]]
           mu == [s \in D |-> Cardinality(s)]
<1>1. \A s \in D : s # {} => AnyOf(s) \in s /\ AnyOf(s) \in S /\ s \ {AnyOf(s)} \in D
  BY DEF AnyOf
<1>2. \A s \in D : IsFiniteSet(s) /\ mu[s] \in Nat
  BY FS_Subset, FS_CardinalityType
<1>3. \A s \in D : s \in {{}} => B[s] \in Int
  OBVIOUS
<1>4. \A s \in D : s \notin {{}} => N[s] \in D /\ mu[N[s]] < mu[s]
  <2>1. SUFFICES ASSUME NEW s \in D, s # {}  PROVE N[s] \in D /\ mu[N[s]] < mu[s]
    OBVIOUS
  <2>2. Cardinality(s \ {AnyOf(s)}) = Cardinality(s) - 1 /\ Cardinality(s) \in Nat
    BY <1>1, <1>2, <2>1, FS_RemoveElement, FS_CardinalityType
  <2>. QED  BY <1>1, <2>1, <2>2
<1>5. \A s \in D, r \in Int : E[<<s, r>>] = f[AnyOf(s)] + r
  OBVIOUS
<1>6. \A s \in D, r \in Int : s \notin {{}} => E[<<s, r>>] \in Int
  <2>1. SUFFICES ASSUME NEW s \in D, NEW r \in Int, s # {}  PROVE E[<<s, r>>] \in Int
    OBVIOUS
  <2>2. f[AnyOf(s)] \in Int
    BY <1>1, <2>1
  <2>3. E[<<s, r>>] = f[AnyOf(s)] + r
    BY <1>5
  <2>. QED  BY <2>2, <2>3
<1> HIDE DEF B, N, E, mu
<1>7. PICK g \in [D -> Int] : Solves(g, D, {{}}, B, N, E)
  BY <1>2, <1>3, <1>4, <1>6, RecursionExists
<1>8. \A s \in D : g[s] = IF s = {} THEN 0 ELSE f[AnyOf(s)] + g[s \ {AnyOf(s)}]
  <2>1. SUFFICES ASSUME NEW s \in D
                 PROVE  g[s] = IF s = {} THEN 0 ELSE f[AnyOf(s)] + g[s \ {AnyOf(s)}]
    OBVIOUS
  <2>2. CASE s = {}
    BY <1>7, <2>2 DEF Solves, B
  <2>3. CASE s # {}
    <3>1. g[s] = E[<<s, g[N[s]]>>]
      BY <1>7, <2>3 DEF Solves
    <3>2. N[s] = s \ {AnyOf(s)} /\ g[N[s]] \in Int
      BY <1>1, <1>7, <2>3 DEF N
    <3>. QED  BY <1>5, <2>3, <3>1, <3>2
  <2>. QED  BY <2>2, <2>3
<1>. QED  BY <1>7, <1>8 DEF SumsUp

\* Two ways to sum agree.
LEMMA SumsAgree ==
    ASSUME NEW S, NEW T, IsFiniteSet(S), T \subseteq S, NEW f, NEW g, NEW h,
           SumsUp(g, f, S), SumsUp(h, f, T)
    PROVE  \A s \in SUBSET T : g[s] = h[s]
<1> DEFINE D == SUBSET T
           U == {s \in D : g[s] = h[s]}
           mu == [s \in D |-> Cardinality(s)]
<1>1. \A s \in D : s # {} => AnyOf(s) \in s /\ s \ {AnyOf(s)} \in D
  BY DEF AnyOf
<1>2. \A s \in D : IsFiniteSet(s) /\ mu[s] \in Nat
  BY FS_Subset, FS_CardinalityType
<1>3. ASSUME NEW s \in D, \A t \in D : mu[t] < mu[s] => t \in U  PROVE s \in U
  <2>1. /\ g[s] = IF s = {} THEN 0 ELSE f[AnyOf(s)] + g[s \ {AnyOf(s)}]
        /\ h[s] = IF s = {} THEN 0 ELSE f[AnyOf(s)] + h[s \ {AnyOf(s)}]
    <3>1. s \in SUBSET S
      OBVIOUS
    <3>. QED  BY <3>1 DEF SumsUp
  <2>2. CASE s = {}
    BY <2>1, <2>2
  <2>3. CASE s # {}
    <3>1. mu[s \ {AnyOf(s)}] < mu[s]
      <4>1. Cardinality(s \ {AnyOf(s)}) = Cardinality(s) - 1 /\ Cardinality(s) \in Nat
        BY <1>1, <1>2, <2>3, FS_RemoveElement, FS_CardinalityType
      <4>. QED  BY <1>1, <2>3, <4>1
    <3>2. s \ {AnyOf(s)} \in U
      BY <1>1, <1>3, <2>3, <3>1
    <3>. QED  BY <2>1, <2>3, <3>2
  <2>. QED  BY <2>2, <2>3
<1> HIDE DEF D, U, mu
<1>4. D \subseteq U
  BY <1>2, <1>3, MeasureInduction
<1>. QED  BY <1>4 DEF D, U

LEMMA TotalUnfolds ==
    ASSUME NEW S, IsFiniteSet(S), NEW f, \A x \in S : f[x] \in Int
    PROVE  /\ Total(f, S) \in Int
           /\ S = {} => Total(f, S) = 0
           /\ S # {} => /\ AnyOf(S) \in S
                        /\ Total(f, S) = f[AnyOf(S)] + Total(f, S \ {AnyOf(S)})
<1>1. PICK k \in [SUBSET S -> Int] : SumsUp(k, f, S)
  BY SumsExist
<1>2. PICK g : g = CHOOSE h : SumsUp(h, f, S)
  OBVIOUS
<1>3. SumsUp(g, f, S) /\ Total(f, S) = g[S]
  BY <1>1, <1>2 DEF Total
<1>4. \A s \in SUBSET S : g[s] = k[s]
  BY <1>1, <1>3, SumsAgree
<1>5. g[S] \in Int /\ g[S] = IF S = {} THEN 0 ELSE f[AnyOf(S)] + g[S \ {AnyOf(S)}]
  BY <1>1, <1>3, <1>4 DEF SumsUp
<1>6. ASSUME S # {}  PROVE g[S \ {AnyOf(S)}] = Total(f, S \ {AnyOf(S)})
  <2>1. PICK T : T = S \ {AnyOf(S)}
    OBVIOUS
  <2>2. T \subseteq S /\ IsFiniteSet(T)
    BY <2>1, FS_Subset
  <2>3. \E h : SumsUp(h, f, T)
    BY <2>2, SumsExist
  <2>4. PICK h : h = CHOOSE q : SumsUp(q, f, T)
    OBVIOUS
  <2>5. SumsUp(h, f, T) /\ Total(f, T) = h[T]
    BY <2>3, <2>4 DEF Total
  <2>6. g[T] = h[T]
    BY <1>3, <2>2, <2>5, SumsAgree
  <2>. QED  BY <2>1, <2>5, <2>6
<1>7. S # {} => AnyOf(S) \in S
  BY DEF AnyOf
<1>. QED  BY <1>3, <1>5, <1>6, <1>7

\* Any element may be taken out first.
LEMMA TotalTakes ==
    ASSUME NEW S, IsFiniteSet(S), NEW f, \A x \in S : f[x] \in Int, NEW x \in S
    PROVE  Total(f, S) = f[x] + Total(f, S \ {x})
<1> DEFINE D == SUBSET S
           U == {s \in D : \A y \in s : Total(f, s) = f[y] + Total(f, s \ {y})}
           mu == [s \in D |-> Cardinality(s)]
<1>1. \A s \in D : IsFiniteSet(s) /\ mu[s] \in Nat
  BY FS_Subset, FS_CardinalityType
<1>2. \A s \in D : \A y \in s : s \ {y} \in D /\ mu[s \ {y}] < mu[s]
  <2>1. SUFFICES ASSUME NEW s \in D, NEW y \in s  PROVE s \ {y} \in D /\ mu[s \ {y}] < mu[s]
    OBVIOUS
  <2>2. Cardinality(s \ {y}) = Cardinality(s) - 1 /\ Cardinality(s) \in Nat
    BY <1>1, <2>1, FS_RemoveElement, FS_CardinalityType
  <2>. QED  BY <2>1, <2>2
<1>3. \A s \in D : Total(f, s) \in Int
  BY <1>1, TotalUnfolds
<1> HIDE DEF mu
<1>4. ASSUME NEW s \in D, \A t \in D : mu[t] < mu[s] => t \in U  PROVE s \in U
  <2>1. SUFFICES ASSUME NEW y \in s  PROVE Total(f, s) = f[y] + Total(f, s \ {y})
    OBVIOUS
  <2>2. PICK p : p = AnyOf(s)
    OBVIOUS
  <2>3. p \in s /\ Total(f, s) = f[p] + Total(f, s \ {p})
    BY <1>1, <2>1, <2>2, TotalUnfolds
  <2>4. CASE p = y
    BY <2>3, <2>4
  <2>5. CASE p # y
    <3>1. y \in s \ {p} /\ p \in s \ {y} /\ (s \ {p}) \ {y} = (s \ {y}) \ {p}
      BY <2>1, <2>3, <2>5
    <3>2. s \ {p} \in U /\ s \ {y} \in U
      BY <1>2, <1>4, <2>1, <2>3
    <3>3. Total(f, s \ {p}) = f[y] + Total(f, (s \ {p}) \ {y})
      BY <3>1, <3>2
    <3>4. Total(f, s \ {y}) = f[p] + Total(f, (s \ {y}) \ {p})
      BY <3>1, <3>2
    <3>5. PICK r \in Int : r = Total(f, (s \ {y}) \ {p})
      <4>1. (s \ {y}) \ {p} \in D
        OBVIOUS
      <4>. QED  BY <1>3, <4>1
    <3>6. f[p] \in Int /\ f[y] \in Int
      BY <2>1, <2>3
    <3>7. Total(f, s) = f[p] + (f[y] + r) /\ Total(f, s \ {y}) = f[p] + r
      BY <2>3, <3>1, <3>3, <3>4, <3>5
    <3>8. f[p] + (f[y] + r) = f[y] + (f[p] + r)
      BY <3>5, <3>6
    <3>. QED  BY <3>7, <3>8
  <2>. QED  BY <2>4, <2>5
<1> HIDE DEF D, U
<1>5. D \subseteq U
  BY <1>1, <1>4, MeasureInduction
<1>. QED  BY <1>5 DEF D, U

LEMMA TotalAdds ==
    ASSUME NEW S, IsFiniteSet(S), NEW x, x \notin S, NEW f, \A y \in S \cup {x} : f[y] \in Int
    PROVE  Total(f, S \cup {x}) = f[x] + Total(f, S)
<1>1. IsFiniteSet(S \cup {x}) /\ (S \cup {x}) \ {x} = S
  BY FS_AddElement
<1>. QED  BY <1>1, TotalTakes

\* Only the values on S count.
LEMMA TotalSame ==
    ASSUME NEW S, IsFiniteSet(S), NEW f, NEW g, \A x \in S : f[x] \in Int /\ g[x] = f[x]
    PROVE  Total(f, S) = Total(g, S)
<1>1. PICK k \in [SUBSET S -> Int] : SumsUp(k, f, S)
  BY SumsExist
<1>2. \A s \in SUBSET S : s # {} => AnyOf(s) \in S
  BY DEF AnyOf
<1>3. \A h : SumsUp(h, f, S) <=> SumsUp(h, g, S)
  BY <1>2 DEF SumsUp
<1>. QED  BY <1>3 DEF Total

\* A change at one place changes the sum by as much.
LEMMA TotalChanges ==
    ASSUME NEW S, IsFiniteSet(S), NEW f, NEW g, NEW x \in S,
           \A y \in S : f[y] \in Int /\ g[y] \in Int, \A y \in S : y # x => g[y] = f[y]
    PROVE  Total(g, S) = Total(f, S) - f[x] + g[x]
<1>1. Total(f, S) = f[x] + Total(f, S \ {x}) /\ Total(g, S) = g[x] + Total(g, S \ {x})
  BY TotalTakes
<1>2. IsFiniteSet(S \ {x})
  BY FS_Subset
<1>3. Total(f, S \ {x}) = Total(g, S \ {x}) /\ Total(f, S \ {x}) \in Int
  BY <1>2, TotalSame, TotalUnfolds
<1>. QED  BY <1>1, <1>3

LEMMA TotalZero ==
    ASSUME NEW S, IsFiniteSet(S), NEW f, \A x \in S : f[x] = 0
    PROVE  Total(f, S) = 0
<1> DEFINE k == [s \in SUBSET S |-> 0]
<1>1. \A s \in SUBSET S : s # {} => AnyOf(s) \in S
  BY DEF AnyOf
<1>2. SumsUp(k, f, S)
  BY <1>1 DEF SumsUp
<1>3. PICK g : g = CHOOSE h : SumsUp(h, f, S)
  OBVIOUS
<1>4. SumsUp(g, f, S) /\ Total(f, S) = g[S]
  BY <1>2, <1>3 DEF Total
<1>5. g[S] = k[S]
  BY <1>2, <1>4, SumsAgree
<1>. QED  BY <1>4, <1>5

\* The same number for every element.
LEMMA TotalConst ==
    ASSUME NEW S, IsFiniteSet(S), NEW f, NEW c \in Int, \A x \in S : f[x] = c
    PROVE  Total(f, S) = Cardinality(S) * c
<1> DEFINE D == SUBSET S
           U == {s \in D : Total(f, s) = Cardinality(s) * c}
           mu == [s \in D |-> Cardinality(s)]
<1>1. \A s \in D : IsFiniteSet(s) /\ mu[s] = Cardinality(s) /\ mu[s] \in Nat
  BY FS_Subset, FS_CardinalityType
<1> HIDE DEF mu
<1>2. ASSUME NEW s \in D, \A t \in D : mu[t] < mu[s] => t \in U  PROVE s \in U
  <2>1. CASE s = {}
    <3>1. Total(f, s) = 0 /\ Cardinality(s) = 0
      BY <1>1, <2>1, TotalZero, FS_EmptySet
    <3>. QED  BY <3>1
  <2>2. CASE s # {}
    <3>1. PICK x \in s : TRUE
      BY <2>2
    <3>2. s \ {x} \in D /\ Cardinality(s \ {x}) = Cardinality(s) - 1
      BY <1>1, FS_RemoveElement
    <3>3. PICK k \in Nat : k = Cardinality(s)
      BY <1>1
    <3>4. Total(f, s \ {x}) = (k - 1) * c
      <4>1. mu[s \ {x}] < mu[s]
        BY <1>1, <3>2, <3>3
      <4>. QED  BY <1>2, <3>2, <3>3, <4>1
    <3>5. Total(f, s) = f[x] + Total(f, s \ {x}) /\ f[x] = c
      <4>1. IsFiniteSet(s) /\ x \in s /\ f[x] = c /\ \A y \in s : f[y] \in Int
        BY <1>1
      <4>2. Total(f, s) = f[x] + Total(f, s \ {x})
        BY ONLY <4>1, TotalTakes, Zenon
      <4>. QED  BY <4>1, <4>2
    <3>6. c + (k - 1) * c = k * c
      BY <3>3
    <3>. QED  BY <3>3, <3>4, <3>5, <3>6
  <2>. QED  BY <2>1, <2>2
<1> HIDE DEF D, U
<1>3. D \subseteq U
  BY <1>1, <1>2, MeasureInduction
<1>. QED  BY <1>3 DEF D, U

\* Sets that are apart: their union has as many members as they have together.
UnionOf(F, S) == UNION {F[x] : x \in S}

LEMMA UnionCount ==
    ASSUME NEW S, IsFiniteSet(S), NEW F, \A x \in S : IsFiniteSet(F[x]),
           \A x, y \in S : x # y => F[x] \cap F[y] = {}
    PROVE  /\ IsFiniteSet(UnionOf(F, S))
           /\ Cardinality(UnionOf(F, S)) = Total([x \in S |-> Cardinality(F[x])], S)
<1> DEFINE D == SUBSET S
           f == [x \in S |-> Cardinality(F[x])]
           U == {s \in D : IsFiniteSet(UnionOf(F, s)) /\ Cardinality(UnionOf(F, s)) = Total(f, s)}
           mu == [s \in D |-> Cardinality(s)]
<1>1. \A s \in D : IsFiniteSet(s) /\ mu[s] = Cardinality(s) /\ mu[s] \in Nat
  BY FS_Subset, FS_CardinalityType
<1>2. \A x \in S : f[x] = Cardinality(F[x]) /\ f[x] \in Nat
  BY FS_CardinalityType
<1> HIDE DEF mu, f
<1>3. ASSUME NEW s \in D, \A t \in D : mu[t] < mu[s] => t \in U  PROVE s \in U
  <2>1. CASE s = {}
    <3>1. Total(f, s) = 0
      BY <1>1, <2>1, TotalZero
    <3>2. UnionOf(F, s) = {}
      BY <2>1 DEF UnionOf
    <3>. QED  BY <3>1, <3>2, FS_EmptySet
  <2>2. CASE s # {}
    <3>1. PICK x \in s : TRUE
      BY <2>2
    <3>2. PICK t \in D : t = s \ {x}
      OBVIOUS
    <3>3. Cardinality(t) = Cardinality(s) - 1
      BY <1>1, <3>2, FS_RemoveElement
    <3>4. IsFiniteSet(UnionOf(F, t)) /\ Cardinality(UnionOf(F, t)) = Total(f, t)
      <4>1. mu[t] < mu[s]
        BY <1>1, <3>3
      <4>. QED  BY <1>3, <4>1
    <3>5. Total(f, s) = Cardinality(F[x]) + Total(f, t)
      <4>1. IsFiniteSet(s) /\ (\A y \in s : f[y] \in Int) /\ x \in s
        BY <1>1, <1>2
      <4>2. Total(f, s) = f[x] + Total(f, s \ {x})
        BY ONLY <4>1, TotalTakes
      <4>. QED  BY <1>2, <3>2, <4>2
    <3>6. UnionOf(F, s) = F[x] \cup UnionOf(F, t)
      BY <3>2 DEF UnionOf
    <3>7. F[x] \cap UnionOf(F, t) = {}
      <4>1. \A y \in t : F[x] \cap F[y] = {}
        BY <3>2
      <4>. QED  BY <4>1 DEF UnionOf
    <3>8. PICK A : A = F[x]
      OBVIOUS
    <3>9. PICK B : B = UnionOf(F, t)
      OBVIOUS
    <3>10. IsFiniteSet(A) /\ IsFiniteSet(B) /\ A \cap B = {}
      BY <3>4, <3>7, <3>8, <3>9
    <3>11. IsFiniteSet(A \cup B) /\ Cardinality(A \cup B) = Cardinality(A) + Cardinality(B)
      <4>1. IsFiniteSet(A \cup B) /\ Cardinality(A \cup B) = Cardinality(A) + Cardinality(B) - Cardinality(A \cap B)
        BY <3>10, FS_Union
      <4>2. Cardinality(A \cap B) = 0 /\ Cardinality(A) \in Nat /\ Cardinality(B) \in Nat
        BY <3>10, FS_EmptySet, FS_CardinalityType
      <4>. QED  BY <4>1, <4>2
    <3>. QED  BY <3>4, <3>5, <3>6, <3>8, <3>9, <3>11
  <2>. QED  BY <2>1, <2>2
<1> HIDE DEF D, U
<1>4. D \subseteq U
  BY <1>1, <1>3, MeasureInduction
<1>. QED  BY <1>4 DEF D, U, f

-----------------------------------------------------------------------------
(* Sequences of sequences, joined.                                          *)

LEMMA ConcatAssoc ==
    ASSUME NEW X, NEW p \in Seq(X), NEW q \in Seq(X), NEW r \in Seq(X)
    PROVE  p \o (q \o r) = (p \o q) \o r
BY SMTT(30)

LEMMA ConcatEmpty ==
    ASSUME NEW X, NEW p \in Seq(X)
    PROVE  p \o <<>> = p /\ <<>> \o p = p
OBVIOUS

\* F[i] is the first i members of s, joined.
Joins(F, s) ==
    F[0] = <<>> /\ \A i \in 1 .. Len(s) : F[i] = F[i - 1] \o s[i]

LEMMA FlattenUnfolds ==
    ASSUME NEW X, NEW s \in Seq(Seq(X))
    PROVE  \E F \in [0 .. Len(s) -> Seq(X)] : Joins(F, s) /\ FlattenSeq(s) = F[Len(s)]
<1> DEFINE D == 1 .. Len(s)
           R == Seq(X)
           Eqn(g) == g = [i \in 1 .. Len(s) |-> IF i = 1 THEN s[i] ELSE g[i - 1] \o s[i]]
           B == [i \in D |-> s[i]]
           N == [i \in D |-> i - 1]
           E == [p \in D \X R |-> p[2] \o s[p[1]]]
           mu == [i \in D |-> i]
<1>1. Len(s) \in Nat /\ \A i \in D : s[i] \in R /\ i \in Nat
  OBVIOUS
<1>2. \A i \in D : i # 1 => i - 1 \in D /\ i - 1 < i
  BY <1>1
<1>3. PICK h \in [D -> R] : Solves(h, D, {1}, B, N, E)
  <2>1. \A i \in D : mu[i] \in Nat
    BY <1>1
  <2>2. \A i \in D : i \in {1} => B[i] \in R
    BY <1>1
  <2>3. \A i \in D : i \notin {1} => N[i] \in D /\ mu[N[i]] < mu[i]
    BY <1>2
  <2>4. \A i \in D, r \in R : i \notin {1} => E[<<i, r>>] \in R
    <3>1. \A i \in D, r \in R : E[<<i, r>>] = r \o s[i] /\ s[i] \in R
      <4> HIDE DEF D, R
      <4>. QED  BY <1>1
    <3>2. \A q, r \in R : r \o q \in R
      OBVIOUS
    <3> HIDE DEF D, R, E
    <3>. QED  BY <3>1, <3>2
  <2> HIDE DEF D, R, B, N, E, mu
  <2>. QED  BY <2>1, <2>2, <2>3, <2>4, RecursionExists
<1>4. Eqn(h)
  <2>1. ASSUME NEW i \in D  PROVE h[i] = IF i = 1 THEN s[i] ELSE h[i - 1] \o s[i]
    <3>1. CASE i = 1
      BY <1>3, <3>1 DEF Solves
    <3>2. CASE i # 1
      <4>1. h[i] = E[<<i, h[N[i]]>>] /\ N[i] = i - 1 /\ h[i - 1] \in R
        BY <1>2, <1>3, <3>2 DEF Solves
      <4>2. E[<<i, h[i - 1]>>] = h[i - 1] \o s[i]
        <5> HIDE DEF D, R
        <5>. QED  BY <4>1
      <4> HIDE DEF N, E
      <4>. QED  BY <3>2, <4>1, <4>2
    <3>. QED  BY <3>1, <3>2
  <2>. QED  BY <1>3, <2>1
<1>5. PICK g : g = CHOOSE q : Eqn(q)
  OBVIOUS
<1>6. Eqn(g)
  <2> HIDE DEF Eqn
  <2>. QED  BY <1>4, <1>5, Zenon
<1>7. Len(s) # 0 => FlattenSeq(s) = g[Len(s)]
  BY <1>5, Zenon DEF FlattenSeq
<1>8. \A i \in D : g[i] = IF i = 1 THEN s[i] ELSE g[i - 1] \o s[i]
  BY <1>6
<1>9. \A i \in D : g[i] \in R
  <2> DEFINE T == {i \in D : g[i] \in R}
  <2>1. ASSUME NEW i \in D, \A j \in D : mu[j] < mu[i] => j \in T  PROVE i \in T
    <3>1. CASE i = 1
      BY <1>1, <1>8, <3>1
    <3>2. CASE i # 1
      <4>1. i - 1 \in T
        BY <1>2, <2>1, <3>2
      <4>2. g[i - 1] \in Seq(X) /\ s[i] \in Seq(X)
        BY <1>1, <4>1
      <4>3. g[i - 1] \o s[i] \in Seq(X)
        BY <4>2
      <4>. QED  BY <1>8, <3>2, <4>3
    <3>. QED  BY <3>1, <3>2
  <2>2. \A i \in D : mu[i] \in Nat
    BY <1>1
  <2> HIDE DEF D, T, mu
  <2>3. D \subseteq T
    BY <2>1, <2>2, MeasureInduction, ZenonT(40)
  <2>. QED  BY <2>3 DEF T
<1> DEFINE F == [i \in 0 .. Len(s) |-> IF i = 0 THEN <<>> ELSE g[i]]
<1>10. \A i \in 0 .. Len(s) : F[i] \in Seq(X)
  <2>1. \A i \in 0 .. Len(s) : i # 0 => i \in D
    BY <1>1
  <2>. QED  BY <1>9, <2>1, EmptyInSeq
<1>11. Joins(F, s)
  <2>1. F[0] = <<>>
    BY <1>1
  <2>2. ASSUME NEW i \in 1 .. Len(s)  PROVE F[i] = F[i - 1] \o s[i]
    <3>1. i \in 0 .. Len(s) /\ i # 0 /\ i - 1 \in 0 .. Len(s) /\ F[i] = g[i]
      BY <1>1
    <3>2. CASE i = 1
      <4>1. s[i] \in Seq(X) /\ F[i] = s[i] /\ F[i - 1] = <<>>
        BY <1>1, <1>8, <3>1, <3>2
      <4>. QED  BY <4>1, ConcatEmpty
    <3>3. CASE i # 1
      <4>1. F[i - 1] = g[i - 1]
        BY <1>1, <3>1, <3>3
      <4>. QED  BY <1>8, <3>1, <3>3, <4>1
    <3>. QED  BY <3>2, <3>3
  <2> HIDE DEF F
  <2>. QED  BY <2>1, <2>2 DEF Joins
<1>12. FlattenSeq(s) = F[Len(s)]
  <2>1. CASE Len(s) = 0
    <3>1. s = <<>>
      BY <2>1
    <3>. QED  BY <2>1, <3>1 DEF FlattenSeq
  <2>2. CASE Len(s) # 0
    BY <1>1, <1>7, <2>2
  <2>. QED  BY <2>1, <2>2
<1>13. F \in [0 .. Len(s) -> Seq(X)]
  BY <1>10
<1> HIDE DEF F
<1>. QED  BY <1>11, <1>12, <1>13

\* There is one way to join them.
LEMMA JoinedIs ==
    ASSUME NEW X, NEW s \in Seq(Seq(X)), NEW F, Joins(F, s)
    PROVE  /\ FlattenSeq(s) = F[Len(s)]
           /\ \A i \in 0 .. Len(s) : F[i] \in Seq(X)
<1>1. PICK G \in [0 .. Len(s) -> Seq(X)] : Joins(G, s) /\ FlattenSeq(s) = G[Len(s)]
  BY FlattenUnfolds
<1>2. PICK L \in Nat : L = Len(s)
  OBVIOUS
<1>3. /\ F[0] = <<>> /\ G[0] = <<>>
      /\ \A i \in 1 .. L : F[i] = F[i - 1] \o s[i] /\ G[i] = G[i - 1] \o s[i]
  BY <1>1, <1>2 DEF Joins
<1> DEFINE S == {i \in Nat : i <= L => F[i] = G[i]}
<1>4. 0 \in S
  BY <1>3
<1>5. ASSUME NEW i \in Nat, i \in S  PROVE i + 1 \in S
  <2>1. ASSUME i + 1 <= L  PROVE F[i + 1] = G[i + 1]
    <3>1. i + 1 \in 1 .. L /\ (i + 1) - 1 = i /\ F[i] = G[i]
      BY <1>5, <2>1
    <3>. QED  BY <1>3, <3>1, Zenon
  <2>. QED  BY <2>1
<1> HIDE DEF S
<1>6. Nat \subseteq S
  BY <1>4, <1>5, SetInduction
<1>7. ASSUME NEW i \in 0 .. L  PROVE F[i] = G[i]
  BY <1>6 DEF S
<1>8. L \in 0 .. L
  OBVIOUS
<1>9. \A i \in 0 .. L : G[i] \in Seq(X)
  BY <1>1, <1>2
<1>. QED  BY <1>1, <1>2, <1>7, <1>8, <1>9, Zenon

LEMMA FlattenConcat ==
    ASSUME NEW X, NEW s \in Seq(Seq(X)), NEW t \in Seq(Seq(X))
    PROVE  /\ FlattenSeq(s) \in Seq(X) /\ FlattenSeq(t) \in Seq(X)
           /\ FlattenSeq(s \o t) = FlattenSeq(s) \o FlattenSeq(t)
<1>1. PICK F \in [0 .. Len(s) -> Seq(X)] : Joins(F, s) /\ FlattenSeq(s) = F[Len(s)]
  BY FlattenUnfolds
<1>2. PICK G \in [0 .. Len(t) -> Seq(X)] : Joins(G, t) /\ FlattenSeq(t) = G[Len(t)]
  BY FlattenUnfolds
<1>3. PICK m \in Nat : m = Len(s)
  OBVIOUS
<1>4. PICK n \in Nat : n = Len(t)
  OBVIOUS
<1>5. /\ F[0] = <<>> /\ G[0] = <<>> /\ FlattenSeq(s) = F[m] /\ FlattenSeq(t) = G[n]
      /\ \A i \in 1 .. m : F[i] = F[i - 1] \o s[i]
      /\ \A i \in 1 .. n : G[i] = G[i - 1] \o t[i]
  BY <1>1, <1>2, <1>3, <1>4 DEF Joins
<1>6. /\ \A i \in 0 .. m : F[i] \in Seq(X)
      /\ \A i \in 0 .. n : G[i] \in Seq(X)
  BY <1>1, <1>2, <1>3, <1>4
<1>t. \A i \in 1 .. n : t[i] \in Seq(X)
  BY <1>4
<1>7. PICK a \in Seq(X) : a = F[m]
  BY <1>6
<1>8. PICK u \in Seq(Seq(X)) : u = s \o t
  BY ConcatInSeq
<1>9. /\ Len(u) = m + n
      /\ \A i \in 1 .. m : u[i] = s[i]
      /\ \A j \in 1 .. n : u[m + j] = t[j]
  BY <1>3, <1>4, <1>8
<1> DEFINE H == [i \in 0 .. m + n |-> IF i <= m THEN F[i] ELSE a \o G[i - m]]
<1>10. H[0] = <<>>
  BY <1>5
<1>11. ASSUME NEW i \in 1 .. m + n  PROVE H[i] = H[i - 1] \o u[i]
  <2>1. CASE i <= m
    <3>1. i \in 1 .. m /\ H[i] = F[i] /\ H[i - 1] = F[i - 1]
      BY <2>1
    <3>. QED  BY <1>5, <1>9, <3>1
  <2>2. CASE i > m
    <3>1. PICK j \in 1 .. n : i = m + j
      <4>1. i - m \in 1 .. n /\ i = m + (i - m)
        BY <2>2
      <4>. QED  BY <4>1
    <3>2. u[i] = t[j] /\ t[j] \in Seq(X) /\ G[j] = G[j - 1] \o t[j]
      BY <1>5, <1>9, <1>t, <3>1
    <3>3. j - 1 \in 0 .. n /\ i - m = j
      BY <3>1
    <3>4. H[i] = a \o G[j]
      BY <2>2, <3>3, SMTT(30)
    <3>5. H[i - 1] = a \o G[j - 1]
      <4>1. CASE j = 1
        <5>1. i - 1 = m /\ H[i - 1] = a
          BY <1>7, <3>1, <4>1
        <5>2. G[j - 1] = <<>>
          BY <1>5, <4>1
        <5>. QED  BY <5>1, <5>2, ConcatEmpty
      <4>2. CASE j # 1
        <5>1. i - 1 \in 0 .. m + n /\ i - 1 > m /\ (i - 1) - m = j - 1
          BY <3>1, <4>2
        <5>. QED  BY <5>1, SMTT(30)
      <4>. QED  BY <4>1, <4>2
    <3>6. PICK g \in Seq(X) : g = G[j - 1]
      BY <1>6, <3>3
    <3>7. PICK c \in Seq(X) : c = t[j]
      BY <3>2
    <3>8. a \o (g \o c) = (a \o g) \o c
      BY ConcatAssoc, SMTT(30)
    <3> HIDE DEF H
    <3>9. H[i] = a \o (g \o c)
      BY ONLY <3>2, <3>4, <3>6, <3>7, Zenon
    <3>10. H[i - 1] \o u[i] = (a \o g) \o c
      BY ONLY <3>2, <3>5, <3>6, <3>7, Zenon
    <3>. QED  BY <3>8, <3>9, <3>10
  <2>3. i <= m \/ i > m
    OBVIOUS
  <2>. QED  BY <2>1, <2>2, <2>3, Zenon
<1>12. Joins(H, u)
  <2> HIDE DEF H
  <2>. QED  BY <1>9, <1>10, <1>11 DEF Joins
<1>13. FlattenSeq(u) = H[m + n]
  <2> HIDE DEF H
  <2>. QED  BY <1>9, <1>12, JoinedIs
<1>14. H[m + n] = a \o G[n]
  <2>1. CASE n = 0
    <3>1. H[m + n] = a /\ G[n] = <<>>
      BY <1>5, <1>7, <2>1
    <3>. QED  BY <3>1, ConcatEmpty
  <2>2. CASE n # 0
    <3>1. m + n \in 0 .. m + n /\ ~(m + n <= m) /\ (m + n) - m = n
      BY <2>2
    <3>. QED  BY <3>1
  <2>. QED  BY <2>1, <2>2
<1>15. m \in 0 .. m /\ n \in 0 .. n
  OBVIOUS
<1> HIDE DEF H
<1>. QED  BY <1>5, <1>6, <1>7, <1>8, <1>13, <1>14, <1>15, Zenon

LEMMA FlattenOne ==
    ASSUME NEW X, NEW e \in Seq(X)
    PROVE  FlattenSeq(<<e>>) = e /\ FlattenSeq(<<>>) = <<>>
<1>0. \A Y : \A y \in Y : <<y>> \in Seq(Y)
  OBVIOUS
<1>1. PICK s \in Seq(Seq(X)) : s = <<e>>
  BY <1>0, Zenon
<1>2. Len(s) = 1 /\ s[1] = e
  BY <1>1
<1> DEFINE F == [i \in 0 .. 1 |-> IF i = 0 THEN <<>> ELSE e]
<1>3. F[0] = <<>> /\ F[1] = e
  OBVIOUS
<1> HIDE DEF F
<1>4. <<>> \o e = e
  BY ConcatEmpty
<1>5. Joins(F, s)
  <2>1. \A i \in 1 .. Len(s) : i = 1 /\ i - 1 = 0
    BY <1>2
  <2>. QED  BY <1>2, <1>3, <1>4, <2>1 DEF Joins
<1>6. FlattenSeq(s) = e
  BY <1>2, <1>3, <1>5, JoinedIs
<1>7. FlattenSeq(<<>>) = <<>>
  BY DEF FlattenSeq
<1>. QED  BY <1>1, <1>6, <1>7

-----------------------------------------------------------------------------
(* Parts of a sequence, and the way from its end to its front.              *)

\* Induction from the end of a sequence to its front.
LEMMA DownInduction ==
    ASSUME NEW n \in Nat, NEW T, n \in T,
           \A i \in 1 .. n : i < n /\ i + 1 \in T => i \in T
    PROVE  1 .. n \subseteq T
<1> DEFINE D == 1 .. n
           mu == [i \in D |-> n - i]
<1>1. \A i \in D : mu[i] \in Nat /\ mu[i] = n - i
  OBVIOUS
<1>2. ASSUME NEW i \in D, \A j \in D : mu[j] < mu[i] => j \in T  PROVE i \in T
  <2>1. CASE i = n
    BY <2>1
  <2>2. CASE i # n
    <3>1. i < n /\ i + 1 \in D
      BY <2>2
    <3>2. mu[i + 1] < mu[i]
      BY <1>1, <3>1
    <3>. QED  BY <1>2, <3>1, <3>2
  <2>. QED  BY <2>1, <2>2
<1> HIDE DEF mu, D
<1>3. D \subseteq T
  BY <1>1, <1>2, MeasureInduction
<1>. QED  BY <1>3 DEF D

LEMMA DistinctConcat ==
    ASSUME NEW X, NEW p \in Seq(X), NEW q \in Seq(X), Distinct(p), Distinct(q),
           Range(p) \cap Range(q) = {}
    PROVE  Distinct(p \o q)
<1>1. /\ Len(p) \in Nat /\ Len(q) \in Nat /\ Len(p \o q) = Len(p) + Len(q)
      /\ \A j \in 1 .. Len(p) : (p \o q)[j] = p[j]
      /\ \A j \in 1 .. Len(q) : (p \o q)[Len(p) + j] = q[j]
  BY ConcatValues
<1>2. /\ \A j \in 1 .. Len(p) : p[j] \in Range(p)
      /\ \A j \in 1 .. Len(q) : q[j] \in Range(q)
  BY DEF Range
<1>3. ASSUME NEW j \in 1 .. Len(p \o q)
      PROVE  \/ j \in 1 .. Len(p) /\ (p \o q)[j] = p[j]
             \/ j > Len(p) /\ j - Len(p) \in 1 .. Len(q) /\ (p \o q)[j] = q[j - Len(p)]
  <2>1. CASE j <= Len(p)
    BY <1>1, <2>1
  <2>2. CASE j > Len(p)
    <3>1. j - Len(p) \in 1 .. Len(q) /\ Len(p) + (j - Len(p)) = j
      BY <1>1, <2>2
    <3>. QED  BY <1>1, <2>2, <3>1
  <2>. QED  BY <1>1, <2>1, <2>2
<1>4. ASSUME NEW j \in 1 .. Len(p \o q), NEW k \in 1 .. Len(p \o q), (p \o q)[j] = (p \o q)[k]
      PROVE  j = k
  <2>1. CASE j \in 1 .. Len(p) /\ (p \o q)[j] = p[j] /\ k \in 1 .. Len(p) /\ (p \o q)[k] = p[k]
    BY <1>4, <2>1 DEF Distinct
  <2>2. CASE /\ j > Len(p) /\ j - Len(p) \in 1 .. Len(q) /\ (p \o q)[j] = q[j - Len(p)]
             /\ k > Len(p) /\ k - Len(p) \in 1 .. Len(q) /\ (p \o q)[k] = q[k - Len(p)]
    <3>1. j - Len(p) = k - Len(p)
      BY <1>4, <2>2 DEF Distinct
    <3>. QED  BY <1>1, <3>1
  <2>3. CASE /\ j \in 1 .. Len(p) /\ (p \o q)[j] = p[j]
             /\ k - Len(p) \in 1 .. Len(q) /\ (p \o q)[k] = q[k - Len(p)]
    BY <1>2, <1>4, <2>3
  <2>4. CASE /\ k \in 1 .. Len(p) /\ (p \o q)[k] = p[k]
             /\ j - Len(p) \in 1 .. Len(q) /\ (p \o q)[j] = q[j - Len(p)]
    BY <1>2, <1>4, <2>4
  <2>. QED  BY <1>3, <2>1, <2>2, <2>3, <2>4
<1>. QED  BY <1>4 DEF Distinct

\* Three parts, joined in either order: ConcatAssoc to be cited by name.
Associates(p, q, r) == p \o (q \o r) = (p \o q) \o r

LEMMA ConcatAssociates ==
    ASSUME NEW X, NEW p \in Seq(X), NEW q \in Seq(X), NEW r \in Seq(X)
    PROVE  Associates(p, q, r)
BY ConcatAssoc DEF Associates

\* One member taken out from between two parts.
Between(s, p, e, q) == s = p \o <<e>> \o q

LEMMA RemoveBetween ==
    ASSUME NEW X, NEW p \in Seq(X), NEW q \in Seq(X), NEW e \in X, NEW s, Between(s, p, e, q)
    PROVE  /\ s \in Seq(X) /\ Len(s) = Len(p) + 1 + Len(q) /\ Len(p) + 1 \in 1 .. Len(s)
           /\ s[Len(p) + 1] = e /\ RemoveAt(s, Len(p) + 1) = p \o q
<1>1. s = p \o <<e>> \o q
  BY DEF Between
<1>2. Len(p) \in Nat /\ Len(q) \in Nat
  OBVIOUS
<1>3. /\ s \in Seq(X) /\ Len(s) = Len(p) + 1 + Len(q)
      /\ \A j \in 1 .. Len(p) : s[j] = p[j]
      /\ s[Len(p) + 1] = e
      /\ \A j \in 1 .. Len(q) : s[Len(p) + 1 + j] = q[j]
  <2>1. PICK a : a = p \o <<e>>
    OBVIOUS
  <2>2. <<e>> \in Seq(X) /\ Len(<<e>>) = 1 /\ <<e>>[1] = e /\ 1 \in 1 .. 1
    OBVIOUS
  <2>3. /\ a \in Seq(X) /\ Len(a) = Len(p) + 1
        /\ \A j \in 1 .. Len(p) : a[j] = p[j]
        /\ a[Len(p) + 1] = e
    BY <2>1, <2>2, ConcatValues
  <2>4. /\ s \in Seq(X) /\ Len(s) = Len(a) + Len(q)
        /\ \A j \in 1 .. Len(a) : s[j] = a[j]
        /\ \A j \in 1 .. Len(q) : s[Len(a) + j] = q[j]
    BY <1>1, <2>1, <2>3, ConcatValues
  <2>5. \A j \in 1 .. Len(p) : j \in 1 .. Len(a)
    BY <1>2, <2>3
  <2>6. Len(p) + 1 \in 1 .. Len(a)
    BY <1>2, <2>3
  <2>. QED  BY <2>3, <2>4, <2>5, <2>6
<1>4. Len(p) + 1 \in 1 .. Len(s)
  BY <1>2, <1>3
<1>5. PICK t : t = RemoveAt(s, Len(p) + 1)
  OBVIOUS
<1>6. /\ t \in Seq(X) /\ Len(t) = Len(s) - 1
      /\ \A j \in 1 .. Len(t) : t[j] = IF j < Len(p) + 1 THEN s[j] ELSE s[j + 1]
  <2>1. PICK k \in 1 .. Len(s) : k = Len(p) + 1
    BY <1>4
  <2>2. t = RemoveAt(s, k) /\ s \in Seq(X)
    BY <1>3, <1>5, <2>1
  <2>3. /\ t \in Seq(X) /\ Len(t) = Len(s) - 1
        /\ \A j \in 1 .. Len(t) : t[j] = IF j < k THEN s[j] ELSE s[j + 1]
    BY ONLY <2>2, k \in 1 .. Len(s), RemoveAtValues
  <2>. QED  BY ONLY <2>1, <2>3
<1>7. PICK u : u = p \o q
  OBVIOUS
<1>8. /\ u \in Seq(X) /\ Len(u) = Len(p) + Len(q)
      /\ \A j \in 1 .. Len(p) : u[j] = p[j]
      /\ \A j \in 1 .. Len(q) : u[Len(p) + j] = q[j]
  BY <1>7, ConcatValues
<1>9. ASSUME NEW j \in 1 .. Len(u)  PROVE t[j] = u[j]
  <2>1. j \in 1 .. Len(t)
    BY <1>2, <1>3, <1>6, <1>8
  <2>2. CASE j <= Len(p)
    <3>1. j \in 1 .. Len(p) /\ j < Len(p) + 1
      BY <1>2, <2>2
    <3>. QED  BY <1>3, <1>6, <1>8, <2>1, <3>1
  <2>3. CASE j > Len(p)
    <3>1. PICK i \in 1 .. Len(q) : j = Len(p) + i /\ j + 1 = Len(p) + 1 + i
      <4>1. j - Len(p) \in 1 .. Len(q) /\ j = Len(p) + (j - Len(p)) /\ j + 1 = Len(p) + 1 + (j - Len(p))
        BY <1>2, <1>8, <2>3
      <4>. QED  BY <4>1
    <3>2. ~ (j < Len(p) + 1)
      BY <1>2, <2>3
    <3>3. t[j] = s[j + 1]
      BY <1>6, <2>1, <3>2
    <3>4. s[j + 1] = q[i] /\ u[j] = q[i]
      BY <1>3, <1>8, <3>1
    <3>. QED  BY <3>3, <3>4
  <2>. QED  BY <1>2, <2>2, <2>3
<1>10. t = u
  <2>1. Len(t) = Len(u)
    BY <1>2, <1>3, <1>6, <1>8
  <2>. QED  BY ONLY <1>6, <1>8, <1>9, <2>1
<1>. QED  BY <1>1, <1>3, <1>4, <1>5, <1>7, <1>10

-----------------------------------------------------------------------------
(* Tables.  A table f of n places holds values of V, or nil where a place   *)
(* is free; c counts the places in use, and no value is in two of them.     *)
InUse(f, n, nil) == {i \in 0 .. n - 1 : f[i] # nil}
Tabled(f, n, V, nil, c) ==
    /\ f \in [0 .. n - 1 -> V \cup {nil}] /\ c \in 0 .. n
    /\ c = Cardinality(InUse(f, n, nil))
    /\ \A i, j \in InUse(f, n, nil) : f[i] = f[j] => i = j

LEMMA InUseFinite ==
    ASSUME NEW n \in Nat, NEW f, NEW nil
    PROVE  /\ IsFiniteSet(0 .. n - 1) /\ Cardinality(0 .. n - 1) = n
           /\ InUse(f, n, nil) \subseteq 0 .. n - 1 /\ IsFiniteSet(InUse(f, n, nil))
<1>1. IsFiniteSet(0 .. n - 1) /\ Cardinality(0 .. n - 1) = n
  BY FS_Interval
<1>2. InUse(f, n, nil) \subseteq 0 .. n - 1
  BY DEF InUse
<1>. QED  BY <1>1, <1>2, FS_Subset

\* Probing on from any place reaches every place: place s at step (s - id) mod n.
LEMMA ProbesCover ==
    ASSUME NEW n \in Nat \ {0}, NEW id \in Nat, NEW s \in 0 .. n - 1
    PROVE  \E i \in 0 .. n - 1 : (i + id) % n = s
<1> DEFINE r == id % n
           q == id \div n
           i == IF r <= s THEN s - r ELSE s - r + n
<1>1. n \in Nat /\ n > 0 /\ s \in 0 .. n - 1
  OBVIOUS
<1>2. r \in 0 .. n - 1 /\ q \in Int /\ id = n * q + r
  BY <1>1
<1> HIDE DEF r, q
<1>3. i \in 0 .. n - 1
  BY <1>1, <1>2
<1>4. \E k \in Int : i + id = n * k + s
  <2>1. CASE r <= s
    <3>1. i + id = n * q + s  BY <1>1, <1>2, <2>1
    <3>. QED  BY <3>1, <1>2
  <2>2. CASE ~ (r <= s)
    <3>1. n * (q + 1) = n * q + n  BY <1>1, <1>2
    <3>2. i + id = n * (q + 1) + s  BY <1>1, <1>2, <2>2, <3>1
    <3>3. q + 1 \in Int  BY <1>2
    <3> HIDE DEF i
    <3>. QED  BY <3>2, <3>3, Zenon
  <2> HIDE DEF i
  <2>. QED  BY <2>1, <2>2, Zenon
<1> HIDE DEF i
<1>5. PICK k \in Int : i + id = n * k + s
  BY <1>4
<1>6. (n * k + s) % n = s
  BY <1>1, <1>5, Z3
<1>. QED  BY <1>3, <1>5, <1>6

\* While the counter is below n, some place is free.
LEMMA TableRoom ==
    ASSUME NEW n \in Nat \ {0}, NEW V, NEW nil, NEW f, NEW c, Tabled(f, n, V, nil, c), c # n
    PROVE  \E s \in 0 .. n - 1 : f[s] = nil
<1>1. InUse(f, n, nil) # 0 .. n - 1
  BY InUseFinite DEF Tabled
<1>. QED  BY <1>1 DEF InUse

LEMMA TableEmpty ==
    ASSUME NEW n \in Nat \ {0}, NEW V, NEW nil, NEW f, f = [i \in 0 .. n - 1 |-> nil]
    PROVE  Tabled(f, n, V, nil, 0)
<1>1. InUse(f, n, nil) = {}
  BY DEF InUse
<1>. QED  BY <1>1, FS_EmptySet DEF Tabled

LEMMA TableGains ==
    ASSUME NEW n \in Nat \ {0}, NEW V, NEW nil, NEW f, NEW c, Tabled(f, n, V, nil, c), c # n,
           NEW s \in 0 .. n - 1, f[s] = nil, NEW v \in V, v # nil,
           \A i \in InUse(f, n, nil) : f[i] # v, NEW g, g = [f EXCEPT ![s] = v]
    PROVE  Tabled(g, n, V, nil, c + 1)
<1>1. f \in [0 .. n - 1 -> V \cup {nil}] /\ c \in 0 .. n /\ c = Cardinality(InUse(f, n, nil))
  BY DEF Tabled
<1>2. InUse(g, n, nil) = InUse(f, n, nil) \cup {s} /\ s \notin InUse(f, n, nil)
  BY <1>1 DEF InUse
<1>3. Cardinality(InUse(g, n, nil)) = c + 1
  <2>1. IsFiniteSet(InUse(f, n, nil))
    BY InUseFinite
  <2>2. Cardinality(InUse(f, n, nil) \cup {s}) = Cardinality(InUse(f, n, nil)) + 1
    BY <1>2, <2>1, FS_AddElement
  <2>. QED  BY <1>1, <1>2, <2>2
<1>4. c + 1 \in 0 .. n
  BY <1>1
<1>5. \A i \in InUse(f, n, nil) : g[i] = f[i]
  BY <1>1, <1>2 DEF InUse
<1>6. g[s] = v
  BY <1>1
<1>7. \A i, j \in InUse(g, n, nil) : g[i] = g[j] => i = j
  BY <1>2, <1>5, <1>6 DEF Tabled
<1>8. g \in [0 .. n - 1 -> V \cup {nil}]
  BY <1>1
<1>. QED  BY <1>3, <1>4, <1>7, <1>8 DEF Tabled

LEMMA TableLoses ==
    ASSUME NEW n \in Nat \ {0}, NEW V, NEW nil, NEW f, NEW c, Tabled(f, n, V, nil, c),
           NEW s \in InUse(f, n, nil), NEW g, g = [f EXCEPT ![s] = nil]
    PROVE  Tabled(g, n, V, nil, c - 1)
<1>1. f \in [0 .. n - 1 -> V \cup {nil}] /\ c \in 0 .. n /\ c = Cardinality(InUse(f, n, nil))
      /\ s \in 0 .. n - 1
  BY DEF Tabled, InUse
<1>2. InUse(g, n, nil) = InUse(f, n, nil) \ {s}
  BY <1>1 DEF InUse
<1>3. /\ Cardinality(InUse(g, n, nil)) = c - 1
      /\ IsFiniteSet(InUse(g, n, nil))
  BY <1>1, <1>2, InUseFinite, FS_RemoveElement, ZenonT(40)
<1>4. c - 1 \in 0 .. n
  <2>1. Cardinality(InUse(g, n, nil)) \in Nat
    BY <1>3, FS_CardinalityType
  <2>. QED  BY <1>1, <1>3, <2>1
<1>5. \A i \in InUse(g, n, nil) : i \in InUse(f, n, nil) /\ g[i] = f[i]
  BY <1>1, <1>2 DEF InUse
<1>6. \A i, j \in InUse(g, n, nil) : g[i] = g[j] => i = j
  BY <1>5 DEF Tabled
<1>7. g \in [0 .. n - 1 -> V \cup {nil}]
  BY <1>1
<1>. QED  BY <1>3, <1>4, <1>6, <1>7 DEF Tabled
=============================================================================
