---------------------------- MODULE NetworkProofs ----------------------------
(***************************************************************************)
(* Proofs about the two programs at a socket, which share no state.        *)
(*                                                                         *)
(* The loop of epoll_test/server.cpp blocks nowhere but in epoll_wait and  *)
(* leaves input behind only after a full or a failed read: for any number  *)
(* of clients and descriptors and any sizes.                               *)
(*                                                                         *)
(* What MysqlClient promises, for any number of structures, statements and *)
(* other clients.                                                          *)
(***************************************************************************)
EXTENDS EpollServer, MysqlClient, DataLemmas

\* Who waits to be accepted waits once.
BacklogInv ==
    /\ Distinct(backlog)
    /\ \A c \in Range(backlog) : conn[c].at = "queued"

\* A descriptor is of one connection, which is open, and of every open
\* connection there is one: Arrives finds it.
FdInv ==
    /\ \A f \in Open : conn[fd[f]].at = "open"
    /\ \A f, g \in Open : fd[f] = fd[g] => f = g
    /\ \A c \in Clients : conn[c].at = "open" => \E f \in Open : fd[f] = c

\* No list has a descriptor twice, or one that is closed; what is in the
\* batch has its input still.
ListsInv ==
    /\ Distinct(ready) /\ Distinct(batch)
    /\ Range(ready) \subseteq Open \cup {Listen}
    /\ Range(batch) \subseteq Open \cup {Listen}
    /\ \A f \in Range(batch) : Pending(f)

EpollInv == TypeOK /\ BacklogInv /\ FdInv /\ ListsInv /\ LeftBehind

-----------------------------------------------------------------------------

\* Keep keeps the members of S, in order and no oftener.
LEMMA KeepResult ==
    ASSUME NEW X, NEW q \in Seq(X), NEW S
    PROVE  /\ Keep(q, S) \in Seq(X)
           /\ Range(Keep(q, S)) = Range(q) \cap S
           /\ Distinct(q) => Distinct(Keep(q, S))
<1> DEFINE D == 0 .. Len(q)
           R == Seq(X)
           Eqn(g) == g = [i \in D |-> IF i = 0 THEN <<>>
                                      ELSE IF q[i] \in S THEN Append(g[i - 1], q[i])
                                           ELSE g[i - 1]]
           B == [i \in D |-> <<>>]
           N == [i \in D |-> i - 1]
           E == [p \in D \X R |-> IF q[p[1]] \in S THEN Append(p[2], q[p[1]]) ELSE p[2]]
           mu == [i \in D |-> i]
<1>1. /\ Len(q) \in Nat /\ DOMAIN q = 1 .. Len(q)
      /\ \A i \in D : i # 0 => i \in 1 .. Len(q) /\ q[i] \in X /\ i - 1 \in D
  OBVIOUS
<1>2. \E g \in [D -> R] : Solves(g, D, {0}, B, N, E)
  <2>1. \A i \in D : mu[i] \in Nat
    BY <1>1
  <2>2. \A i \in D : i \in {0} => B[i] \in R
    OBVIOUS
  <2>3. \A i \in D : i \notin {0} => N[i] \in D /\ mu[N[i]] < mu[i]
    BY <1>1
  <2>4. \A i \in D, r \in R : i \notin {0} => E[<<i, r>>] \in R
    <3>1. \A i \in D, r \in R : E[<<i, r>>] = IF q[i] \in S THEN Append(r, q[i]) ELSE r
      <4> HIDE DEF D, R
      <4>. QED  OBVIOUS
    <3>2. \A i \in D, r \in R : i # 0 => Append(r, q[i]) \in R
      BY <1>1
    <3> HIDE DEF D, R, E
    <3>. QED  BY <3>1, <3>2
  <2> HIDE DEF D, R, B, N, E, mu
  <2>. QED  BY <2>1, <2>2, <2>3, <2>4, RecursionExists
<1>3. \E g : Eqn(g)
  <2>1. PICK g \in [D -> R] : Solves(g, D, {0}, B, N, E)
    BY <1>2
  <2>2. ASSUME NEW i \in D
        PROVE  g[i] = IF i = 0 THEN <<>>
                      ELSE IF q[i] \in S THEN Append(g[i - 1], q[i]) ELSE g[i - 1]
    <3>1. CASE i = 0
      <4>1. g[i] = B[i]
        <5> HIDE DEF D, R, B, N, E
        <5>. QED  BY <2>1, <3>1 DEF Solves
      <4>. QED  BY <3>1, <4>1
    <3>2. CASE i # 0
      <4>1. N[i] = i - 1 /\ i - 1 \in D /\ g[i - 1] \in R
        BY <1>1, <3>2
      <4>2. g[i] = E[<<i, g[N[i]]>>]
        <5> HIDE DEF D, R, B, N, E
        <5>. QED  BY <2>1, <3>2 DEF Solves
      <4>3. E[<<i, g[i - 1]>>] = IF q[i] \in S THEN Append(g[i - 1], q[i]) ELSE g[i - 1]
        <5> HIDE DEF D, R
        <5>. QED  BY <4>1
      <4> HIDE DEF D, R, B, N, E
      <4>. QED  BY <3>2, <4>1, <4>2, <4>3
    <3>. QED  BY <3>1, <3>2
  <2>3. g = [i \in D |-> g[i]]
    OBVIOUS
  <2>4. Eqn(g)
    <3> HIDE DEF D, R
    <3>. QED  BY <2>2, <2>3
  <2> HIDE DEF Eqn
  <2>. QED  BY <2>4
<1> DEFINE go == CHOOSE g : Eqn(g)
<1>4. Eqn(go)
  <2> HIDE DEF Eqn
  <2>. QED  BY <1>3, Zenon
<1>5. Keep(q, S) = go[Len(q)]
  BY DEF Keep
<1> HIDE DEF go
<1>6. /\ go[0] = <<>>
      /\ \A i \in D : i # 0 => go[i] = IF q[i] \in S THEN Append(go[i - 1], q[i]) ELSE go[i - 1]
  <2>1. 0 \in D
    BY <1>1
  <2>2. ASSUME NEW i \in D
        PROVE  go[i] = IF i = 0 THEN <<>>
                       ELSE IF q[i] \in S THEN Append(go[i - 1], q[i]) ELSE go[i - 1]
    <3> HIDE DEF D
    <3>. QED  BY <1>4, Zenon
  <2> HIDE DEF D, Eqn
  <2>. QED  BY <2>1, <2>2
<1> HIDE DEF Eqn
<1> DEFINE Good(i) == /\ go[i] \in Seq(X)
                      /\ Range(go[i]) = {q[j] : j \in 1 .. i} \cap S
                      /\ Distinct(q) => Distinct(go[i])
           G == {i \in Nat : i <= Len(q) => Good(i)}
<1>7. 0 \in G
  <2>1. Len(<<>>) = 0 /\ <<>> \in Seq(X) /\ 1 .. 0 = {}
    OBVIOUS
  <2>2. Distinct(<<>>)
    BY <2>1 DEF Distinct
  <2>3. {q[j] : j \in 1 .. 0} = {}
    BY <2>1
  <2>. QED  BY <1>6, <2>1, <2>2, <2>3, RangeEmpty
<1>8. ASSUME NEW n \in Nat, n \in G  PROVE n + 1 \in G
  <2>1. SUFFICES ASSUME n + 1 <= Len(q)  PROVE Good(n + 1)
    OBVIOUS
  <2>2. /\ n + 1 \in D /\ n + 1 # 0 /\ (n + 1) - 1 = n /\ n + 1 \in 1 .. Len(q) /\ q[n + 1] \in X
        /\ \A j \in 1 .. n : j \in 1 .. Len(q) /\ j # n + 1
        /\ 1 .. n + 1 = (1 .. n) \cup {n + 1} /\ n <= Len(q)
    BY <1>1, <2>1
  <2>3. Good(n)
    BY <1>8, <2>2
  <2>4. go[n + 1] = IF q[n + 1] \in S THEN Append(go[n], q[n + 1]) ELSE go[n]
    BY <1>6, <2>2
  <2>5. {q[j] : j \in 1 .. n + 1} = {q[j] : j \in 1 .. n} \cup {q[n + 1]}
    BY <2>2
  <2> HIDE DEF D, G
  <2>6. CASE q[n + 1] \notin S
    BY <2>3, <2>4, <2>5, <2>6
  <2>7. CASE q[n + 1] \in S
    <3>1. go[n + 1] \in Seq(X) /\ go[n + 1] = Append(go[n], q[n + 1])
      BY <2>2, <2>3, <2>4, <2>7
    <3>2. Range(go[n + 1]) = Range(go[n]) \cup {q[n + 1]}
      BY <2>2, <2>3, <3>1, RangeAppend
    <3>3. ASSUME Distinct(q)  PROVE Distinct(go[n + 1])
      <4>1. q[n + 1] \notin Range(go[n])
        BY <2>2, <2>3, <3>3 DEF Distinct
      <4>. QED  BY <2>2, <2>3, <3>1, <3>3, <4>1, DistinctAppend
    <3>4. Range(go[n + 1]) = {q[j] : j \in 1 .. n + 1} \cap S
      BY <2>3, <2>5, <2>7, <3>2
    <3>. QED  BY <3>1, <3>3, <3>4
  <2>. QED  BY <2>6, <2>7
<1>9. Nat \subseteq G
  <2> HIDE DEF G
  <2>. QED  BY <1>7, <1>8, SetInduction
<1>10. Good(Len(q))
  <2>1. PICK n \in Nat : n = Len(q)
    BY <1>1
  <2>2. n \in G
    <3> HIDE DEF G
    <3>. QED  BY <1>9
  <2>3. n <= Len(q)
    BY <2>1
  <2>4. Good(n)
    <3> HIDE DEF Good
    <3>. QED  BY <2>2, <2>3
  <2> HIDE DEF Good
  <2>. QED  BY <2>1, <2>4
<1>11. Range(q) = {q[j] : j \in 1 .. Len(q)}
  BY <1>1 DEF Range
<1>. QED  BY <1>5, <1>10, <1>11

\* Waking a descriptor puts it into the list once.
LEMMA WokenResult ==
    ASSUME NEW X, NEW q \in Seq(X), NEW f \in X
    PROVE  /\ Woken(q, f) \in Seq(X)
           /\ Range(Woken(q, f)) = Range(q) \cup {f}
           /\ Distinct(q) => Distinct(Woken(q, f))
<1>1. CASE f \in Range(q)
  BY <1>1 DEF Woken
<1>2. CASE f \notin Range(q)
  BY <1>2, RangeAppend, DistinctAppend DEF Woken
<1>. QED  BY <1>1, <1>2

-----------------------------------------------------------------------------
(* Clients.                                                                 *)

Watched == Fds \cup {Listen}

LEMMA ListenIsNoFd == Listen \notin Fds /\ Listen \in Watched /\ Fds \subseteq Watched
BY FdsAssumption DEF Listen, Watched

LEMMA InitInv == Init => EpollInv
<1> SUFFICES ASSUME Init  PROVE EpollInv
  OBVIOUS
<1>1. Open = {}
  BY DEF Init, Open
<1>2. TypeOK
  BY SizesAssumption DEF Init, TypeOK, NewConn, Failed
<1>3. Range(<<Listen>>) = {Listen} /\ Len(<<Listen>>) = 1 /\ Len(<<>>) = 0
  BY DEF Range
<1>4. Distinct(<<Listen>>) /\ Distinct(<<>>)
  BY <1>3 DEF Distinct
<1>5. BacklogInv /\ ListsInv
  BY <1>3, <1>4, RangeEmpty DEF Init, BacklogInv, ListsInv
<1>6. FdInv
  BY <1>1 DEF Init, FdInv, NewConn
<1>7. LeftBehind
  BY <1>1 DEF LeftBehind
<1>. QED  BY <1>2, <1>5, <1>6, <1>7 DEF EpollInv

LEMMA ConnectInv ==
    ASSUME EpollInv, NEW c \in Clients, Connect(c)
    PROVE  EpollInv'
<1>1. /\ conn[c].at = "new" /\ Len(backlog) <= ListenQ
      /\ conn' = [conn EXCEPT ![c].at = "queued", ![c].alone = (backlog = <<>>)]
      /\ backlog' = Append(backlog, c) /\ ready' = Woken(ready, Listen)
      /\ status' = status /\ fd' = fd /\ batch' = batch
  BY DEF Connect
<1>2. /\ conn'[c].at = "queued" /\ conn'[c].unread = conn[c].unread /\ conn'[c].end = conn[c].end
      /\ conn'[c].last = conn[c].last
      /\ \A d \in Clients : d # c => conn'[d] = conn[d]
  BY <1>1 DEF EpollInv, TypeOK
<1>3. backlog \in Seq(Clients) /\ ready \in Seq(Watched) /\ batch \in Seq(Watched)
  BY DEF EpollInv, TypeOK, Watched
<1>4. c \notin Range(backlog)
  BY <1>1 DEF EpollInv, BacklogInv
<1>5. BacklogInv'
  <2>1. Distinct(backlog') /\ Range(backlog') = Range(backlog) \cup {c}
    BY <1>1, <1>3, <1>4, RangeAppend, DistinctAppend DEF EpollInv, BacklogInv
  <2>2. Range(backlog) \subseteq Clients
    BY <1>3, RangeType
  <2>. QED  BY <1>2, <2>1, <2>2 DEF EpollInv, BacklogInv
<1>6. Open' = Open /\ \A f \in Open : fd[f] \in Clients /\ fd[f] # c
  BY <1>1 DEF Open, EpollInv, FdInv, TypeOK
<1>kept. \A f \in Open : conn'[fd'[f]] = conn[fd[f]]
  BY <1>1, <1>2, <1>6
<1>7. FdInv'
  <2>1. \A d \in Clients : conn'[d].at = "open" => conn[d].at = "open"
    BY <1>2
  <2>. QED  BY <1>1, <1>6, <1>kept, <2>1 DEF EpollInv, FdInv
<1>8. /\ ready' \in Seq(Watched) /\ Range(ready') = Range(ready) \cup {Listen} /\ Distinct(ready')
  <2>1. Distinct(ready)
    BY DEF EpollInv, ListsInv
  <2>. QED  BY <1>1, <1>3, <2>1, ListenIsNoFd, WokenResult, ZenonT(40)
<1>9. backlog' # <<>>
  <2>1. backlog \in Seq(Clients) /\ backlog' = Append(backlog, c)
    BY <1>1, <1>3
  <2>2. Len(backlog') = Len(backlog) + 1 /\ Len(backlog) \in Nat
    BY <2>1
  <2>3. Len(backlog') # 0
    BY <2>2
  <2>. QED  BY <2>3, SMTT(30)
<1>10. ListsInv'
  <2>1. \A f \in Range(batch) : Pending(f)'
    BY <1>1, <1>2, <1>6, <1>9, ZenonT(60) DEF EpollInv, ListsInv, Pending, HasInput
  <2>. QED  BY <1>1, <1>6, <1>8, <2>1 DEF EpollInv, ListsInv
<1>11. LeftBehind'
  BY <1>1, <1>6, <1>kept, <1>8 DEF EpollInv, LeftBehind
<1>12. TypeOK'
  <2>1. conn' \in [Clients -> [at : {"new", "queued", "open", "closed"},
                               unread : 0 .. Window, end : {"no", "fin", "rst", "err"},
                               last : Failed .. MaxLine, alone : BOOLEAN]]
    <3>1. PICK a \in BOOLEAN : a = (backlog = <<>>)
      OBVIOUS
    <3>2. conn' = [conn EXCEPT ![c].at = "queued", ![c].alone = a]
      BY <1>1, <3>1
    <3>. QED  BY <3>2, ZenonT(60) DEF EpollInv, TypeOK
  <2>2. backlog' \in Seq(Clients) /\ Len(backlog') <= ListenQ + 1
    BY <1>1, <1>3, SizesAssumption
  <2>. QED  BY <1>1, <1>8, <2>1, <2>2 DEF EpollInv, TypeOK, Watched
<1>. QED  BY <1>5, <1>7, <1>10, <1>11, <1>12 DEF EpollInv

\* More input, or the end, on one connection.
LEMMA ArrivesInv ==
    ASSUME EpollInv, NEW c \in Clients, Arrives(c),
           conn'[c].at = conn[c].at, HasInput(c)',
           \A d \in Clients : d # c => conn'[d] = conn[d],
           conn' \in [Clients -> [at : {"new", "queued", "open", "closed"},
                                  unread : 0 .. Window, end : {"no", "fin", "rst", "err"},
                                  last : Failed .. MaxLine, alone : BOOLEAN]]
    PROVE  EpollInv'
<1>1. /\ conn[c].at \in {"queued", "open"}
      /\ status' = status /\ backlog' = backlog /\ fd' = fd /\ batch' = batch
  BY DEF Arrives
<1>2. backlog \in Seq(Clients) /\ ready \in Seq(Watched) /\ batch \in Seq(Watched)
  BY DEF EpollInv, TypeOK, Watched
<1>3. Open' = Open /\ Open \subseteq Fds /\ \A f \in Open : fd[f] \in Clients
  BY <1>1 DEF Open, EpollInv, TypeOK
<1>4. /\ ready' \in Seq(Watched) /\ Distinct(ready')
      /\ Range(ready) \subseteq Range(ready') /\ Range(ready') \subseteq Open \cup {Listen}
      /\ \A f \in Open : fd[f] = c => f \in Range(ready')
  <2>1. CASE conn[c].at = "queued"
    BY <1>2, <1>3, <2>1 DEF EpollInv, FdInv, ListsInv, Arrives
  <2>2. CASE conn[c].at = "open"
    <3>1. \E f \in Open : fd[f] = c
      BY <2>2 DEF EpollInv, FdInv
    <3>2. PICK g : g = CHOOSE f \in Open : fd[f] = c
      OBVIOUS
    <3>3. g \in Open /\ fd[g] = c
      BY <3>1, <3>2
    <3>4. ready' = Woken(ready, g)
      BY <2>2, <3>2 DEF Arrives
    <3>5. g \in Watched
      BY <1>3, <3>3 DEF Watched
    <3>6. ready' \in Seq(Watched) /\ Distinct(ready') /\ Range(ready') = Range(ready) \cup {g}
      BY <1>2, <3>4, <3>5, WokenResult, SMTT(30) DEF EpollInv, ListsInv
    <3>7. \A f \in Open : fd[f] = c => f = g
      BY <3>3 DEF EpollInv, FdInv
    <3>. QED  BY <3>3, <3>6, <3>7 DEF EpollInv, ListsInv
  <2>. QED  BY <1>1, <2>1, <2>2
<1>5. BacklogInv'
  <2>1. Range(backlog) \subseteq Clients
    BY <1>2, RangeType
  <2>. QED  BY <1>1, <2>1 DEF EpollInv, BacklogInv
<1>6. FdInv'
  BY <1>1, <1>3 DEF EpollInv, FdInv
<1>7. \A f \in Range(batch) : Pending(f)'
  BY <1>1, <1>3 DEF EpollInv, ListsInv, Pending, HasInput
<1>8. ListsInv'
  BY <1>1, <1>3, <1>4, <1>7 DEF EpollInv, ListsInv
<1>9. LeftBehind'
  BY <1>1, <1>3, <1>4 DEF EpollInv, LeftBehind
<1>10. TypeOK'
  BY <1>1, <1>4 DEF EpollInv, TypeOK, Watched
<1>. QED  BY <1>5, <1>6, <1>8, <1>9, <1>10 DEF EpollInv

LEMMA SendInv ==
    ASSUME EpollInv, NEW c \in Clients, NEW n \in 1 .. Window - conn[c].unread, Send(c, n)
    PROVE  EpollInv'
<1>1. Arrives(c) /\ conn' = [conn EXCEPT ![c].unread = @ + n]
  BY DEF Send
<1>2. conn[c].unread \in 0 .. Window /\ Window \in Nat
  BY SizesAssumption DEF EpollInv, TypeOK
<1>3. conn[c].unread + n \in 0 .. Window /\ conn[c].unread + n > 0
  BY <1>2
<1>4. /\ conn'[c].at = conn[c].at /\ conn'[c].unread = conn[c].unread + n
      /\ \A d \in Clients : d # c => conn'[d] = conn[d]
  BY <1>1 DEF EpollInv, TypeOK
<1>5. conn' \in [Clients -> [at : {"new", "queued", "open", "closed"},
                             unread : 0 .. Window, end : {"no", "fin", "rst", "err"},
                             last : Failed .. MaxLine, alone : BOOLEAN]]
  BY <1>1, <1>3, ZenonT(60) DEF EpollInv, TypeOK
<1>6. HasInput(c)'
  BY <1>3, <1>4 DEF HasInput
<1>. QED  BY <1>1, <1>4, <1>5, <1>6, ArrivesInv

LEMMA EndInv ==
    ASSUME EpollInv, NEW c \in Clients, NEW how \in {"fin", "rst", "err"}, End(c, how)
    PROVE  EpollInv'
<1>1. Arrives(c) /\ conn' = [conn EXCEPT ![c].end = how]
  BY DEF End
<1>2. /\ conn'[c].at = conn[c].at /\ conn'[c].end = how
      /\ \A d \in Clients : d # c => conn'[d] = conn[d]
  BY <1>1 DEF EpollInv, TypeOK
<1>3. conn' \in [Clients -> [at : {"new", "queued", "open", "closed"},
                             unread : 0 .. Window, end : {"no", "fin", "rst", "err"},
                             last : Failed .. MaxLine, alone : BOOLEAN]]
  BY <1>1 DEF EpollInv, TypeOK
<1>4. HasInput(c)'
  BY <1>2 DEF HasInput
<1>. QED  BY <1>1, <1>2, <1>3, <1>4, ArrivesInv

-----------------------------------------------------------------------------
(* The server.                                                              *)

\* Nothing of the lists, connections and descriptors changes.
LEMMA SameInv ==
    ASSUME EpollInv, status' \in {"starting", "up", "exit"},
           UNCHANGED <<backlog, conn, fd, ready, batch>>
    PROVE  EpollInv'
BY DEF EpollInv, TypeOK, BacklogInv, FdInv, ListsInv, LeftBehind, Open, Pending, HasInput

LEMMA EpollWaitInv ==
    ASSUME EpollInv, EpollWait
    PROVE  EpollInv'
<1>1. PICK live : live = Keep(ready, {f \in Range(ready) : Pending(f)})
  OBVIOUS
<1>2. PICK n : n = IF Len(live) < MaxEvents THEN Len(live) ELSE MaxEvents
  OBVIOUS
<1>3. /\ batch' = SubSeq(live, 1, n) /\ ready' = SubSeq(live, n + 1, Len(live))
      /\ batch = <<>>
      /\ status' = status /\ backlog' = backlog /\ conn' = conn /\ fd' = fd
  BY <1>1, <1>2 DEF EpollWait
<1>4. ready \in Seq(Watched) /\ Distinct(ready)
  BY DEF EpollInv, TypeOK, ListsInv, Watched
<1>5. /\ live \in Seq(Watched) /\ Distinct(live)
      /\ Range(live) = {f \in Range(ready) : Pending(f)}
  BY <1>1, <1>4, KeepResult
<1>6. n \in 0 .. Len(live)
  BY <1>2, <1>5, SizesAssumption
<1>7. /\ batch' \in Seq(Watched) /\ ready' \in Seq(Watched)
      /\ Range(batch') \cup Range(ready') = Range(live)
      /\ Distinct(batch') /\ Distinct(ready')
  BY <1>3, <1>5, <1>6, QueueSplit
<1>8. Open' = Open /\ \A f : Pending(f)' <=> Pending(f)
  BY <1>3 DEF Open, Pending, HasInput
<1>9. TypeOK' /\ BacklogInv' /\ FdInv'
  BY <1>3, <1>7, <1>8 DEF EpollInv, TypeOK, BacklogInv, FdInv, Watched
<1>10. ListsInv'
  BY <1>5, <1>7, <1>8 DEF EpollInv, ListsInv
<1>11. LeftBehind'
  <2>1. SUFFICES ASSUME NEW f \in Open, f \notin Range(ready') \cup Range(batch'),
                        conn[fd[f]].last # Failed
                 PROVE  /\ conn[fd[f]].unread > 0 => conn[fd[f]].last = MaxLine
                        /\ conn[fd[f]].end # "no" => conn[fd[f]].last > 0
    BY <1>3, <1>8 DEF LeftBehind
  <2>2. CASE f \in Range(ready)
    <3>1. ~Pending(f) /\ f # Listen
      BY <1>5, <1>7, <2>1, <2>2, ListenIsNoFd DEF Open
    <3>. QED  BY <3>1 DEF Pending, HasInput
  <2>3. CASE f \notin Range(ready)
    BY <1>3, <2>1, <2>3, RangeEmpty DEF EpollInv, LeftBehind
  <2>. QED  BY <2>2, <2>3
<1>. QED  BY <1>9, <1>10, <1>11 DEF EpollInv

\* The descriptor whose event is handled leaves the batch, which had it once.
LEMMA HandledOnce ==
    ASSUME EpollInv, NEW f, Event(f)
    PROVE  /\ Tail(batch) \in Seq(Watched) /\ Distinct(Tail(batch))
           /\ Range(batch) = Range(Tail(batch)) \cup {f} /\ f \notin Range(Tail(batch))
           /\ f \in Open \cup {Listen} /\ Pending(f)
<1>1. batch \in Seq(Watched) /\ batch # <<>> /\ Head(batch) = f /\ Distinct(batch)
  BY DEF EpollInv, TypeOK, ListsInv, Event, Watched
<1>2. Tail(batch) \in Seq(Watched)
  BY <1>1
<1>3. Range(batch) = Range(Tail(batch)) \cup {f}
  BY <1>1, RangeTail
<1>4. Distinct(Tail(batch)) /\ f \notin Range(Tail(batch))
  BY <1>1, DistinctTail
<1>. QED  BY <1>2, <1>3, <1>4 DEF EpollInv, ListsInv

LEMMA LowestIsFree ==
    ASSUME Open # Fds
    PROVE  LowestFd \in Fds \ Open
<1>1. Fds \ Open # {} /\ Fds \ Open \in SUBSET Nat
  BY FdsAssumption DEF Open
<1>2. \E f \in Fds \ Open : \A g \in Fds \ Open : f <= g
  BY <1>1, LeastNatural
<1>. QED  BY <1>2, Zenon DEF LowestFd

LEMMA AcceptInv ==
    ASSUME EpollInv, Accept
    PROVE  EpollInv'
<1>1. PICK f : f = LowestFd
  OBVIOUS
<1>2. PICK c : c = Head(backlog)
  OBVIOUS
<1>3. /\ Event(Listen) /\ backlog # <<>> /\ Open # Fds
      /\ batch' = Tail(batch) /\ backlog' = Tail(backlog) /\ status' = status
      /\ fd' = [fd EXCEPT ![f] = c] /\ conn' = [conn EXCEPT ![c].at = "open"]
      /\ ready' = IF HasInput(c) THEN Append(ready, f) ELSE ready
  BY <1>1, <1>2 DEF Accept
<1>4. f \in Fds \ Open
  BY <1>1, <1>3, LowestIsFree
<1>5. /\ Tail(batch) \in Seq(Watched) /\ Distinct(Tail(batch))
      /\ Range(batch) = Range(Tail(batch)) \cup {Listen} /\ Listen \notin Range(Tail(batch))
  BY <1>3, HandledOnce
<1>6. backlog \in Seq(Clients) /\ ready \in Seq(Watched) /\ c \in Clients /\ c # None
  BY <1>2, <1>3, ClientsAssumption, SMTT(30) DEF EpollInv, TypeOK, Watched
<1>7. /\ backlog' \in Seq(Clients) /\ Len(backlog') <= ListenQ + 1
      /\ Distinct(backlog') /\ Range(backlog) = Range(backlog') \cup {c} /\ c \notin Range(backlog')
  <2>1. Tail(backlog) \in Seq(Clients) /\ Len(Tail(backlog)) = Len(backlog) - 1
    BY <1>3, <1>6
  <2>2. Distinct(backlog)
    BY DEF EpollInv, BacklogInv
  <2>3. Range(backlog) = Range(Tail(backlog)) \cup {c}
    BY <1>2, <1>3, <1>6, RangeTail
  <2>4. Distinct(Tail(backlog)) /\ c \notin Range(Tail(backlog))
    BY <1>2, <1>3, <1>6, <2>2, DistinctTail
  <2>5. Len(backlog) \in Nat /\ Len(backlog) <= ListenQ + 1
    BY <1>6 DEF EpollInv, TypeOK
  <2>6. Len(Tail(backlog)) <= ListenQ + 1
    BY <2>1, <2>5, SizesAssumption
  <2>. QED  BY <1>3, <2>1, <2>3, <2>4, <2>6
<1>8. conn[c].at = "queued"
  BY <1>7 DEF EpollInv, BacklogInv
<1>9. /\ conn'[c].at = "open" /\ conn'[c].unread = conn[c].unread
      /\ conn'[c].end = conn[c].end /\ conn'[c].last = conn[c].last
      /\ \A d \in Clients : d # c => conn'[d] = conn[d]
  BY <1>3, <1>6 DEF EpollInv, TypeOK
<1>10. fd'[f] = c /\ \A g \in Fds : g # f => fd'[g] = fd[g]
  BY <1>3, <1>4 DEF EpollInv, TypeOK
<1>11. Open' = Open \cup {f} /\ Open \subseteq Fds
  BY <1>4, <1>6, <1>10 DEF Open
<1>12. \A g \in Open : g # f /\ fd[g] \in Clients /\ fd[g] # c /\ fd'[g] = fd[g] /\ conn'[fd'[g]] = conn[fd[g]]
  <2>1. \A g \in Open : g # f /\ fd[g] \in Clients /\ fd[g] # c
    BY <1>4, <1>8 DEF EpollInv, TypeOK, FdInv, Open
  <2>. QED  BY <1>9, <1>10, <1>11, <2>1
<1>13. BacklogInv'
  <2>1. Range(backlog') \subseteq Clients
    BY <1>7, RangeType
  <2>. QED  BY <1>7, <1>9, <2>1 DEF EpollInv, BacklogInv
<1>14. FdInv'
  <2>1. \A g \in Open' : conn'[fd'[g]].at = "open"
    BY <1>9, <1>10, <1>11, <1>12 DEF EpollInv, FdInv
  <2>2. \A g, h \in Open' : fd'[g] = fd'[h] => g = h
    BY <1>10, <1>11, <1>12 DEF EpollInv, FdInv
  <2>3. ASSUME NEW d \in Clients, conn'[d].at = "open"  PROVE \E g \in Open' : fd'[g] = d
    <3>1. CASE d = c
      BY <1>10, <1>11, <3>1
    <3>2. CASE d # c
      <4>1. PICK g \in Open : fd[g] = d
        BY <1>9, <2>3, <3>2 DEF EpollInv, FdInv
      <4>. QED  BY <1>11, <1>12, <4>1
    <3>. QED  BY <3>1, <3>2
  <2>. QED  BY <2>1, <2>2, <2>3 DEF FdInv
<1>15. /\ ready' \in Seq(Watched) /\ Distinct(ready')
       /\ Range(ready') = IF HasInput(c) THEN Range(ready) \cup {f} ELSE Range(ready)
  <2>1. f \in Watched /\ f # Listen
    BY <1>4, ListenIsNoFd
  <2>2. Distinct(ready) /\ f \notin Range(ready)
    BY <1>4, <2>1 DEF EpollInv, ListsInv
  <2>3. CASE HasInput(c)
    <3>1. ready' = Append(ready, f)
      BY <1>3, <2>3
    <3>2. Append(ready, f) \in Seq(Watched)
      BY <1>6, <2>1
    <3>3. Range(Append(ready, f)) = Range(ready) \cup {f}
      BY <1>6, <2>1, RangeAppend
    <3>4. Distinct(Append(ready, f))
      BY <1>6, <2>1, <2>2, DistinctAppend
    <3>. QED  BY <2>3, <3>1, <3>2, <3>3, <3>4
  <2>4. CASE ~HasInput(c)
    BY <1>3, <1>6, <2>2, <2>4
  <2>. QED  BY <2>3, <2>4
<1>16. ListsInv'
  <2>1. \A g \in Range(Tail(batch)) : g \in Open /\ g # Listen /\ Pending(g)
    BY <1>5 DEF EpollInv, ListsInv
  <2>2. \A g \in Range(Tail(batch)) : Pending(g)'
    BY <1>12, <2>1 DEF Pending, HasInput
  <2>3. Range(ready') \subseteq Open' \cup {Listen}
    BY <1>11, <1>15 DEF EpollInv, ListsInv
  <2>. QED  BY <1>3, <1>5, <1>11, <1>15, <2>1, <2>2, <2>3 DEF ListsInv
<1>17. LeftBehind'
  <2>1. SUFFICES ASSUME NEW g \in Open', g \notin Range(ready') \cup Range(batch'),
                        conn'[fd'[g]].last # Failed
                 PROVE  /\ conn'[fd'[g]].unread > 0 => conn'[fd'[g]].last = MaxLine
                        /\ conn'[fd'[g]].end # "no" => conn'[fd'[g]].last > 0
    BY DEF LeftBehind
  <2>2. CASE g = f
    <3>1. ~HasInput(c)
      BY <1>15, <2>1, <2>2
    <3>. QED  BY <1>9, <1>10, <2>2, <3>1 DEF HasInput
  <2>3. CASE g # f
    <3>1. g \in Open /\ g # Listen
      BY <1>11, <2>3, ListenIsNoFd
    <3>2. g \notin Range(ready) \cup Range(batch)
      BY <1>3, <1>5, <1>15, <2>1, <3>1
    <3>. QED  BY <1>12, <2>1, <3>1, <3>2 DEF EpollInv, LeftBehind
  <2>. QED  BY <2>2, <2>3
<1>18. TypeOK'
  <2>1. conn' \in [Clients -> [at : {"new", "queued", "open", "closed"},
                               unread : 0 .. Window, end : {"no", "fin", "rst", "err"},
                               last : Failed .. MaxLine, alone : BOOLEAN]]
    BY <1>3, ZenonT(40) DEF EpollInv, TypeOK
  <2>2. fd' \in [Fds -> Clients \cup {None}]
    BY <1>3, <1>6 DEF EpollInv, TypeOK
  <2>. QED  BY <1>3, <1>5, <1>7, <1>15, <2>1, <2>2 DEF EpollInv, TypeOK, Watched
<1>. QED  BY <1>13, <1>14, <1>16, <1>17, <1>18 DEF EpollInv

LEMMA ReadBytesInv ==
    ASSUME EpollInv, NEW f \in Fds, ReadBytes(f)
    PROVE  EpollInv'
<1>1. PICK c : c = fd[f]
  OBVIOUS
<1>2. PICK n : n = Taken(conn[c].unread)
  OBVIOUS
<1>u. PICK u : u = conn[c].unread - n
  OBVIOUS
<1>3. /\ Event(f) /\ conn[c].unread > 0 /\ batch' = Tail(batch)
      /\ conn' = [conn EXCEPT ![c].unread = u, ![c].last = n]
      /\ status' = status /\ backlog' = backlog /\ fd' = fd /\ ready' = ready
  BY <1>1, <1>2, <1>u DEF ReadBytes
<1>4. /\ Tail(batch) \in Seq(Watched) /\ Distinct(Tail(batch))
      /\ Range(batch) = Range(Tail(batch)) \cup {f} /\ f \notin Range(Tail(batch))
      /\ f \in Open
  BY <1>3, HandledOnce, ListenIsNoFd
<1>5. Open' = Open /\ Open \subseteq Fds /\ \A g \in Open : fd[g] \in Clients
  BY <1>3 DEF Open, EpollInv, TypeOK
<1>6. c \in Clients /\ conn[c].unread \in 0 .. Window /\ conn[c].unread \in Nat /\ Window \in Nat
  BY <1>1, <1>4, <1>5, SizesAssumption DEF EpollInv, TypeOK
<1>7. /\ n \in 1 .. MaxLine /\ n \in Failed .. MaxLine /\ n > 0 /\ u \in 0 .. Window
      /\ u > 0 => n = MaxLine
  BY <1>2, <1>u, <1>3, <1>6, SizesAssumption DEF Taken, Failed
<1>8. /\ conn'[c].at = conn[c].at /\ conn'[c].unread = u
      /\ conn'[c].end = conn[c].end /\ conn'[c].last = n
      /\ \A d \in Clients : d # c => conn'[d] = conn[d]
  BY <1>3, <1>6 DEF EpollInv, TypeOK
<1>9. \A g \in Open : g # f => fd[g] # c /\ conn'[fd[g]] = conn[fd[g]]
  BY <1>1, <1>4, <1>5, <1>8 DEF EpollInv, FdInv
<1>10. BacklogInv'
  <2>1. Range(backlog) \subseteq Clients
    BY RangeType DEF EpollInv, TypeOK
  <2>2. \A d \in Clients : conn'[d].at = conn[d].at
    BY <1>8
  <2>. QED  BY <1>3, <2>1, <2>2 DEF EpollInv, BacklogInv
<1>11. FdInv'
  <2>1. \A d \in Clients : conn'[d].at = conn[d].at
    BY <1>8
  <2>. QED  BY <1>3, <1>5, <2>1 DEF EpollInv, FdInv
<1>12. ListsInv'
  <2>1. \A g \in Range(Tail(batch)) : g # f /\ g \in Open \cup {Listen} /\ Pending(g)
    BY <1>4 DEF EpollInv, ListsInv
  <2>2. \A g \in Range(Tail(batch)) : Pending(g)'
    BY <1>3, <1>9, <2>1 DEF Pending, HasInput
  <2>. QED  BY <1>3, <1>4, <1>5, <2>1, <2>2 DEF EpollInv, ListsInv
<1>13. LeftBehind'
  <2>1. SUFFICES ASSUME NEW g \in Open, g \notin Range(ready) \cup Range(Tail(batch)),
                        conn'[fd[g]].last # Failed
                 PROVE  /\ conn'[fd[g]].unread > 0 => conn'[fd[g]].last = MaxLine
                        /\ conn'[fd[g]].end # "no" => conn'[fd[g]].last > 0
    BY <1>3, <1>5 DEF LeftBehind
  <2>2. CASE g = f
    BY <1>1, <1>7, <1>8, <2>2
  <2>3. CASE g # f
    BY <1>4, <1>9, <2>1, <2>3 DEF EpollInv, LeftBehind
  <2>. QED  BY <2>2, <2>3
<1>14. TypeOK'
  <2>1. conn' \in [Clients -> [at : {"new", "queued", "open", "closed"},
                               unread : 0 .. Window, end : {"no", "fin", "rst", "err"},
                               last : Failed .. MaxLine, alone : BOOLEAN]]
    BY <1>3, <1>6, <1>7, ZenonT(60) DEF EpollInv, TypeOK
  <2>. QED  BY <1>3, <1>4, <2>1 DEF EpollInv, TypeOK, Watched
<1>. QED  BY <1>10, <1>11, <1>12, <1>13, <1>14 DEF EpollInv

LEMMA ReadEndInv ==
    ASSUME EpollInv, NEW f \in Fds, ReadEnd(f)
    PROVE  EpollInv'
<1>1. PICK c : c = fd[f]
  OBVIOUS
<1>2. /\ Event(f) /\ batch' = Tail(batch)
      /\ conn' = [conn EXCEPT ![c].at = "closed", ![c].last = 0]
      /\ fd' = [fd EXCEPT ![f] = None]
      /\ ready' = Keep(ready, Range(ready) \ {f})
      /\ status' = status /\ backlog' = backlog
  BY <1>1 DEF ReadEnd
<1>3. /\ Tail(batch) \in Seq(Watched) /\ Distinct(Tail(batch))
      /\ Range(batch) = Range(Tail(batch)) \cup {f} /\ f \notin Range(Tail(batch))
      /\ f \in Open /\ f # Listen
  BY <1>2, HandledOnce, ListenIsNoFd
<1>4. fd'[f] = None /\ \A g \in Fds : g # f => fd'[g] = fd[g]
  BY <1>2 DEF EpollInv, TypeOK
<1>5. Open' = Open \ {f} /\ Open \subseteq Fds /\ \A g \in Open : fd[g] \in Clients
  BY <1>4 DEF Open, EpollInv, TypeOK
<1>6. c \in Clients /\ conn[c].at = "open"
  BY <1>1, <1>3, <1>5 DEF EpollInv, FdInv
<1>7. /\ conn'[c].at = "closed"
      /\ \A d \in Clients : d # c => conn'[d] = conn[d]
  BY <1>2, <1>6 DEF EpollInv, TypeOK
<1>8. \A g \in Open : g # f => fd[g] # c /\ fd'[g] = fd[g] /\ conn'[fd'[g]] = conn[fd[g]]
  <2>1. \A g \in Open : g # f => fd[g] # c
    BY <1>1, <1>3 DEF EpollInv, FdInv
  <2>. QED  BY <1>4, <1>5, <1>7, <2>1
<1>9. BacklogInv'
  <2>1. Range(backlog) \subseteq Clients
    BY RangeType DEF EpollInv, TypeOK
  <2>2. c \notin Range(backlog)
    BY <1>6 DEF EpollInv, BacklogInv
  <2>. QED  BY <1>2, <1>7, <2>1, <2>2 DEF EpollInv, BacklogInv
<1>10. FdInv'
  <2>1. \A g \in Open' : conn'[fd'[g]].at = "open"
    BY <1>5, <1>8 DEF EpollInv, FdInv
  <2>2. \A g, h \in Open' : fd'[g] = fd'[h] => g = h
    BY <1>5, <1>8 DEF EpollInv, FdInv
  <2>3. ASSUME NEW d \in Clients, conn'[d].at = "open"  PROVE \E g \in Open' : fd'[g] = d
    <3>1. d # c /\ conn[d].at = "open"
      BY <1>7, <2>3
    <3>2. PICK g \in Open : fd[g] = d
      BY <3>1 DEF EpollInv, FdInv
    <3>3. g # f
      BY <1>1, <3>1, <3>2
    <3>. QED  BY <1>5, <1>8, <3>2, <3>3
  <2>. QED  BY <2>1, <2>2, <2>3 DEF FdInv
<1>11. ready' \in Seq(Watched) /\ Distinct(ready') /\ Range(ready') = Range(ready) \ {f}
  <2>1. ready \in Seq(Watched) /\ Distinct(ready)
    BY DEF EpollInv, TypeOK, ListsInv, Watched
  <2>2. Range(ready') = Range(ready) \cap (Range(ready) \ {f})
    BY <1>2, <2>1, KeepResult
  <2>3. ready' \in Seq(Watched) /\ Distinct(ready')
    BY <1>2, <2>1, KeepResult
  <2>. QED  BY <2>2, <2>3
<1>12. ListsInv'
  <2>1. \A g \in Range(Tail(batch)) : g # f /\ g \in Open \cup {Listen} /\ Pending(g)
    BY <1>3 DEF EpollInv, ListsInv
  <2>2. \A g \in Range(Tail(batch)) : Pending(g)'
    BY <1>2, <1>8, <2>1 DEF Pending, HasInput
  <2>. QED  BY <1>2, <1>3, <1>5, <1>11, <2>1, <2>2 DEF EpollInv, ListsInv
<1>13. LeftBehind'
  <2>1. SUFFICES ASSUME NEW g \in Open', g \notin Range(ready') \cup Range(batch'),
                        conn'[fd'[g]].last # Failed
                 PROVE  /\ conn'[fd'[g]].unread > 0 => conn'[fd'[g]].last = MaxLine
                        /\ conn'[fd'[g]].end # "no" => conn'[fd'[g]].last > 0
    BY DEF LeftBehind
  <2>2. g \in Open /\ g # f /\ g \notin Range(ready) \cup Range(batch)
    BY <1>2, <1>3, <1>5, <1>11, <2>1
  <2>. QED  BY <1>8, <2>1, <2>2 DEF EpollInv, LeftBehind
<1>14. TypeOK'
  <2>1. conn' \in [Clients -> [at : {"new", "queued", "open", "closed"},
                               unread : 0 .. Window, end : {"no", "fin", "rst", "err"},
                               last : Failed .. MaxLine, alone : BOOLEAN]]
    <3>1. 0 \in Failed .. MaxLine
      BY SizesAssumption DEF Failed
    <3>. QED  BY <1>2, <1>6, <3>1, ZenonT(60) DEF EpollInv, TypeOK
  <2>2. fd' \in [Fds -> Clients \cup {None}]
    BY <1>2 DEF EpollInv, TypeOK
  <2>. QED  BY <1>2, <1>3, <1>11, <2>1, <2>2 DEF EpollInv, TypeOK, Watched
<1>. QED  BY <1>9, <1>10, <1>12, <1>13, <1>14 DEF EpollInv

\* A read that fails takes the event and leaves all else where it is.
LEMMA ReadFailsInv ==
    ASSUME EpollInv, NEW f \in Fds, ReadFails(f)
    PROVE  EpollInv'
<1>1. PICK c : c = fd[f]
  OBVIOUS
<1>3. /\ Event(f) /\ batch' = Tail(batch)
      /\ conn' = [conn EXCEPT ![c].last = Failed]
      /\ status' = status /\ backlog' = backlog /\ fd' = fd /\ ready' = ready
  BY <1>1 DEF ReadFails
<1>4. /\ Tail(batch) \in Seq(Watched) /\ Distinct(Tail(batch))
      /\ Range(batch) = Range(Tail(batch)) \cup {f} /\ f \notin Range(Tail(batch))
      /\ f \in Open
  BY <1>3, HandledOnce, ListenIsNoFd
<1>5. Open' = Open /\ Open \subseteq Fds /\ \A g \in Open : fd[g] \in Clients
  BY <1>3 DEF Open, EpollInv, TypeOK
<1>6. c \in Clients
  BY <1>1, <1>4, <1>5
<1>8. /\ conn'[c].last = Failed
      /\ \A d \in Clients : d # c => conn'[d] = conn[d]
      /\ \A d \in Clients : /\ conn'[d].at = conn[d].at
                            /\ conn'[d].unread = conn[d].unread /\ conn'[d].end = conn[d].end
  BY <1>3, <1>6 DEF EpollInv, TypeOK
<1>10. BacklogInv'
  <2>1. Range(backlog) \subseteq Clients
    BY RangeType DEF EpollInv, TypeOK
  <2>. QED  BY <1>3, <1>8, <2>1 DEF EpollInv, BacklogInv
<1>11. FdInv'
  BY <1>3, <1>5, <1>8 DEF EpollInv, FdInv
<1>12. ListsInv'
  <2>1. \A g \in Range(Tail(batch)) : g \in Open \cup {Listen} /\ Pending(g)
    BY <1>4 DEF EpollInv, ListsInv
  <2>2. \A g \in Range(Tail(batch)) : Pending(g)'
    BY <1>3, <1>5, <1>8, <2>1 DEF Pending, HasInput
  <2>. QED  BY <1>3, <1>4, <1>5, <2>1, <2>2 DEF EpollInv, ListsInv
<1>13. LeftBehind'
  <2>1. SUFFICES ASSUME NEW g \in Open, g \notin Range(ready) \cup Range(Tail(batch)),
                        conn'[fd[g]].last # Failed
                 PROVE  /\ conn'[fd[g]].unread > 0 => conn'[fd[g]].last = MaxLine
                        /\ conn'[fd[g]].end # "no" => conn'[fd[g]].last > 0
    BY <1>3, <1>5 DEF LeftBehind
  <2>2. fd[g] # c /\ g # f /\ conn'[fd[g]] = conn[fd[g]]
    BY <1>1, <1>5, <1>8, <2>1
  <2>. QED  BY <1>4, <2>1, <2>2 DEF EpollInv, LeftBehind
<1>14. TypeOK'
  <2>1. Failed \in Failed .. MaxLine
    BY SizesAssumption DEF Failed
  <2>2. conn' \in [Clients -> [at : {"new", "queued", "open", "closed"},
                               unread : 0 .. Window, end : {"no", "fin", "rst", "err"},
                               last : Failed .. MaxLine, alone : BOOLEAN]]
    BY <1>3, <1>6, <2>1, ZenonT(60) DEF EpollInv, TypeOK
  <2>. QED  BY <1>3, <1>4, <2>2 DEF EpollInv, TypeOK, Watched
<1>. QED  BY <1>10, <1>11, <1>12, <1>13, <1>14 DEF EpollInv

(* Whatever the clients do between two steps of the loop: the lists hold    *)
(* open descriptors only, each once, and the batch only what has input.     *)
THEOREM EpollCorrect == Spec => []EpollInv
<1>1. Init => EpollInv
  BY InitInv
<1>2. EpollInv /\ [Next]_vars => EpollInv'
  <2> SUFFICES ASSUME EpollInv, [Next]_vars  PROVE EpollInv'
    OBVIOUS
  <2>1. CASE Start
    BY <2>1, SameInv DEF Start
  <2>2. CASE EpollWait
    BY <2>2, EpollWaitInv
  <2>3. CASE Accept
    BY <2>3, AcceptInv
  <2>4. CASE AcceptFails
    BY <2>4, SameInv DEF AcceptFails
  <2>5. ASSUME NEW f \in Fds, ReadBytes(f)  PROVE EpollInv'
    BY <2>5, ReadBytesInv
  <2>6. ASSUME NEW f \in Fds, ReadEnd(f)  PROVE EpollInv'
    BY <2>6, ReadEndInv
  <2>7. ASSUME NEW c \in Clients, Connect(c)  PROVE EpollInv'
    BY <2>7, ConnectInv
  <2>8. ASSUME NEW c \in Clients, NEW n \in 1 .. Window - conn[c].unread, Send(c, n)
        PROVE  EpollInv'
    BY <2>8, SendInv
  <2>9. ASSUME NEW c \in Clients, NEW how \in {"fin", "rst", "err"}, End(c, how)  PROVE EpollInv'
    BY <2>9, EndInv
  <2>11. ASSUME NEW f \in Fds, ReadFails(f)  PROVE EpollInv'
    BY <2>11, ReadFailsInv
  <2>10. CASE UNCHANGED vars
    <3>1. status' \in {"starting", "up", "exit"} /\ UNCHANGED <<backlog, conn, fd, ready, batch>>
      BY <2>10 DEF vars, EpollInv, TypeOK
    <3>. QED  BY <3>1, SameInv
  <2>. QED  BY <2>1, <2>2, <2>3, <2>4, <2>5, <2>6, <2>7, <2>8, <2>9, <2>10, <2>11 DEF Next, Server
<1>. QED  BY <1>1, <1>2, PTL DEF Spec

(* accept and read, though blocking, are only called when they have         *)
(* something to return, on a descriptor that is still the one the event was *)
(* reported for.                                                            *)
THEOREM EpollNeverBlocks == Spec => []NeverBlocks
<1>1. EpollInv => NeverBlocks
  <2> SUFFICES ASSUME EpollInv  PROVE NeverBlocks
    OBVIOUS
  <2>1. batch \in Seq(Watched) /\ DOMAIN batch = 1 .. Len(batch)
    BY DEF EpollInv, TypeOK, Watched
  <2>2. \A k \in 1 .. Len(batch) : batch[k] \in Range(batch)
    BY <2>1 DEF Range
  <2>. QED  BY <2>2 DEF EpollInv, ListsInv, NeverBlocks
<1>. QED  BY <1>1, EpollCorrect, PTL

(* Where no read failed, input without an event for it is what a full read *)
(* left, and an ended connection without one is one whose last read found   *)
(* bytes.  A failed read (server.cpp:122) leaves what it leaves.            *)
THEOREM EpollLeftBehind == Spec => []LeftBehind
<1>1. EpollInv => LeftBehind
  BY DEF EpollInv
<1>. QED  BY <1>1, EpollCorrect, PTL

-----------------------------------------------------------------------------
(* MysqlClient.  Its invariants are not inductive: what waits on the        *)
(* connection, and what was reported of the statement under way, has to be  *)
(* known at every point of a call.                                          *)

PcKinds == {"none", "insert", "select", "multi", "bad", "identity"}

Links == [up : BOOLEAN, ready : Nat, more : BOOLEAN, lastId : Nat, value : Nat]

Types ==
    /\ mem \subseteq Handles /\ ctx \in mem \cup {Nil}
    /\ link \in [Handles -> Links]
    /\ pc \in [at : {"idle", "init", "run", "fetch"},
               call : {"none", "exec", "id", "rows", "connect"}, kind : PcKinds]
    /\ issued \in 0 .. MaxStmts
    /\ ran \in [Stmts -> Nat] /\ told \in [Stmts -> {"none", "true", "false"}]
    /\ result \in [live : BOOLEAN, of : Nat, left : 0 .. 1, asked : Nat]
    /\ row \in [ok : BOOLEAN, of : Nat]
    /\ rowId \in Nat /\ others \in Nat /\ lastMine \in Nat /\ answer \in Int

\* A call of mysql_exec is between its start and its return.
Executing == pc.at = "run" \/ (pc.at = "init" /\ pc.call \in {"exec", "id"})

\* A statement that has not been run to its end has not been reported.
Fresher ==
    /\ \A s \in Stmts : s > issued => ran[s] = 0 /\ told[s] = "none"
    /\ Executing => issued \in Stmts /\ ran[issued] = 0 /\ told[issued] = "none"

\* What waits on the connection belongs to the last statement, unless the
\* structure is about to be closed, and nothing waits when a query is sent.
Waiting ==
    ctx # Nil =>
        /\ pc.at \in {"idle", "fetch"} /\ link[ctx].ready # Nil =>
             issued \in Stmts /\ link[ctx].ready = issued /\ told[issued] = "true"
        /\ pc.at = "run" => link[ctx].ready = Nil

\* The identity that the session knows, or has answered, is the client's own.
OwnIds ==
    ctx # Nil =>
        /\ link[ctx].up => link[ctx].lastId \in {0, lastMine}
        /\ pc.at = "fetch" /\ link[ctx].ready # Nil => link[ctx].value \in {0, lastMine}

Reported ==
    /\ result.of # Nil => result.of \in Stmts /\ result.of = result.asked
                          /\ told[result.of] = "true"
    /\ row.ok => row.of \in Stmts /\ told[row.of] = "true"

ClientIInv == Types /\ OneSession /\ RunsOnce /\ Fresher /\ Waiting /\ OwnIds /\ Reported

USE DEF Nil, Stmts, PcKinds, GoOn

\* The states of a connection that the client's steps leave behind.
LEMMA LinkFacts ==
    /\ Broken \in Links /\ ~Broken.up /\ Broken.ready = Nil
    /\ Session \in Links /\ Session.ready = Nil /\ Session.lastId = 0
    /\ \A k \in Links : LET e == Link(k.up, Nil, k.more, k.lastId, k.value) IN
         e \in Links /\ e.up = k.up /\ e.ready = Nil /\ e.lastId = k.lastId
BY DEF Broken, Session, Link, Links

LEMMA ClientStarts == ClientInit => ClientIInv
BY HandlesAssumption, BoundsAssumption, LinkFacts
   DEF ClientInit, ClientIInv, Types, OneSession, RunsOnce, Fresher, Executing, Waiting, OwnIds,
       Reported, Idle, NoResult, NoRow

\* Calls begin.
LEMMA BeginKeeps ==
    ASSUME ClientIInv, NEW kind \in PcKinds, NEW call \in {"exec", "id"}, Begin(call, kind)
    PROVE  ClientIInv'
<1> USE HandlesAssumption, BoundsAssumption DEF ClientIInv, Begin, conns, reads, table
<1>1. Types'
  BY DEF Types, Idle
<1>2. OneSession' /\ RunsOnce' /\ Reported'
  BY DEF OneSession, RunsOnce, Reported
<1>3. Fresher'
  BY DEF Fresher, Executing, Types, Idle
<1>4. Waiting' /\ OwnIds'
  BY DEF Waiting, OwnIds, Types, MustInit, Usable, InSync, Idle
<1>. QED  BY <1>1, <1>2, <1>3, <1>4

LEMMA OtherCallsKeep ==
    ASSUME ClientIInv, mysql_last_affected_rows \/ mysql_connect
    PROVE  ClientIInv'
<1> USE DEF ClientIInv, mysql_last_affected_rows, mysql_connect, conns, record, reads, table
<1>1. Types'
  BY DEF Types, Idle
<1>2. OneSession' /\ RunsOnce' /\ Reported'
  BY DEF OneSession, RunsOnce, Reported
<1>3. Fresher' /\ Waiting' /\ OwnIds'
  BY DEF Fresher, Executing, Waiting, OwnIds, Idle
<1>. QED  BY <1>1, <1>2, <1>3

LEMMA InitCtxKeeps ==
    ASSUME ClientIInv, init_mysql_ctx
    PROVE  ClientIInv'
<1> USE HandlesAssumption DEF ClientIInv
<1>0. /\ pc.at = "init" /\ UNCHANGED <<record, reads, table, answer>>
      /\ pc' = IF pc.call \in {"exec", "id"} THEN GoOn("run") ELSE Idle
  BY DEF init_mysql_ctx
<1> DEFINE Opened ==
      /\ mem' \subseteq Handles /\ ctx' \in mem' \cup {Nil} /\ link' \in [Handles -> Links]
      /\ \A h \in mem' \ {ctx'} : ~link'[h].up
      /\ ctx' # Nil => link'[ctx'].ready = Nil /\ link'[ctx'].lastId = 0
<1>1. Opened
  <2>1. CASE mem' = mem \ {ctx} /\ ctx' = Nil /\ UNCHANGED link
    BY <2>1 DEF Types, OneSession
  <2>2. ASSUME NEW h \in Fresh, mem' = (mem \ {ctx}) \cup {h},
               \/ ctx' = Nil /\ link' = [link EXCEPT ![h] = Broken]
               \/ ctx' = h /\ link' = [link EXCEPT ![h] = Session]
        PROVE  Opened
    BY <2>2, LinkFacts DEF Types, OneSession, Fresh
  <2>. QED  BY <2>1, <2>2 DEF init_mysql_ctx
<1>2. Types'
  BY <1>0, <1>1 DEF Types, Idle, record, reads, table
<1>3. OneSession' /\ RunsOnce' /\ Reported'
  BY <1>0, <1>1 DEF OneSession, RunsOnce, Reported, record, reads, table
<1>4. Fresher'
  BY <1>0 DEF Fresher, Executing, Idle, Types, record
<1>5. Waiting' /\ OwnIds'
  BY <1>0, <1>1 DEF Waiting, OwnIds, Types, Idle, record
<1>. QED  BY <1>2, <1>3, <1>4, <1>5

LEMMA QueryFailsKeeps ==
    ASSUME ClientIInv, QueryFails
    PROVE  ClientIInv'
<1> USE BoundsAssumption DEF ClientIInv, QueryFails, Return, conns, reads, table
<1>0. issued \in Stmts /\ ran[issued] = 0 /\ told[issued] = "none"
  BY DEF Fresher, Executing
<1>1. Types'
  BY <1>0 DEF Types, Idle
<1>2. OneSession' /\ RunsOnce'
  BY <1>0 DEF OneSession, RunsOnce, Types
<1>3. Reported'
  BY <1>0 DEF Reported, Types
<1>4. Fresher'
  BY <1>0 DEF Fresher, Executing, Types, Idle
<1>5. Waiting' /\ OwnIds'
  BY DEF Waiting, OwnIds, Types, Idle
<1>. QED  BY <1>1, <1>2, <1>3, <1>4, <1>5

LEMMA QueryKeeps ==
    ASSUME ClientIInv, Query
    PROVE  ClientIInv'
<1> USE HandlesAssumption, BoundsAssumption DEF ClientIInv
<1>0. issued \in Stmts /\ ran[issued] = 0 /\ told[issued] = "none" /\ ctx \in mem /\ ctx # Nil
      /\ ctx \in Handles /\ link[ctx].up /\ link[ctx] \in Links
  BY DEF Query, Fresher, Executing, Usable, InSync, Types
<1>1. /\ AfterQuery \in Links
      /\ AfterQuery.ready \in {Nil, issued}
      /\ pc.kind = "insert" => AfterQuery.lastId = rowId + 1 /\ AfterQuery.ready = Nil
      /\ pc.kind # "insert" => AfterQuery.lastId = link[ctx].lastId
      /\ AfterQuery.value \in {0, link[ctx].lastId}
  BY <1>0 DEF AfterQuery, Types, Links, Link
<1>2. /\ ctx' = ctx /\ mem' = mem /\ issued' = issued /\ UNCHANGED <<result, row, others, answer>>
      /\ ran' = [ran EXCEPT ![issued] = 1]
      /\ pc' = IF pc.call = "id" THEN GoOn("fetch") ELSE Idle
      /\ rowId' \in Nat /\ lastMine' \in Nat
      /\ pc.kind = "insert" => lastMine' = rowId + 1
      /\ pc.kind # "insert" => lastMine' = lastMine
  BY <1>0 DEF Query, Return, reads, Types
<1>3. \/ link' = [link EXCEPT ![ctx] = AfterQuery] /\ told' = [told EXCEPT ![issued] = "true"]
      \/ link' = [link EXCEPT ![ctx] = Broken] /\ told' = [told EXCEPT ![issued] = "false"]
  BY DEF Query, Return
<1>4. Types'
  <2>1. link' \in [Handles -> Links]
    BY <1>0, <1>1, <1>3, LinkFacts DEF Types
  <2>2. told' \in [Stmts -> {"none", "true", "false"}] /\ ran' \in [Stmts -> Nat]
    BY <1>0, <1>2, <1>3, SMTT(30) DEF Types
  <2>3. pc' \in [at : {"idle", "init", "run", "fetch"},
                 call : {"none", "exec", "id", "rows", "connect"}, kind : PcKinds]
    BY <1>2 DEF Types, Idle
  <2>. QED  BY <1>2, <2>1, <2>2, <2>3 DEF Types
<1>5. OneSession'
  BY <1>0, <1>2, <1>3 DEF OneSession, Types
<1>6. RunsOnce' /\ Reported'
  BY <1>0, <1>2, <1>3 DEF RunsOnce, Reported, Types
<1>7. Fresher'
  BY <1>0, <1>2, <1>3 DEF Fresher, Executing, Types, Idle
<1>8. CASE link' = [link EXCEPT ![ctx] = AfterQuery] /\ told' = [told EXCEPT ![issued] = "true"]
  <2>1. link'[ctx'] = AfterQuery /\ told'[issued] = "true"
    BY <1>0, <1>2, <1>8 DEF Types
  <2>2. pc'.at # "run"
    BY <1>2 DEF Idle
  <2>3. Waiting'
    BY <1>0, <1>1, <1>2, <2>1, <2>2 DEF Waiting
  <2>4. AfterQuery.lastId \in {0, lastMine'}
    BY <1>0, <1>1, <1>2 DEF OwnIds
  <2>5. AfterQuery.ready # Nil => AfterQuery.value \in {0, lastMine'}
    BY <1>0, <1>1, <1>2 DEF OwnIds
  <2>6. OwnIds'
    BY <1>2, <2>1, <2>4, <2>5 DEF OwnIds
  <2>. QED  BY <1>4, <1>5, <1>6, <1>7, <2>3, <2>6
<1>9. CASE link' = [link EXCEPT ![ctx] = Broken]
  <2>1. link'[ctx'] = Broken
    BY <1>0, <1>2, <1>9 DEF Types
  <2>2. Waiting' /\ OwnIds'
    BY <2>1, LinkFacts DEF Waiting, OwnIds
  <2>. QED  BY <1>4, <1>5, <1>6, <1>7, <2>2
<1>. QED  BY <1>3, <1>8, <1>9

\* mysql_store_result takes what waits, and nothing else.
LEMMA AfterFetchFacts ==
    ASSUME Types
    PROVE  /\ AfterFetch \in [Handles -> Links]
           /\ \A h \in Handles : AfterFetch[h].up = link[h].up /\ AfterFetch[h].lastId = link[h].lastId
           /\ ctx # Nil => AfterFetch[ctx].ready = Nil
BY LinkFacts, HandlesAssumption DEF AfterFetch, Types

\* The caller fetches rows, or get_insert_id does.
LEMMA ReadsKeep ==
    ASSUME ClientIInv, FetchId \/ MysqlResult \/ fetch_row \/ FreeResult
    PROVE  ClientIInv'
<1> USE HandlesAssumption DEF ClientIInv
<1>1. /\ UNCHANGED <<ctx, mem, record, table>> /\ pc.at \in {"idle", "fetch"} /\ pc' = Idle
      /\ link' \in {link, AfterFetch} /\ answer' \in Int
  BY DEF FetchId, MysqlResult, fetch_row, FreeResult, conns, reads, Idle, Types, Stored, Links
<1>2. result' \in [live : BOOLEAN, of : Nat, left : 0 .. 1, asked : Nat]
      /\ row' \in [ok : BOOLEAN, of : Nat]
  <2>1. Stored \in Nat /\ issued \in Nat
    BY BoundsAssumption DEF Stored, Types, Links
  <2>2. CASE FetchId
    BY <2>2 DEF FetchId, reads, Types
  <2>3. CASE MysqlResult
    BY <2>1, <2>3 DEF MysqlResult, Types
  <2>4. CASE fetch_row
    <3>1. CASE result.of # Nil /\ result.left > 0
      <4>1. row' = [ok |-> TRUE, of |-> result.of]
            /\ result' = [live |-> TRUE, of |-> result.of, left |-> result.left - 1,
                          asked |-> result.asked]
        BY <2>4, <3>1 DEF fetch_row
      <4>2. result.left - 1 \in 0 .. 1
        BY <3>1 DEF Types
      <4>. QED  BY <4>1, <4>2 DEF Types
    <3>2. CASE ~(result.of # Nil /\ result.left > 0)
      <4>1. row' = NoRow /\ result' = result
        BY <2>4, <3>2 DEF fetch_row
      <4>2. NoRow \in [ok : BOOLEAN, of : Nat]
        BY DEF NoRow
      <4>. QED  BY <4>1, <4>2 DEF Types
    <3>. QED  BY <3>1, <3>2
  <2>5. CASE FreeResult
    BY <2>5 DEF FreeResult, Types, NoResult
  <2>. QED  BY <2>2, <2>3, <2>4, <2>5
<1>3. Types'
  BY <1>1, <1>2, AfterFetchFacts DEF Types, Idle, record, table
<1>4. OneSession' /\ RunsOnce'
  BY <1>1, AfterFetchFacts DEF OneSession, RunsOnce, Types, record
<1>5. Reported'
  BY <1>1 DEF Reported, Waiting, Types, Idle, NoResult, NoRow, Stored, record, reads, FetchId,
              MysqlResult, fetch_row, FreeResult
<1>6. Fresher' /\ OwnIds'
  BY <1>1, AfterFetchFacts DEF Fresher, Executing, OwnIds, Types, Idle, record, table
<1>7. Waiting'
  BY <1>1, AfterFetchFacts DEF Waiting, Types, Idle, record
<1>. QED  BY <1>3, <1>4, <1>5, <1>6, <1>7

\* The client is destroyed, or other clients insert.
LEMMA RestKeeps ==
    ASSUME ClientIInv, Destroy \/ OtherInserts
    PROVE  ClientIInv'
<1> USE HandlesAssumption DEF ClientIInv
<1>1. CASE Destroy
  <2>1. UNCHANGED <<link, pc, record, reads, table, answer>> /\ ctx' = Nil /\ mem' = mem \ {ctx}
    BY <1>1 DEF Destroy
  <2>2. Types'
    BY <2>1 DEF Types, record, reads, table
  <2>3. OneSession' /\ Waiting' /\ OwnIds'
    BY <2>1 DEF OneSession, Waiting, OwnIds
  <2>4. RunsOnce' /\ Reported' /\ Fresher'
    BY <2>1 DEF RunsOnce, Reported, Fresher, Executing, record, reads
  <2>. QED  BY <2>2, <2>3, <2>4
<1>2. CASE OtherInserts
  <2>1. /\ UNCHANGED <<conns, pc, record, reads, lastMine, answer>>
        /\ rowId' = rowId + 1 /\ others' = others + 1
    BY <1>2 DEF OtherInserts
  <2>2. Types'
    BY <2>1 DEF Types, conns, record, reads
  <2>3. OneSession' /\ Waiting' /\ OwnIds'
    BY <2>1 DEF OneSession, Waiting, OwnIds, conns, record
  <2>4. RunsOnce' /\ Reported' /\ Fresher'
    BY <2>1 DEF RunsOnce, Reported, Fresher, Executing, record, reads
  <2>. QED  BY <2>2, <2>3, <2>4
<1>. QED  BY <1>1, <1>2

\* The connection breaks.
LEMMA BreaksKeep ==
    ASSUME ClientIInv, NEW h \in Handles, Breaks(h)
    PROVE  ClientIInv'
<1> USE HandlesAssumption DEF ClientIInv
<1>1. UNCHANGED <<ctx, mem, pc, record, reads, table, answer>>
  BY DEF Breaks
<1>2. PICK kept \in Links :
        /\ link' = [link EXCEPT ![h] = kept] /\ ~kept.up
        /\ kept.ready # Nil => kept.ready = link[h].ready /\ kept.value = link[h].value
  <2>1. link[h] \in Links
    BY DEF Types
  <2>2. CASE link' = [link EXCEPT ![h] = Broken]
    BY <2>2, LinkFacts
  <2>3. CASE link' = [link EXCEPT ![h] =
                        Link(FALSE, link[h].ready, link[h].more, 0, link[h].value)]
    <3> DEFINE e == Link(FALSE, link[h].ready, link[h].more, 0, link[h].value)
    <3>1. e \in Links /\ ~e.up /\ e.ready = link[h].ready /\ e.value = link[h].value
      BY <2>1 DEF Link, Links
    <3> HIDE DEF e
    <3>. QED  BY <2>3, <3>1 DEF e
  <2>. QED  BY <2>2, <2>3 DEF Breaks
<1>3. Types'
  BY <1>1, <1>2 DEF Types, record, reads, table
<1>4. OneSession' /\ RunsOnce' /\ Reported'
  BY <1>1, <1>2 DEF OneSession, RunsOnce, Reported, Types, record, reads
<1>5. Fresher' /\ Waiting' /\ OwnIds'
  BY <1>1, <1>2 DEF Fresher, Executing, Waiting, OwnIds, Types, record, table
<1>. QED  BY <1>3, <1>4, <1>5

LEMMA ClientStep == ClientIInv /\ [ClientNext]_clientVars => ClientIInv'
<1> SUFFICES ASSUME ClientIInv, [ClientNext]_clientVars  PROVE ClientIInv'
  OBVIOUS
<1>1. ASSUME NEW kind \in Kinds, mysql_exec(kind)  PROVE ClientIInv'
  BY <1>1, BeginKeeps DEF mysql_exec, Kinds
<1>2. CASE get_insert_id
  BY <1>2, BeginKeeps DEF get_insert_id
<1>3. CASE UNCHANGED clientVars
  BY <1>3 DEF clientVars, conns, record, reads, table, ClientIInv, Types, OneSession, RunsOnce, Fresher,
              Executing, Waiting, OwnIds, Reported
<1>. QED
  BY <1>1, <1>2, <1>3, OtherCallsKeep, InitCtxKeeps, QueryFailsKeeps, QueryKeeps, ReadsKeep,
     RestKeeps, BreaksKeep DEF ClientNext

LEMMA ClientInv == ClientSpec => []ClientIInv
BY ClientStarts, ClientStep, PTL DEF ClientSpec

(* Reconnecting before a call never repeats a statement, whenever the       *)
(* connection breaks.                                                       *)
THEOREM ClientRunsOnce == ClientSpec => []RunsOnce
<1>1. ClientIInv => RunsOnce
  BY DEF ClientIInv
<1>. QED  BY <1>1, ClientInv, PTL

(* A result never has the rows of an earlier statement: an unfetched result *)
(* makes the ping fail, and the connection it waits on is closed.           *)
THEOREM ClientResults == ClientSpec => []ResultOfLastExec
<1>1. ClientIInv => ResultOfLastExec
  BY DEF ClientIInv, Reported, ResultOfLastExec
<1>. QED  BY <1>1, ClientInv, PTL

(* However often connecting fails, the client holds one session at most.    *)
THEOREM ClientOneSession == ClientSpec => []OneSession
<1>1. ClientIInv => OneSession
  BY DEF ClientIInv
<1>. QED  BY <1>1, ClientInv, PTL

(* get_insert_id never returns the id of somebody else's row.               *)
THEOREM ClientInsertId == ClientSpec => InsertIdHonest
<1>1. ClientIInv /\ [ClientNext]_clientVars =>
        [pc.at = "fetch" /\ pc'.at = "idle" => answer' \in {-1, 0, lastMine}]_clientVars
  <2> SUFFICES ASSUME ClientIInv, ClientNext, pc.at = "fetch", pc'.at = "idle"
               PROVE  answer' \in {-1, 0, lastMine}
    OBVIOUS
  <2>1. pc # Idle /\ pc.at # "init" /\ pc.at # "run" /\ pc' # pc
    BY DEF Idle
  <2>2. FetchId
    <3>1. ~(\E kind \in Kinds : mysql_exec(kind)) /\ ~get_insert_id
      BY <2>1 DEF mysql_exec, get_insert_id, Begin
    <3>2. ~mysql_last_affected_rows /\ ~mysql_connect /\ ~MysqlResult /\ ~fetch_row
          /\ ~FreeResult /\ ~Destroy
      BY <2>1 DEF mysql_last_affected_rows, mysql_connect, MysqlResult, fetch_row, FreeResult,
                  Destroy
    <3>3. ~init_mysql_ctx /\ ~QueryFails /\ ~Query
      BY <2>1 DEF init_mysql_ctx, QueryFails, Query
    <3>4. ~OtherInserts /\ ~(\E h \in Handles : Breaks(h))
      BY <2>1 DEF OtherInserts, Breaks
    <3>. QED  BY <3>1, <3>2, <3>3, <3>4 DEF ClientNext
  <2>. QED  BY <2>2 DEF ClientIInv, OwnIds, FetchId, Stored
<1>. QED  BY <1>1, ClientInv, PTL DEF ClientSpec, InsertIdHonest
=============================================================================
