----------------------------- MODULE GateProofs -----------------------------
(***************************************************************************)
(* Proof that the gate keeps its table, its connection array and its       *)
(* mailbox consistent with the socket thread, for every capacity, every    *)
(* number of sockets and every bound.                                      *)
(***************************************************************************)
EXTENDS Gate, FramingProofs

-----------------------------------------------------------------------------
(* The table of socket ids.                                                 *)

LEMMA TableIs == TableInv <=> Tabled(slot, Cap, Ids, Nil, count)
BY DEF TableInv, TableTypeOK, CountExact, IdsUnique, UsedSlots, Slots, Tabled, InUse

\* If some probe meets an empty slot, the slot chosen exists and is empty.
LEMMA FirstFreeIsFree ==
    ASSUME NEW id \in Nat, FreeProbes(id) # {}
    PROVE  FirstFree(id) \in Slots /\ slot[FirstFree(id)] = Nil
<1>1. FreeProbes(id) \in SUBSET Nat
  BY CapAssumption DEF FreeProbes, Slots
<1>2. PICK i : i = CHOOSE k \in FreeProbes(id) : \A j \in FreeProbes(id) : k <= j
  OBVIOUS
<1>3. i \in FreeProbes(id) /\ FirstFree(id) = Probe(id, i)
  BY <1>1, <1>2, LeastNatural DEF FirstFree
<1>4. i \in 0 .. Cap - 1 /\ slot[Probe(id, i)] = Nil
  BY <1>3 DEF FreeProbes, Slots
<1>5. (i + id) % Cap \in 0 .. Cap - 1
  BY <1>4, CapAssumption
<1>. QED  BY <1>3, <1>4, <1>5 DEF Probe, Slots

\* hashid_full tests the counter; while it is false the loop finds a slot.
LEMMA NotFullHasFree ==
    ASSUME TableInv, ~Full, NEW id \in Nat
    PROVE  FreeProbes(id) # {}
<1>1. Tabled(slot, Cap, Ids, Nil, count) /\ count # Cap /\ Cap \in Nat \ {0}
  BY TableIs, CapAssumption DEF Full
<1>2. PICK s \in 0 .. Cap - 1 : slot[s] = Nil
  BY <1>1, TableRoom
<1>3. PICK i \in 0 .. Cap - 1 : (i + id) % Cap = s
  BY <1>1, ProbesCover
<1>. QED  BY <1>2, <1>3 DEF FreeProbes, Probe, Slots

\* A slot that Lookup returns holds the id asked for.
LEMMA LookupHolds ==
    ASSUME NEW id, Lookup(id) # Nil
    PROVE  Lookup(id) \in UsedSlots /\ slot[Lookup(id)] = id
<1>1. \E i \in UsedSlots : slot[i] = id
  BY Zenon DEF Lookup
<1>2. Lookup(id) = CHOOSE i \in UsedSlots : slot[i] = id
  BY <1>1, Zenon DEF Lookup
<1>. QED  BY <1>1, <1>2, Zenon

\* An id that Lookup does not find is in no slot.
LEMMA LookupMisses ==
    ASSUME NEW id, Lookup(id) = Nil
    PROVE  \A i \in UsedSlots : slot[i] # id
<1>1. SUFFICES ASSUME NEW i \in UsedSlots, slot[i] = id
               PROVE  FALSE
  BY Zenon
<1>2. Lookup(id) \in UsedSlots
  BY <1>1, Zenon DEF Lookup
<1>3. UsedSlots \subseteq Nat
  BY CapAssumption DEF UsedSlots, Slots
<1>. QED  BY <1>2, <1>3 DEF Nil

LEMMA InsertPreserves ==
    ASSUME TableInv, NEW id \in Ids, ~Full, Lookup(id) = Nil, InsertId(id)
    PROVE  TableInv'
<1>1. id \in Nat /\ id # Nil
  BY IdsAssumption DEF Nil
<1>2. PICK s : s = FirstFree(id)
  OBVIOUS
<1>3. s \in 0 .. Cap - 1 /\ slot[s] = Nil
  BY <1>1, <1>2, FirstFreeIsFree DEF InsertId, Slots
<1>4. slot' = [slot EXCEPT ![s] = id] /\ count' = count + 1
  BY <1>2 DEF InsertId
<1>5. \A i \in InUse(slot, Cap, Nil) : slot[i] # id
  BY LookupMisses DEF UsedSlots, Slots, InUse
<1>6. Tabled(slot', Cap, Ids, Nil, count + 1)
  BY <1>1, <1>3, <1>4, <1>5, TableIs, TableGains, CapAssumption DEF Full
<1>. QED  BY <1>4, <1>6
          DEF TableInv, TableTypeOK, CountExact, IdsUnique, UsedSlots, Slots, Tabled, InUse

LEMMA RemovePreserves ==
    ASSUME TableInv, NEW id, RemoveId(id)
    PROVE  TableInv'
<1>1. CASE Lookup(id) = Nil
  BY <1>1 DEF RemoveId, tableVars, TableInv, TableTypeOK, CountExact, IdsUnique, UsedSlots
<1>2. CASE Lookup(id) # Nil
  <2>1. PICK s : s = Lookup(id)
    OBVIOUS
  <2>2. s \in InUse(slot, Cap, Nil)
    BY <1>2, <2>1, LookupHolds DEF UsedSlots, Slots, InUse
  <2>3. slot' = [slot EXCEPT ![s] = Nil] /\ count' = count - 1
    BY <1>2, <2>1 DEF RemoveId
  <2>4. Tabled(slot', Cap, Ids, Nil, count - 1)
    BY <2>2, <2>3, TableIs, TableLoses, CapAssumption
  <2>. QED  BY <2>3, <2>4
            DEF TableInv, TableTypeOK, CountExact, IdsUnique, UsedSlots, Slots, Tabled, InUse
<1>. QED  BY <1>1, <1>2

LEMMA EmptyTableInv ==
    ASSUME slot = EmptyTable, count = 0
    PROVE  TableInv
BY TableIs, TableEmpty, CapAssumption DEF EmptyTable, Slots

LEMMA ClearPreserves ==
    ASSUME ClearIds
    PROVE  TableInv'
<1>1. Tabled(slot', Cap, Ids, Nil, 0) /\ count' = 0
  BY TableEmpty, CapAssumption DEF ClearIds, EmptyTable, Slots
<1>. QED  BY <1>1
          DEF TableInv, TableTypeOK, CountExact, IdsUnique, UsedSlots, Slots, Tabled, InUse

LEMMA StutterPreserves ==
    ASSUME TableInv, UNCHANGED tableVars
    PROVE  TableInv'
BY DEF tableVars, TableInv, TableTypeOK, CountExact, IdsUnique, UsedSlots

(* Whatever the order of insertions and removals, the counter counts the   *)
(* used slots and no id has two: hashid_full and the insertion loop never  *)
(* disagree, so assert(c) of hashid_insert cannot fail.                    *)
THEOREM TableCorrect == TableSpec => []TableInv
<1>1. TableInit => TableInv
  BY EmptyTableInv DEF TableInit
<1>2. TableInv /\ [TableNext]_tableVars => TableInv'
  <2> SUFFICES ASSUME TableInv, [TableNext]_tableVars  PROVE TableInv'
    OBVIOUS
  <2>1. ASSUME NEW id \in Ids, ~Full, Lookup(id) = Nil, InsertId(id)
        PROVE  TableInv'
    BY <2>1, InsertPreserves
  <2>2. ASSUME NEW id \in Ids, RemoveId(id)  PROVE TableInv'
    BY <2>2, RemovePreserves
  <2>3. CASE ClearIds
    BY <2>3, ClearPreserves
  <2>4. CASE UNCHANGED tableVars
    BY <2>4, StutterPreserves
  <2>. QED  BY <2>1, <2>2, <2>3, <2>4 DEF TableNext
<1>. QED  BY <1>1, <1>2, PTL DEF TableSpec

-----------------------------------------------------------------------------
(* The gate.                                                                *)

\* The parts of GateInv that the socket thread's steps can disturb.
SockMonotone == \A id \in Ids : sock[id] # "none" => sock'[id] # "none"

MailMonotone ==     \* at most one event was added, and it is no accept
    \/ mail' = mail
    \/ \E e \in EventType : e.type # "accept" /\ mail' = Append(mail, e)

LEMMA BecomeType ==
    ASSUME TypeOK, NEW id \in Ids,
           NEW s \in {"bound", "listen", "accepted", "connecting", "open", "closed"},
           Become(id, s)
    PROVE  /\ SockMonotone
           /\ sock' \in [Ids -> SockStates]
BY DEF Become, SockMonotone, TypeOK, SockStates

LEMMA PostType ==
    ASSUME mail \in Seq(EventType), NEW e \in EventType, Post(e)
    PROVE  /\ mail' \in Seq(EventType)
           /\ mail' = mail \/ mail' = Append(mail, e)
BY DEF Post

LEMMA PostPlain ==
    ASSUME TypeOK, NEW t \in {"connect", "close", "error"}, NEW id \in Ids,
           Post(Event(t, id))
    PROVE  MailMonotone /\ mail' \in Seq(EventType)
<1> DEFINE e == Event(t, id)
<1>1. e \in EventType /\ e.type # "accept"
  BY DEF Event, EventType
<1> HIDE DEF e
<1>2. Post(e) /\ mail \in Seq(EventType)
  BY DEF e, TypeOK
<1>3. mail' \in Seq(EventType) /\ (mail' = mail \/ mail' = Append(mail, e))
  BY <1>1, <1>2, PostType
<1>. QED  BY <1>1, <1>3 DEF MailMonotone

\* What a step of the socket thread or of a peer leaves of GateInv when it
\* adds no accept event.
LEMMA QuietStep ==
    ASSUME GateInv, SockMonotone, MailMonotone,
           UNCHANGED <<tableVars, conn, buf>>
    PROVE  /\ TableInv' /\ SlotsClean' /\ ConnMatchesTable' /\ KnownSockets'
           /\ AcceptsFresh'
<1>1. TableInv'
  BY StutterPreserves DEF GateInv
<1>2. SlotsClean' /\ ConnMatchesTable'
  BY DEF GateInv, SlotsClean, ConnMatchesTable, tableVars
<1>3. KnownSockets'
  BY DEF GateInv, KnownSockets, tableVars, SockMonotone, TypeOK, TableTypeOK
<1>4. AcceptsFresh'
  <2>1. mail \in Seq(EventType)
    BY DEF GateInv, TypeOK
  <2>2. \A k \in 1 .. Len(mail) : mail[k].type = "accept" => mail[k].ud \in Ids
    BY <2>1 DEF EventType
  <2>3. CASE mail' = mail
    BY <2>2, <2>3 DEF GateInv, AcceptsFresh, tableVars, SockMonotone
  <2>4. ASSUME NEW e \in EventType, e.type # "accept", mail' = Append(mail, e)
        PROVE  AcceptsFresh'
    <3>1. /\ Len(mail') = Len(mail) + 1
          /\ mail'[Len(mail) + 1] = e
          /\ \A k \in 1 .. Len(mail) : mail'[k] = mail[k]
      BY <2>1, <2>4
    <3>2. \A k \in 1 .. Len(mail') : mail'[k].type = "accept" => k \in 1 .. Len(mail)
      BY <2>1, <2>4, <3>1
    <3>. QED
      BY <2>1, <2>2, <3>1, <3>2
      DEF GateInv, AcceptsFresh, tableVars, SockMonotone
  <2>. QED  BY <2>3, <2>4 DEF MailMonotone
<1>. QED  BY <1>1, <1>2, <1>3, <1>4

\* The types that such a step can disturb are those of mail, ctrl and sock.
LEMMA QuietType ==
    ASSUME TypeOK, mail' \in Seq(EventType),
           ctrl' \in Seq(RequestType),
           sock' \in [Ids -> SockStates],
           SockUnchanged
    PROVE  TypeOK'
BY DEF TypeOK, SockUnchanged, tableVars, gateVars, histVars, TableTypeOK

LEMMA HeadAndTail ==
    ASSUME NEW S, NEW q \in Seq(S), q # <<>>
    PROVE  /\ Head(q) \in S /\ Head(q) = q[1]
           /\ Tail(q) \in Seq(S) /\ Len(Tail(q)) = Len(q) - 1
           /\ \A k \in 1 .. Len(q) - 1 : Tail(q)[k] = q[k + 1]
           /\ Len(q) \in Nat /\ Len(q) >= 1
OBVIOUS

LEMMA TailOfCtrl ==
    ASSUME TypeOK, ctrl # <<>>
    PROVE  /\ Head(ctrl).id \in Ids
           /\ Tail(ctrl) \in Seq(RequestType)
<1>1. ctrl \in Seq(RequestType)
  BY DEF TypeOK
<1>2. /\ Head(ctrl) \in RequestType
      /\ Tail(ctrl) \in Seq(RequestType)
  BY <1>1, HeadAndTail
<1>. QED  BY <1>1, <1>2 DEF RequestType

LEMMA SockStartPreserves ==
    ASSUME GateInv, SockStart
    PROVE  GateInv'
<1> DEFINE id == Head(ctrl).id
<1>1. TypeOK /\ id \in Ids /\ ctrl' \in Seq(RequestType)
  BY TailOfCtrl DEF GateInv, SockStart
<1> HIDE DEF id
<1>2. /\ SockMonotone /\ MailMonotone /\ mail' \in Seq(EventType)
      /\ sock' \in [Ids -> SockStates]
  <2>1. \/ Become(id, "open") /\ Post(Event("connect", id))
        \/ Become(id, "listen") /\ Post(Event("connect", id))
        \/ Post(Event("connect", id)) /\ UNCHANGED sock
        \/ Post(Event("error", id)) /\ UNCHANGED sock
        \/ UNCHANGED <<mail, sock>>
    BY Zenon DEF SockStart, id
  <2>2. CASE \/ Become(id, "open") /\ Post(Event("connect", id))
             \/ Become(id, "listen") /\ Post(Event("connect", id))
    BY <1>1, <2>2, BecomeType, PostPlain
  <2>3. CASE \/ Post(Event("connect", id)) /\ UNCHANGED sock
             \/ Post(Event("error", id)) /\ UNCHANGED sock
    BY <1>1, <2>3, PostPlain DEF SockMonotone, TypeOK
  <2>4. CASE UNCHANGED <<mail, sock>>
    BY <1>1, <2>4 DEF SockMonotone, MailMonotone, TypeOK
  <2>. QED  BY <2>1, <2>2, <2>3, <2>4
<1>3. SockUnchanged
  BY DEF SockStart
<1>. QED
  BY <1>1, <1>2, <1>3, QuietStep, QuietType DEF GateInv, SockUnchanged, gateVars

LEMMA SockClosePreserves ==
    ASSUME GateInv, SockClose
    PROVE  GateInv'
<1> DEFINE id == Head(ctrl).id
<1>1. TypeOK /\ id \in Ids /\ ctrl' \in Seq(RequestType)
  BY TailOfCtrl DEF GateInv, SockClose
<1> HIDE DEF id
<1>2. Become(id, "closed") /\ (Post(Event("close", id)) \/ UNCHANGED mail)
  BY Zenon DEF SockClose, id
<1>3. /\ SockMonotone
      /\ sock' \in [Ids -> SockStates]
  BY <1>1, <1>2, BecomeType
<1>4. MailMonotone /\ mail' \in Seq(EventType)
  <2>1. CASE Post(Event("close", id))
    BY <1>1, <2>1, PostPlain
  <2>2. CASE UNCHANGED mail
    BY <1>1, <2>2 DEF MailMonotone, TypeOK
  <2>. QED  BY <1>2, <2>1, <2>2
<1>5. SockUnchanged
  BY DEF SockClose
<1>. QED
  BY <1>1, <1>3, <1>4, <1>5, QuietStep, QuietType DEF GateInv, SockUnchanged, gateVars

LEMMA SockSendPreserves ==
    ASSUME GateInv, SockSend
    PROVE  GateInv'
<1>1. /\ TypeOK /\ SockUnchanged /\ UNCHANGED <<mail, sock>>
      /\ ctrl' \in Seq(RequestType)
  BY TailOfCtrl DEF GateInv, SockSend
<1>2. /\ mail' \in Seq(EventType) /\ sock' \in [Ids -> SockStates]
      /\ SockMonotone /\ MailMonotone
  BY <1>1 DEF TypeOK, SockMonotone, MailMonotone
<1>. QED
  BY <1>1, <1>2, QuietStep, QuietType DEF GateInv, SockUnchanged, gateVars

LEMMA DialledPreserves ==
    ASSUME GateInv, NEW id \in Ids, Dialled(id)
    PROVE  GateInv'
<1>1. TypeOK /\ SockUnchanged /\ ctrl' \in Seq(RequestType)
  BY DEF GateInv, Dialled, TypeOK
<1>2. /\ SockMonotone /\ MailMonotone /\ mail' \in Seq(EventType)
      /\ sock' \in [Ids -> SockStates]
  <2>1. \/ Become(id, "open") /\ Post(Event("connect", id))
        \/ Become(id, "closed") /\ Post(Event("error", id))
    BY DEF Dialled
  <2>. QED  BY <1>1, <2>1, BecomeType, PostPlain
<1>. QED
  BY <1>1, <1>2, QuietStep, QuietType DEF GateInv, SockUnchanged, gateVars

LEMMA PeerClosesPreserves ==
    ASSUME GateInv, NEW id \in Ids, PeerCloses(id)
    PROVE  GateInv'
<1>1. TypeOK /\ SockUnchanged /\ ctrl' \in Seq(RequestType)
  BY DEF GateInv, PeerCloses, TypeOK
<1>2. /\ SockMonotone
      /\ sock' \in [Ids -> SockStates]
  BY <1>1, BecomeType DEF PeerCloses
<1>3. MailMonotone /\ mail' \in Seq(EventType)
  <2>1. PICK t \in {"close", "error"} : Post(Event(t, id))
    BY DEF PeerCloses
  <2>. QED  BY <1>1, <2>1, PostPlain
<1>. QED
  BY <1>1, <1>2, <1>3, QuietStep, QuietType DEF GateInv, SockUnchanged, gateVars

LEMMA PeerSendsPreserves ==
    ASSUME GateInv, NEW id \in Ids, NEW c \in Chunks, PeerSends(id, c)
    PROVE  GateInv'
<1> DEFINE e == [type |-> "data", id |-> id, bytes |-> c]
<1>1. e \in EventType /\ e.type # "accept"
  BY DEF EventType
<1>2. Post(e)
  BY DEF PeerSends
<1> HIDE DEF e
<1>3. mail' \in Seq(EventType) /\ (mail' = mail \/ mail' = Append(mail, e))
  BY <1>1, <1>2, PostType DEF GateInv, TypeOK
<1>4. MailMonotone
  BY <1>1, <1>3 DEF MailMonotone
<1>5. TypeOK /\ SockUnchanged /\ UNCHANGED <<ctrl, sock>>
  BY DEF GateInv, PeerSends
<1>6. SockMonotone
  BY <1>5 DEF SockMonotone
<1>7. TypeOK'
  BY <1>3, <1>5, QuietType DEF TypeOK
<1>. QED
  BY <1>4, <1>5, <1>6, <1>7, QuietStep DEF GateInv, SockUnchanged, gateVars

\* The one step of the socket thread that adds an accept event: the socket it
\* names was never used, so neither a slot nor another event has it.
LEMMA NewPeerPreserves ==
    ASSUME GateInv, NEW lid \in Ids, NEW id \in Ids, NewPeer(lid, id)
    PROVE  GateInv'
<1> DEFINE e == [type |-> "accept", id |-> lid, ud |-> id]
<1>1. e \in EventType /\ e.type = "accept" /\ e.ud = id
  BY DEF EventType
<1>2. Post(e)
  BY DEF NewPeer
<1> HIDE DEF e
<1>3. mail' \in Seq(EventType) /\ (mail' = mail \/ mail' = Append(mail, e))
  BY <1>1, <1>2, PostType DEF GateInv, TypeOK
<1>4. TypeOK /\ SockUnchanged /\ UNCHANGED ctrl /\ sock[id] = "none"
  BY DEF GateInv, NewPeer, Fresh
<1>5. /\ SockMonotone
      /\ sock' \in [Ids -> SockStates]
  BY <1>4, BecomeType DEF NewPeer
<1>6. TypeOK'
  BY <1>3, <1>4, <1>5, QuietType DEF TypeOK
<1>7. UNCHANGED <<slot, count, conn, buf>>
  BY <1>4 DEF SockUnchanged, gateVars, tableVars
<1>8. TableInv' /\ SlotsClean' /\ ConnMatchesTable'
  BY <1>7, StutterPreserves DEF GateInv, SlotsClean, ConnMatchesTable, tableVars
<1>9. KnownSockets'
  BY <1>5, <1>7 DEF GateInv, KnownSockets, SockMonotone, TypeOK, TableTypeOK
<1>10. AcceptsFresh'
  <2>1. mail \in Seq(EventType)
    BY <1>4 DEF TypeOK
  <2>2. \A k \in 1 .. Len(mail) : mail[k].type = "accept" => mail[k].ud \in Ids
    BY <2>1 DEF EventType
  <2>3. CASE mail' = mail
    BY <1>5, <1>7, <2>2, <2>3 DEF GateInv, AcceptsFresh, SockMonotone
  <2>4. CASE mail' = Append(mail, e)
    <3>1. /\ Len(mail') = Len(mail) + 1
          /\ mail'[Len(mail) + 1] = e
          /\ \A k \in 1 .. Len(mail) : mail'[k] = mail[k]
      BY <2>1, <2>4
    <3>2. \A k \in 1 .. Len(mail) : mail[k].type = "accept" => mail[k].ud # id
      BY <1>4 DEF GateInv, AcceptsFresh
    <3>3. \A i \in Slots : slot[i] # id
      BY <1>4, IdsAssumption DEF GateInv, KnownSockets, Nil
    <3>4. sock'[id] # "none"
      BY <1>4 DEF NewPeer, Become, TypeOK
    <3>5. \A k \in 1 .. Len(mail') : k \in 1 .. Len(mail) \/ k = Len(mail) + 1
      BY <2>1, <3>1
    <3>. QED
      BY <1>1, <1>5, <1>7, <2>1, <2>2, <3>1, <3>2, <3>3, <3>4, <3>5
      DEF GateInv, AcceptsFresh, SockMonotone
  <2>. QED  BY <1>3, <2>3, <2>4
<1>. QED  BY <1>6, <1>8, <1>9, <1>10 DEF GateInv

-----------------------------------------------------------------------------
(* The gate's handlers.                                                     *)

\* Taking the first event away keeps AcceptsFresh if the slots gain at most
\* the socket that this event, an accept, named.
LEMMA TailKeepsAccepts ==
    ASSUME GateInv, mail # <<>>, mail' = Tail(mail), UNCHANGED sock,
           \A i \in Slots : \/ slot'[i] = slot[i]
                            \/ slot'[i] = Nil
                            \/ Head(mail).type = "accept" /\ slot'[i] = Head(mail).ud
    PROVE  AcceptsFresh' /\ mail' \in Seq(EventType)
<1>1. mail \in Seq(EventType)
  BY DEF GateInv, TypeOK
<1>2. /\ Head(mail) = mail[1] /\ mail' \in Seq(EventType)
      /\ Len(mail') = Len(mail) - 1 /\ Len(mail) \in Nat /\ Len(mail) >= 1
      /\ \A k \in 1 .. Len(mail) - 1 : mail'[k] = mail[k + 1]
  BY <1>1, HeadAndTail
<1>3. \A k \in 1 .. Len(mail) : mail[k].type = "accept" => mail[k].ud \in Ids
  BY <1>1 DEF EventType
<1>4. SUFFICES ASSUME NEW j \in 1 .. Len(mail'), mail'[j].type = "accept"
               PROVE  /\ sock'[mail'[j].ud] # "none"
                      /\ \A i \in Slots : slot'[i] # mail'[j].ud
                      /\ \A k \in 1 .. Len(mail') :
                           mail'[k].type = "accept" /\ mail'[k].ud = mail'[j].ud
                             => k = j
  BY <1>2 DEF AcceptsFresh
<1>5. j + 1 \in 1 .. Len(mail) /\ mail'[j] = mail[j + 1] /\ 1 \in 1 .. Len(mail)
  BY <1>2
<1>6. /\ mail[j + 1].type = "accept"
      /\ mail[j + 1].ud \in Ids
      /\ sock[mail[j + 1].ud] # "none"
      /\ \A i \in Slots : slot[i] # mail[j + 1].ud
      /\ \A k \in 1 .. Len(mail) :
           mail[k].type = "accept" /\ mail[k].ud = mail[j + 1].ud => k = j + 1
  BY <1>3, <1>4, <1>5 DEF GateInv, AcceptsFresh
<1>7. \A i \in Slots : slot'[i] # mail'[j].ud
  <2>1. mail[j + 1].ud # Nil
    BY <1>6, IdsAssumption DEF Nil
  <2>2. mail[1].type = "accept" => mail[1].ud # mail[j + 1].ud
    BY <1>5, <1>6
  <2>. QED  BY <1>2, <1>5, <1>6, <2>1, <2>2
<1>8. ASSUME NEW k \in 1 .. Len(mail'),
             mail'[k].type = "accept", mail'[k].ud = mail'[j].ud
      PROVE  k = j
  <2>1. k + 1 \in 1 .. Len(mail) /\ mail'[k] = mail[k + 1]
    BY <1>2
  <2>2. k + 1 = j + 1
    BY <1>5, <1>6, <1>8, <2>1
  <2>. QED  BY <2>2
<1>. QED  BY <1>5, <1>6, <1>7, <1>8

LEMMA CallType ==
    ASSUME TypeOK, NEW op \in {"start", "close", "send"}, NEW id \in Ids, Call(op, id)
    PROVE  ctrl' \in Seq(RequestType)
<1> DEFINE r == Request(op, id)
<1>1. r \in RequestType
  BY DEF Request, RequestType
<1>2. ctrl' = Append(ctrl, r)
  BY DEF Call
<1>3. ctrl \in Seq(RequestType)
  BY DEF TypeOK
<1> HIDE DEF r
<1>. QED  BY <1>1, <1>2, <1>3, AppendInSeq

\* The event at the head, for a handler of events of type t.
LEMMA HeadEvent ==
    ASSUME GateInv, NEW t, Handle(t)
    PROVE  /\ mail # <<>> /\ mail' = Tail(mail)
           /\ Head(mail) \in EventType /\ Head(mail).type = t
           /\ Head(mail).id \in Ids
           /\ t = "accept" => Head(mail).ud \in Ids
           /\ UNCHANGED <<sock, broker, bind, cmds, chunks>>
<1>1. mail \in Seq(EventType) /\ mail # <<>> /\ Head(mail).type = t
  BY DEF GateInv, TypeOK, Handle
<1>2. Head(mail) \in EventType
  BY <1>1, HeadAndTail
<1>3. Head(mail).id \in Ids /\ (t = "accept" => Head(mail).ud \in Ids)
  BY <1>1, <1>2 DEF EventType
<1>. QED  BY <1>1, <1>2, <1>3 DEF Handle

LEMMA OnDataPreserves ==
    ASSUME GateInv, OnData
    PROVE  GateInv'
<1> DEFINE m == Head(mail)
           i == Lookup(m.id)
<1>1. /\ mail # <<>> /\ mail' = Tail(mail) /\ m.id \in Ids /\ UNCHANGED sock
      /\ UNCHANGED <<broker, bind>>
  BY HeadEvent DEF OnData
<1>2. UNCHANGED <<slot, count, status, listen_id, conn, assigned>>
  BY DEF OnData, tableVars
<1>3. AcceptsFresh' /\ mail' \in Seq(EventType)
  BY <1>1, <1>2, TailKeepsAccepts
<1>4. ctrl' \in Seq(RequestType)
  <2>1. Call("close", m.id) \/ UNCHANGED ctrl
    BY DEF OnData
  <2>2. CASE Call("close", m.id)
    BY <1>1, <2>2, CallType DEF GateInv
  <2>3. CASE UNCHANGED ctrl
    BY <2>3 DEF GateInv, TypeOK
  <2>. QED  BY <2>1, <2>2, <2>3
<1>5. /\ DOMAIN buf' = Slots
      /\ \A s \in Slots : slot[s] = Nil => buf'[s] = buf[s]
  <2>1. CASE i = Nil
    BY <2>1 DEF OnData, GateInv, TypeOK
  <2>2. CASE i # Nil
    <3>1. i \in UsedSlots
      BY <2>2, LookupHolds
    <3>2. slot[i] # Nil
      BY <3>1 DEF UsedSlots
    <3>3. \E b : buf' = [buf EXCEPT ![i] = b]
      BY <2>2 DEF OnData
    <3>. QED  BY <3>2, <3>3 DEF GateInv, TypeOK
  <2>. QED  BY <2>1, <2>2
<1>6. TypeOK'
  BY <1>1, <1>2, <1>3, <1>4, <1>5 DEF GateInv, TypeOK, TableTypeOK
<1>7. TableInv'
  BY <1>2, StutterPreserves DEF GateInv, tableVars
<1>8. SlotsClean' /\ ConnMatchesTable' /\ KnownSockets'
  BY <1>1, <1>2, <1>5 DEF GateInv, SlotsClean, ConnMatchesTable, KnownSockets
<1>. QED  BY <1>3, <1>6, <1>7, <1>8 DEF GateInv

LEMMA OnConnectPreserves ==
    ASSUME GateInv, OnConnect
    PROVE  GateInv'
<1> DEFINE m == Head(mail)
<1>1. /\ mail # <<>> /\ mail' = Tail(mail) /\ m.id \in Ids /\ UNCHANGED sock
      /\ UNCHANGED <<broker, bind>>
  BY HeadEvent DEF OnConnect
<1>2. UNCHANGED <<slot, count, status, listen_id, conn, buf, assigned>>
  BY DEF OnConnect, tableVars
<1>3. AcceptsFresh' /\ mail' \in Seq(EventType)
  BY <1>1, <1>2, TailKeepsAccepts
<1>4. ctrl' \in Seq(RequestType)
  <2>1. Call("close", m.id) \/ UNCHANGED ctrl
    BY DEF OnConnect
  <2>2. CASE Call("close", m.id)
    BY <1>1, <2>2, CallType DEF GateInv
  <2>3. CASE UNCHANGED ctrl
    BY <2>3 DEF GateInv, TypeOK
  <2>. QED  BY <2>1, <2>2, <2>3
<1>5. TypeOK'
  BY <1>1, <1>2, <1>3, <1>4 DEF GateInv, TypeOK, TableTypeOK
<1>6. TableInv'
  BY <1>2, StutterPreserves DEF GateInv, tableVars
<1>7. SlotsClean' /\ ConnMatchesTable' /\ KnownSockets'
  BY <1>1, <1>2 DEF GateInv, SlotsClean, ConnMatchesTable, KnownSockets
<1>. QED  BY <1>3, <1>5, <1>6, <1>7 DEF GateInv

LEMMA OnClosePreserves ==
    ASSUME GateInv, OnClose
    PROVE  GateInv'
<1> DEFINE m == Head(mail)
           i == Lookup(m.id)
<1>1. /\ mail # <<>> /\ mail' = Tail(mail) /\ m.id \in Ids /\ UNCHANGED sock
      /\ UNCHANGED <<broker, bind>>
  BY HeadEvent DEF OnClose
<1>2. UNCHANGED <<status, listen_id, ctrl, assigned>> /\ RemoveId(m.id) /\ Forget(m.id)
  BY DEF OnClose
<1>3. TableInv'
  BY <1>2, RemovePreserves DEF GateInv
<1>4. CASE i = Nil
  <2>1. UNCHANGED <<slot, count, conn, buf>>
    BY <1>2, <1>4 DEF RemoveId, Forget, tableVars
  <2>2. AcceptsFresh' /\ mail' \in Seq(EventType)
    BY <1>1, <2>1, TailKeepsAccepts
  <2>3. TypeOK'
    BY <1>1, <1>2, <2>1, <2>2 DEF GateInv, TypeOK, TableTypeOK
  <2>4. SlotsClean' /\ ConnMatchesTable' /\ KnownSockets'
    BY <1>1, <2>1 DEF GateInv, SlotsClean, ConnMatchesTable, KnownSockets
  <2>. QED  BY <1>3, <2>2, <2>3, <2>4 DEF GateInv
<1>5. CASE i # Nil
  <2>1. i \in Slots
    BY <1>5, LookupHolds DEF UsedSlots
  <2>2. /\ slot' = [slot EXCEPT ![i] = Nil]
        /\ conn' = [conn EXCEPT ![i] = BlankConn]
        /\ buf'  = [buf EXCEPT ![i] = BlankFrame]
    BY <1>2, <1>5 DEF RemoveId, Forget
  <2> HIDE DEF i
  <2>3. \A s \in Slots : slot'[s] = IF s = i THEN Nil ELSE slot[s]
    BY <2>2 DEF GateInv, TypeOK, TableTypeOK
  <2>4. \A s \in Slots : /\ conn'[s] = IF s = i THEN BlankConn ELSE conn[s]
                         /\ buf'[s]  = IF s = i THEN BlankFrame ELSE buf[s]
    BY <2>2 DEF GateInv, TypeOK
  <2>5. AcceptsFresh' /\ mail' \in Seq(EventType)
    BY <1>1, <2>3, TailKeepsAccepts
  <2>6. TypeOK'
    <3>1. BlankConn \in ConnType
      BY DEF BlankConn, ConnType
    <3>2. /\ DOMAIN buf' = Slots
          /\ conn' \in [Slots -> ConnType]
      BY <2>2, <3>1 DEF GateInv, TypeOK
    <3>3. TableTypeOK'
      BY <1>3 DEF TableInv
    <3>. QED  BY <1>1, <1>2, <2>5, <3>2, <3>3 DEF GateInv, TypeOK
  <2>7. SlotsClean'
    BY <2>3, <2>4 DEF GateInv, SlotsClean
  <2>8. ConnMatchesTable'
    BY <2>3, <2>4 DEF GateInv, ConnMatchesTable, BlankConn
  <2>9. KnownSockets'
    BY <1>1, <2>3 DEF GateInv, KnownSockets
  <2>. QED  BY <1>3, <2>5, <2>6, <2>7, <2>8, <2>9 DEF GateInv
<1>. QED  BY <1>4, <1>5

\* An id that no slot has is not found.
LEMMA AbsentIsNil ==
    ASSUME NEW id, \A i \in Slots : slot[i] # id
    PROVE  Lookup(id) = Nil
BY Zenon DEF Lookup, UsedSlots

\* What taking a slot for socket id does to the slots; c is the slot taken.
LEMMA InsertEffect ==
    ASSUME GateInv, NEW id \in Ids, ~Full, InsertId(id),
           \A i \in Slots : slot[i] # id
    PROVE  /\ TableInv'
           /\ FirstFree(id) \in Slots /\ slot[FirstFree(id)] = Nil
           /\ \A s \in Slots : slot'[s] = IF s = FirstFree(id) THEN id ELSE slot[s]
           /\ conn[FirstFree(id)] = BlankConn
           /\ buf[FirstFree(id)] = BlankFrame
<1>1. Lookup(id) = Nil
  BY AbsentIsNil
<1>2. TableInv'
  BY <1>1, InsertPreserves DEF GateInv
<1>3. id \in Nat
  BY IdsAssumption
<1>4. FirstFree(id) \in Slots /\ slot[FirstFree(id)] = Nil
  BY <1>3, FirstFreeIsFree DEF InsertId
<1>5. slot' = [slot EXCEPT ![FirstFree(id)] = id]
  BY DEF InsertId
<1>. QED
  BY <1>2, <1>4, <1>5 DEF GateInv, SlotsClean, TypeOK, TableTypeOK

LEMMA OnAcceptPreserves ==
    ASSUME GateInv, OnAccept
    PROVE  GateInv'
<1> DEFINE m == Head(mail)
<1>1. /\ mail # <<>> /\ mail' = Tail(mail) /\ m.id \in Ids /\ m.ud \in Ids
      /\ m.type = "accept" /\ UNCHANGED sock /\ UNCHANGED <<broker, bind>>
  BY HeadEvent DEF OnAccept
<1>2. UNCHANGED <<listen_id, buf, assigned>>
  BY DEF OnAccept
<1>3. CASE listen_id # m.id \/ Full
  <2>1. /\ UNCHANGED <<slot, count, conn>>
        /\ status' = "assert" \/ status' = status
        /\ Call("close", m.ud) \/ UNCHANGED ctrl
    BY <1>3 DEF OnAccept, tableVars
  <2>2. AcceptsFresh' /\ mail' \in Seq(EventType)
    BY <1>1, <2>1, TailKeepsAccepts
  <2>3. ctrl' \in Seq(RequestType)
    <3>1. CASE Call("close", m.ud)
      BY <1>1, <3>1, CallType DEF GateInv
    <3>2. CASE UNCHANGED ctrl
      BY <3>2 DEF GateInv, TypeOK
    <3>. QED  BY <2>1, <3>1, <3>2
  <2>4. TypeOK'
    BY <1>1, <1>2, <2>1, <2>2, <2>3 DEF GateInv, TypeOK, TableTypeOK
  <2>5. TableInv'
    BY <2>1, StutterPreserves DEF GateInv, tableVars
  <2>6. SlotsClean' /\ ConnMatchesTable' /\ KnownSockets'
    BY <1>1, <1>2, <2>1 DEF GateInv, SlotsClean, ConnMatchesTable, KnownSockets
  <2>. QED  BY <2>2, <2>4, <2>5, <2>6 DEF GateInv
<1>4. CASE listen_id = m.id /\ ~Full
  <2> DEFINE c == FirstFree(m.ud)
  <2>1. /\ InsertId(m.ud) /\ UNCHANGED <<status, ctrl>>
        /\ conn' = [conn EXCEPT ![c].id = m.ud]
    BY <1>4 DEF OnAccept
  <2>2. sock[m.ud] # "none" /\ \A i \in Slots : slot[i] # m.ud
    <3>1. mail \in Seq(EventType)
      BY DEF GateInv, TypeOK
    <3>2. m = mail[1] /\ 1 \in 1 .. Len(mail)
      BY <1>1, <3>1, HeadAndTail
    <3>. QED  BY <1>1, <3>2 DEF GateInv, AcceptsFresh
  <2>3. /\ TableInv' /\ c \in Slots /\ slot[c] = Nil
        /\ \A s \in Slots : slot'[s] = IF s = c THEN m.ud ELSE slot[s]
        /\ conn[c] = BlankConn
    BY <1>1, <1>4, <2>1, <2>2, InsertEffect
  <2> HIDE DEF c
  <2>4. \A s \in Slots : conn'[s] = IF s = c THEN [conn[s] EXCEPT !.id = m.ud]
                                            ELSE conn[s]
    BY <2>1 DEF GateInv, TypeOK
  <2>5. AcceptsFresh' /\ mail' \in Seq(EventType)
    <3>1. \A s \in Slots : \/ slot'[s] = slot[s]
                           \/ slot'[s] = Nil
                           \/ m.type = "accept" /\ slot'[s] = m.ud
      BY <1>1, <2>3
    <3>. QED  BY <1>1, <3>1, TailKeepsAccepts
  <2>6. TypeOK'
    <3>1. conn' \in [Slots -> ConnType]
      BY <1>1, <2>1 DEF GateInv, TypeOK, ConnType
    <3>2. TableTypeOK'
      BY <2>3 DEF TableInv
    <3>. QED  BY <1>1, <1>2, <2>1, <2>5, <3>1, <3>2 DEF GateInv, TypeOK
  <2>7. m.ud # Nil
    BY <1>1, IdsAssumption DEF Nil
  <2>8. SlotsClean'
    BY <1>2, <2>3, <2>4, <2>7 DEF GateInv, SlotsClean
  <2>9. ConnMatchesTable'
    BY <2>3, <2>4 DEF GateInv, ConnMatchesTable, TypeOK, ConnType
  <2>10. KnownSockets'
    BY <1>1, <2>2, <2>3 DEF GateInv, KnownSockets
  <2>. QED  BY <2>3, <2>5, <2>6, <2>8, <2>9, <2>10 DEF GateInv
<1>. QED  BY <1>3, <1>4

-----------------------------------------------------------------------------
(* The text commands, the start and the end of the service.                 *)

\* Commands and gate_init leave the mailbox alone.
LEMMA NoMail ==
    ASSUME UNCHANGED mail
    PROVE  MailMonotone
BY DEF MailMonotone

LEMMA KickStartPreserves ==
    ASSUME GateInv, NEW id \in Ids, Kick(id) \/ Start(id) \/ ClientMessage(id)
    PROVE  GateInv'
<1>1. /\ Call("close", id) \/ Call("start", id) \/ Call("send", id)
      /\ UNCHANGED <<tableVars, status, listen_id, broker, bind, conn, buf, mail,
                     sock, assigned>>
  BY DEF Kick, Start, ClientMessage, Command
<1>2. ctrl' \in Seq(RequestType)
  BY <1>1, CallType DEF GateInv
<1>3. TypeOK'
  BY <1>1, <1>2 DEF GateInv, TypeOK, TableTypeOK, tableVars
<1>. QED  BY <1>1, <1>3, NoMail, QuietStep DEF GateInv, SockMonotone

LEMMA BrokerPreserves ==
    ASSUME GateInv, NEW h \in Handles \cup {0}, Broker(h)
    PROVE  GateInv'
<1>1. UNCHANGED <<tableVars, status, listen_id, bind, conn, buf, mail, ctrl, sock,
                  assigned>>
  BY DEF Broker, Command
<1>2. TypeOK'
  BY <1>1 DEF GateInv, TypeOK, TableTypeOK, tableVars, Broker
<1>. QED  BY <1>1, <1>2, NoMail, QuietStep DEF GateInv, SockMonotone

LEMMA CloseListenPreserves ==
    ASSUME GateInv, CloseListen
    PROVE  GateInv'
<1>1. /\ UNCHANGED <<tableVars, status, broker, bind, conn, buf, mail, sock, assigned>>
      /\ Call("close", listen_id) /\ listen_id' = Nil /\ listen_id # Nil
  BY DEF CloseListen, Command
<1>2. listen_id \in Ids
  BY <1>1 DEF GateInv, TypeOK
<1>3. ctrl' \in Seq(RequestType)
  BY <1>1, <1>2, CallType DEF GateInv
<1>4. TypeOK'
  BY <1>1, <1>3 DEF GateInv, TypeOK, TableTypeOK, tableVars
<1>. QED  BY <1>1, <1>4, NoMail, QuietStep DEF GateInv, SockMonotone

LEMMA StartListenType ==
    ASSUME TypeOK, NEW a, start_listen(a)
    PROVE  /\ SockMonotone
           /\ listen_id' \in Ids \cup {Nil}
           /\ ctrl' \in Seq(RequestType)
           /\ sock' \in [Ids -> SockStates]
<1>1. ASSUME NEW id \in Ids, listen_id' = id, Become(id, "bound"), Call("start", id)
      PROVE  /\ SockMonotone
             /\ listen_id' \in Ids \cup {Nil}
             /\ ctrl' \in Seq(RequestType)
             /\ sock' \in [Ids -> SockStates]
  BY <1>1, BecomeType, CallType
<1>2. CASE listen_id' \in {listen_id, Nil} /\ UNCHANGED <<ctrl, sock>>
  BY <1>2 DEF TypeOK, SockMonotone
<1>. QED  BY <1>1, <1>2 DEF start_listen

LEMMA ListenPreserves ==
    ASSUME GateInv, Listen
    PROVE  GateInv'
<1>1. /\ UNCHANGED <<tableVars, status, broker, conn, buf, mail, assigned>>
      /\ start_listen(bind)
      /\ bind' = bind \/ bind' = CutAddress(bind)
  BY DEF Listen, Command
<1>2. bind' \in {"", "host:port", "port", "host"}
  BY <1>1 DEF GateInv, TypeOK, CutAddress
<1>3. TypeOK'
  BY <1>1, <1>2, StartListenType DEF GateInv, TypeOK, TableTypeOK, tableVars
<1>. QED  BY <1>1, <1>3, NoMail, StartListenType, QuietStep DEF GateInv

LEMMA InitPreserves ==
    ASSUME GateInv, NEW parm \in BindParms, gate_init(parm)
    PROVE  GateInv'
<1>1. UNCHANGED <<tableVars, broker, conn, buf, mail, assigned>>
  BY DEF gate_init, histVars
<1>2. CASE parm = "!"
  <2>1. UNCHANGED <<listen_id, bind, ctrl, sock>> /\ status' = "running"
    BY <1>2 DEF gate_init
  <2>2. TypeOK'
    BY <1>1, <2>1 DEF GateInv, TypeOK, TableTypeOK, tableVars
  <2>. QED  BY <1>1, <2>1, <2>2, NoMail, QuietStep DEF GateInv, SockMonotone
<1>3. CASE parm # "!"
  <2>1. /\ start_listen(parm) /\ bind' = parm
        /\ status' \in {"failed", "running"}
    BY <1>3 DEF gate_init
  <2>2. TypeOK'
    BY <1>1, <1>3, <2>1, StartListenType, BindAssumption
    DEF GateInv, TypeOK, TableTypeOK, tableVars
  <2>. QED  BY <1>1, <2>1, <2>2, NoMail, StartListenType, QuietStep DEF GateInv
<1>. QED  BY <1>2, <1>3

\* Naming an agent touches a slot in use, and not its id.
LEMMA ForwardPreserves ==
    ASSUME GateInv, NEW id \in Ids, NEW agent \in Handles \cup {0},
           NEW client \in Clients, Forward(id, agent, client)
    PROVE  GateInv'
<1> DEFINE i == Lookup(id)
<1>1. /\ UNCHANGED <<tableVars, status, listen_id, broker, bind, buf, mail, ctrl, sock>>
      /\ conn' = [conn EXCEPT ![i] = [@ EXCEPT !.agent = agent, !.client = client]]
      /\ assigned' = [assigned EXCEPT ![id] = agent]
      /\ i # Nil
  BY DEF Forward, Command
<1>2. i \in Slots /\ slot[i] # Nil
  BY <1>1, LookupHolds DEF UsedSlots
<1> HIDE DEF i
<1>3. \A s \in Slots : s # i => conn'[s] = conn[s]
  BY <1>1, <1>2 DEF GateInv, TypeOK
<1>4. conn'[i].id = conn[i].id
  BY <1>1, <1>2 DEF GateInv, TypeOK, ConnType
<1>5. TypeOK'
  <2>1. conn' \in [Slots -> ConnType]
    BY <1>1, <1>2 DEF GateInv, TypeOK, ConnType
  <2>2. assigned' \in [Ids -> Handles \cup {0}]
    BY <1>1 DEF GateInv, TypeOK
  <2>. QED  BY <1>1, <2>1, <2>2 DEF GateInv, TypeOK, TableTypeOK, tableVars
<1>6. TableInv'
  BY <1>1, StutterPreserves DEF GateInv
<1>7. SlotsClean' /\ ConnMatchesTable'
  BY <1>1, <1>2, <1>3, <1>4 DEF GateInv, SlotsClean, ConnMatchesTable, tableVars
<1>8. KnownSockets' /\ AcceptsFresh'
  BY <1>1 DEF GateInv, KnownSockets, AcceptsFresh, tableVars
<1>. QED  BY <1>5, <1>6, <1>7, <1>8 DEF GateInv

LEMMA ConnectPreserves ==
    ASSUME GateInv, NEW source \in Handles, NEW id \in Ids, Connect(source, id)
    PROVE  GateInv'
<1> DEFINE c == FirstFree(id)
<1>1. /\ UNCHANGED <<status, listen_id, broker, bind, buf, mail, ctrl>>
      /\ ~Full /\ sock[id] = "none" /\ InsertId(id) /\ Become(id, "connecting")
      /\ conn' = [conn EXCEPT ![c] = [@ EXCEPT !.agent = source, !.client = 0]]
      /\ assigned' = [assigned EXCEPT ![id] = source]
  BY DEF Connect, Command, Fresh
<1>2. id # Nil /\ \A i \in Slots : slot[i] # id
  BY <1>1, IdsAssumption DEF GateInv, KnownSockets, Nil
<1>3. /\ TableInv' /\ c \in Slots /\ slot[c] = Nil
      /\ \A s \in Slots : slot'[s] = IF s = c THEN id ELSE slot[s]
      /\ conn[c] = BlankConn
  BY <1>1, <1>2, InsertEffect
<1>4. /\ SockMonotone
      /\ sock' \in [Ids -> SockStates]
  BY <1>1, BecomeType DEF GateInv
<1>5. sock'[id] # "none"
  BY <1>1 DEF Become, GateInv, TypeOK
<1> HIDE DEF c
<1>6. /\ conn' = [conn EXCEPT ![c] = [@ EXCEPT !.agent = source, !.client = 0]]
      /\ conn \in [Slots -> ConnType]
      /\ c \in Slots /\ conn[c].id = Nil
  <2>1. conn[c].id = Nil
    BY <1>3 DEF BlankConn
  <2>2. conn \in [Slots -> ConnType]
    BY DEF GateInv, TypeOK
  <2>. QED  BY <1>1, <1>3, <2>1, <2>2, Zenon
<1>7. /\ \A s \in Slots : s # c => conn'[s] = conn[s]
       /\ conn'[c].id = Nil
  BY <1>6
<1>8. TypeOK'
  <2>1. conn' \in [Slots -> ConnType]
    BY <1>6, ZenonT(40) DEF ConnType
  <2>2. assigned' \in [Ids -> Handles \cup {0}]
    BY <1>1 DEF GateInv, TypeOK
  <2>3. TableTypeOK'
    BY <1>3 DEF TableInv
  <2>. QED  BY <1>1, <1>4, <2>1, <2>2, <2>3 DEF GateInv, TypeOK
<1>9. SlotsClean' /\ ConnMatchesTable'
  BY <1>1, <1>2, <1>3, <1>7 DEF GateInv, SlotsClean, ConnMatchesTable
<1>10. KnownSockets'
  <2>1. \A s \in Slots : slot[s] # Nil => slot[s] \in Ids /\ sock[slot[s]] # "none"
    BY DEF GateInv, KnownSockets, TypeOK, TableTypeOK
  <2>. QED  BY <1>3, <1>4, <1>5, <2>1 DEF KnownSockets, SockMonotone
<1>11. AcceptsFresh'
  <2>1. mail \in Seq(EventType)
    BY DEF GateInv, TypeOK
  <2>2. \A k \in 1 .. Len(mail) : mail[k].type = "accept" =>
            mail[k].ud \in Ids /\ mail[k].ud # id
    BY <1>1, <2>1 DEF EventType, GateInv, AcceptsFresh
  <2>. QED
    BY <1>1, <1>3, <1>4, <2>2 DEF GateInv, AcceptsFresh, SockMonotone
<1>. QED  BY <1>3, <1>8, <1>9, <1>10, <1>11 DEF GateInv

LEMMA ReleasePreserves ==
    ASSUME GateInv, gate_release
    PROVE  GateInv'
<1> DEFINE Req == RequestType
           last == IF listen_id = Nil THEN <<>> ELSE <<Request("close", listen_id)>>
<1>1. /\ UNCHANGED <<listen_id, broker, bind, sock, assigned>>
      /\ status' = "released" /\ ClearIds /\ mail' = <<>>
      /\ conn' = [i \in Slots |-> BlankConn] /\ buf' = [i \in Slots |-> BlankFrame]
  BY DEF gate_release, histVars
<1>n. PICK n \in 0 .. Cap : \E q \in [1 .. n -> Named] :
         ctrl' = ctrl \o [k \in 1 .. n |-> Request("close", conn[q[k]].id)] \o last
  BY DEF gate_release
<1>2. PICK q \in [1 .. n -> Named] :
         ctrl' = ctrl \o [k \in 1 .. n |-> Request("close", conn[q[k]].id)] \o last
  BY <1>n
<1>3. ctrl' \in Seq(Req)
  <2>1. ctrl \in Seq(Req)
    BY DEF GateInv, TypeOK
  <2>2. \A k \in 1 .. n : Request("close", conn[q[k]].id) \in Req
    <3>1. \A i \in Named : conn[i].id \in Ids
      <4>1. \A i \in Slots : conn[i].id \in Ids \cup {Nil}
        BY DEF GateInv, TypeOK, ConnType
      <4>. QED  BY <4>1 DEF Named, Nil
    <3>2. \A k \in 1 .. n : q[k] \in Named
      BY <1>2
    <3>. QED  BY <3>1, <3>2 DEF Request, RequestType
  <2>3. n \in Nat
    BY CapAssumption
  <2>4. [k \in 1 .. n |-> Request("close", conn[q[k]].id)] \in Seq(Req)
    BY <2>2, <2>3
  <2>5. last \in Seq(Req)
    <3>1. CASE listen_id = Nil
      BY <3>1
    <3>2. CASE listen_id # Nil
      <4>1. Request("close", listen_id) \in Req
        BY <3>2 DEF GateInv, TypeOK, Request, RequestType
      <4>. QED  BY <3>2, <4>1
    <3>. QED  BY <3>1, <3>2
  <2> HIDE DEF last, Req
  <2>. QED  BY <1>2, <2>1, <2>4, <2>5, ConcatInSeq
<1>4. TableInv'
  BY <1>1, ClearPreserves
<1>5. TypeOK'
  <2>1. conn' \in [Slots -> ConnType]
    BY <1>1 DEF BlankConn, ConnType
  <2>2. TableTypeOK' /\ mail' \in Seq(EventType) /\ DOMAIN buf' = Slots
    BY <1>1, <1>4 DEF TableInv
  <2>. QED  BY <1>1, <1>3, <2>1, <2>2 DEF GateInv, TypeOK
<1>6. SlotsClean' /\ ConnMatchesTable' /\ KnownSockets'
  BY <1>1 DEF SlotsClean, ConnMatchesTable, KnownSockets, BlankConn, ClearIds,
              EmptyTable
<1>7. AcceptsFresh'
  BY <1>1 DEF AcceptsFresh
<1>. QED  BY <1>4, <1>5, <1>6, <1>7 DEF GateInv

-----------------------------------------------------------------------------

LEMMA InitialGateInv == Init => GateInv
<1> SUFFICES ASSUME Init  PROVE GateInv
  OBVIOUS
<1>1. TableInv
  BY EmptyTableInv DEF Init, TableInit
<1>2. TypeOK
  <2>1. conn \in [Slots -> ConnType]
    BY DEF Init, BlankConn, ConnType
  <2>2. mail \in Seq(EventType) /\ ctrl \in Seq(RequestType)
    BY EmptyInSeq DEF Init
  <2>3. /\ TableTypeOK /\ DOMAIN buf = Slots
        /\ assigned \in [Ids -> Handles \cup {0}]
        /\ sock \in [Ids -> SockStates]
    BY <1>1 DEF Init, TableInv, SockStates
  <2>4. /\ status = "created" /\ listen_id = Nil /\ broker = 0 /\ bind = ""
    BY DEF Init
  <2>. QED  BY <2>1, <2>2, <2>3, <2>4 DEF TypeOK
<1>3. SlotsClean /\ ConnMatchesTable /\ KnownSockets
  BY DEF Init, TableInit, EmptyTable, SlotsClean, ConnMatchesTable, KnownSockets,
         BlankConn
<1>4. AcceptsFresh
  <2>1. mail = <<>>
    BY DEF Init
  <2>2. 1 .. Len(mail) = {}
    BY <2>1
  <2>. QED  BY <2>2, Zenon DEF AcceptsFresh
<1>. QED  BY <1>1, <1>2, <1>3, <1>4 DEF GateInv

LEMMA NextPreserves == GateInv /\ [Next]_vars => GateInv'
<1> SUFFICES ASSUME GateInv, [Next]_vars  PROVE GateInv'
  OBVIOUS
<1>1. CASE SockStep
  BY <1>1, SockStartPreserves, SockClosePreserves, SockSendPreserves DEF SockStep
<1>2. CASE Peer
  BY <1>2, NewPeerPreserves, PeerSendsPreserves, PeerClosesPreserves DEF Peer
<1>3. CASE \E id \in Ids : Dialled(id)
  BY <1>3, DialledPreserves
<1>4. CASE GateStep
  BY <1>4, OnDataPreserves, OnConnectPreserves, OnClosePreserves, OnAcceptPreserves
  DEF GateStep
<1>5. CASE TextCommand
  BY <1>5, KickStartPreserves, ForwardPreserves, BrokerPreserves, ConnectPreserves,
     CloseListenPreserves, ListenPreserves
  DEF TextCommand
<1>6. CASE \E parm \in BindParms : gate_init(parm)
  BY <1>6, InitPreserves
<1>7. CASE gate_release
  BY <1>7, ReleasePreserves
<1>8. CASE UNCHANGED vars
  BY <1>8, NoMail, QuietStep
  DEF GateInv, vars, tableVars, gateVars, netVars, histVars, SockMonotone, TypeOK,
      TableTypeOK
<1>. QED
  BY <1>1, <1>2, <1>3, <1>4, <1>5, <1>6, <1>7, <1>8 DEF Next

(* The table, the connection array, the mailbox and the socket thread never *)
(* disagree on which socket lives in which slot, whatever commands come and *)
(* however socket events and commands interleave.                           *)
THEOREM GateConsistent == Spec => []GateInv
BY InitialGateInv, NextPreserves, PTL DEF Spec

(* The variables keep their types.                                          *)
THEOREM GateTypes == Spec => []TypeOK
<1>1. GateInv => TypeOK
  BY DEF GateInv
<1>. QED  BY <1>1, GateConsistent, PTL

(* A slot taken by a new client carries nothing of the client before it.    *)
THEOREM GateSlotsClean == Spec => []SlotsClean
<1>1. GateInv => SlotsClean
  BY DEF GateInv
<1>. QED  BY <1>1, GateConsistent, PTL

(* hashid_insert is only called with a socket that is not in the table, and *)
(* after hashid_full it always finds a slot: assert(c) cannot fail.         *)
THEOREM GateInsertsFind ==
    Spec => [](\A id \in Ids : ~Full => FreeProbes(id) # {})
<1>1. GateInv => \A id \in Ids : ~Full => FreeProbes(id) # {}
  <2> SUFFICES ASSUME GateInv, NEW id \in Ids, ~Full
               PROVE  FreeProbes(id) # {}
    OBVIOUS
  <2>1. TableInv /\ id \in Nat
    BY IdsAssumption DEF GateInv
  <2>. QED  BY <2>1, NotFullHasFree
<1>. QED  BY <1>1, GateConsistent, PTL

-----------------------------------------------------------------------------
(* Socket events that are older than the gate's state: which entries they   *)
(* find, what the watchdog is told, where frames go, and what gate_release  *)
(* closes.                                                                  *)


\* Some slot has socket id; what may end a socket.
Held(id) == \E i \in Slots : slot[i] = id
Ends == {"close", "error"}

-----------------------------------------------------------------------------
(* The socket thread: its events, the requests to it, and the states of the *)
(* sockets.                                                                 *)

\* Before gate_init, and after it failed, nothing has happened.
Unused ==
    status \in {"created", "failed"} =>
        /\ mail = <<>> /\ ctrl = <<>> /\ listen_id = Nil
        /\ \A id \in Ids : sock[id] = "none"

\* How far a socket has come when an event about it waits.
Posted(e) ==
    /\ e.type = "accept"  => sock[e.ud] = "accepted"
    /\ e.type = "connect" => sock[e.id] \in {"open", "listen", "closed"}
    /\ e.type = "data"    => sock[e.id] \in {"open", "closed"}
    /\ e.type \in Ends    => sock[e.id] = "closed"

EventsPosted == \A e \in Range(mail) : Posted(e)

\* Requests and the listener are of sockets that exist.
RequestsKnown == \A r \in Range(ctrl) : sock[r.id] # "none"

ListenerKnown == listen_id # Nil => sock[listen_id] \in {"bound", "listen", "closed"}

\* No data after the end of a socket.
DataFirst ==
    \A j, k \in 1 .. Len(mail) :
        j < k /\ mail[j].type \in Ends /\ mail[k].type = "data" => mail[j].id # mail[k].id

\* Nothing is asked about a socket whose accept event waits.
AcceptsQuiet ==
    \A e \in Range(mail), r \in Range(ctrl) : e.type = "accept" => r.id # e.ud

ThreadInv ==
    /\ Unused /\ EventsPosted /\ RequestsKnown /\ ListenerKnown
    /\ DataFirst /\ AcceptsQuiet

-----------------------------------------------------------------------------
(* The entries: while the gate runs, what a socket may still do finds its   *)
(* entry, and an entry whose socket is closed has the end on its way.       *)

OpenHeld ==
    status = "running" =>
        /\ \A id \in Ids : sock[id] \in {"open", "connecting"} => Held(id)
        /\ \A e \in Range(mail) : e.type = "data" => Held(e.id)
        /\ \A r \in Range(ctrl) : r.op = "start" =>
             Held(r.id) \/ sock[r.id] \in {"bound", "listen", "closed"}

EndOnTheWay ==
    \A id \in Ids : Held(id) /\ sock[id] = "closed" =>
        \E e \in Range(mail) : e.type \in Ends /\ e.id = id

HeldStatus == (\E i \in Slots : slot[i] # Nil) => status \in {"running", "assert"}

EntryInv == OpenHeld /\ EndOnTheWay /\ HeldStatus

-----------------------------------------------------------------------------
(* What the other services were told, and the agents they named.            *)

NoteType ==
    [what : {"accept", "close", "connected"}, to : Nat]
      \cup [what : {"data"}, to : Nat, body : Seq(Int), from : Nat]

HistoryTypes == log \in [Ids -> Seq(NoteType)] /\ buf \in [Slots -> FrameType]

\* A socket the gate has not yet heard of.
Unheard(id) ==
    sock[id] = "none" \/ \E e \in Range(mail) : e.type = "accept" /\ e.ud = id

LogOrder ==
    \A id \in Ids : \A k \in 1 .. Len(log[id]) :
        /\ log[id][k].what = "accept" => k = 1 /\ Watchdog # 0
        /\ log[id][k].what = "close"  => k = Len(log[id])

AcceptedHeld ==
    \A id \in Ids : Noted(id, "accept") /\ ~Noted(id, "close") /\ status = "running"
        => Held(id)

\* Nothing is told of an unheard socket, and the last word is not early.
NothingEarly ==
    \A id \in Ids :
        Unheard(id) \/ status \in {"created", "failed"} => log[id] = <<>> /\ assigned[id] = 0

CloseIsTrue == \A id \in Ids : Noted(id, "close") => ~Held(id) /\ sock[id] = "closed"

\* An entry has the agent last named for its socket, and an accepted one its
\* socket's id.
ConnNamed ==
    \A i \in Slots : slot[i] # Nil =>
        /\ conn[i].agent = assigned[slot[i]]
        /\ Noted(slot[i], "accept") => conn[i].id = slot[i]

ReleaseAsks ==
    status = "released" =>
        \A id \in Ids : Noted(id, "accept") \/ id = listen_id =>
            sock[id] = "closed" \/ Request("close", id) \in Range(ctrl)

LogInv ==
    /\ HistoryTypes /\ LogOrder /\ AcceptedHeld /\ NothingEarly /\ CloseIsTrue
    /\ ConnNamed /\ ReleaseAsks

(* The inductive invariant.                                                 *)
OrderInv == GateInv /\ ThreadInv /\ EntryInv /\ LogInv

-----------------------------------------------------------------------------
(* The loop of dispatch_message.                                            *)

NotesTo(to) == [what : {"data"}, to : {to}, body : Seq(Int), from : Nat]
DrainType(c) == [buf : FrameType, notes : Seq(NotesTo(Reader(c))), big : BOOLEAN]

\* The loop of dispatch_message ends, sends frames to _forward's choice of
\* receiver and nothing else, and goes on from what one turn leaves.
LEMMA DrainUnfolds ==
    ASSUME NEW c \in ConnType, NEW f0 \in FrameType
    PROVE  /\ Drain(c, f0) \in DrainType(c)
           /\ LET size == HeaderResult(f0)
                  a    == AfterHeader(f0)
              IN  Drain(c, f0) =
                    IF size < 0 THEN [buf |-> a, notes |-> <<>>, big |-> FALSE]
                    ELSE IF size = 0 THEN Drain(c, a)
                    ELSE IF size >= BigFrame
                         THEN [buf |-> BlankFrame, notes |-> <<>>, big |-> TRUE]
                    ELSE IF HasReader(c)
                         THEN LET r == Drain(c, [header |-> 0, bytes |-> Drop(a.bytes, size)])
                              IN  [r EXCEPT !.notes = <<DataNote(c, Take(a.bytes, size))>> \o @]
                    ELSE Drain(c, [a EXCEPT !.header = 0])
<1> DEFINE Size(f) == HeaderResult(f)
           After(f) == AfterHeader(f)
           Skipped(f) == [After(f) EXCEPT !.header = 0]
           Rest(f) == [header |-> 0, bytes |-> Drop(After(f).bytes, Size(f))]
           Note(f) == DataNote(c, Take(After(f).bytes, Size(f)))
           Body(f, g) ==
             IF Size(f) < 0 THEN [buf |-> After(f), notes |-> <<>>, big |-> FALSE]
             ELSE IF Size(f) = 0 THEN g[After(f)]
             ELSE IF Size(f) >= BigFrame
                  THEN [buf |-> BlankFrame, notes |-> <<>>, big |-> TRUE]
             ELSE IF HasReader(c)
                  THEN LET r == g[Rest(f)] IN [r EXCEPT !.notes = <<Note(f)>> \o @]
             ELSE g[Skipped(f)]
           Eqn(g) == g = [f \in FrameType |-> Body(f, g)]
           base == {f \in FrameType : Size(f) < 0 \/ (Size(f) # 0 /\ Size(f) >= BigFrame)}
           B == [f \in FrameType |->
                   IF Size(f) < 0 THEN [buf |-> After(f), notes |-> <<>>, big |-> FALSE]
                   ELSE [buf |-> BlankFrame, notes |-> <<>>, big |-> TRUE]]
           N == [f \in FrameType |-> IF Size(f) = 0 THEN After(f)
                                     ELSE IF HasReader(c) THEN Rest(f) ELSE Skipped(f)]
           R == DrainType(c)
           E == [p \in FrameType \X R |->
                   IF Size(p[1]) = 0 \/ ~HasReader(c) THEN p[2]
                   ELSE [p[2] EXCEPT !.notes = <<Note(p[1])>> \o @]]
           mu == [f \in FrameType |-> IF f.header = 0 THEN 2 * Len(f.bytes) ELSE 2 * Len(f.bytes) + 1]
<1>b. BigFrame \in Nat
  BY BigFrameAssumption
<1>1. \A f \in FrameType : mu[f] \in Nat
  BY DEF FrameType
<1>2. \A f \in FrameType : f \in base => B[f] \in R
  <2>1. BlankFrame \in FrameType
    BY DEF BlankFrame, FrameType
  <2>2. <<>> \in Seq(NotesTo(Reader(c)))
    BY EmptyInSeq
  <2>. QED  BY <2>1, <2>2, HeaderStep DEF DrainType
<1>3. ASSUME NEW f \in FrameType, f \notin base
      PROVE  N[f] \in FrameType /\ mu[N[f]] < mu[f]
  <2>1. Size(f) \in Int /\ Size(f) >= 0
    BY <1>3, HeaderStep
  <2>2. /\ After(f) \in FrameType
        /\ After(f).header = Size(f) /\ Size(f) <= Len(After(f).bytes)
        /\ \/ f.header # 0 /\ After(f) = f
           \/ f.header = 0 /\ Len(After(f).bytes) = Len(f.bytes) - HeaderSize
    BY <2>1, HeaderStep
  <2>3. /\ After(f).bytes \in Seq(Int) /\ Len(After(f).bytes) \in Nat
        /\ Len(f.bytes) \in Nat /\ HeaderSize \in Nat \ {0}
    BY <2>2, HeaderSizeAssumption DEF FrameType
  <2> HIDE DEF Size, After
  <2>4. CASE Size(f) = 0
    <3>1. N[f] = After(f) /\ f.header = 0
      BY <2>2, <2>4
    <3>2. mu[After(f)] = 2 * Len(After(f).bytes) /\ mu[f] = 2 * Len(f.bytes)
      BY <2>2, <2>3, <2>4, <3>1
    <3>. QED  BY <2>2, <2>3, <2>4, <3>1, <3>2
  <2>5. CASE Size(f) # 0 /\ HasReader(c)
    <3>1. N[f] = Rest(f)
      BY <2>5
    <3>2. /\ Drop(After(f).bytes, Size(f)) \in Seq(Int)
          /\ Len(Drop(After(f).bytes, Size(f))) = Len(After(f).bytes) - Size(f)
      <4>1. Size(f) \in 0 .. Len(After(f).bytes)
        BY <2>1, <2>2, <2>3
      <4>. QED  BY <2>3, <4>1, SubSeqFacts
    <3>3. Rest(f) \in FrameType
      BY <3>2 DEF FrameType
    <3>4. mu[Rest(f)] = 2 * (Len(After(f).bytes) - Size(f))
      BY <3>2, <3>3
    <3>5. mu[f] >= 2 * Len(f.bytes) /\ mu[f] \in Nat
      <4>1. mu[f] = IF f.header = 0 THEN 2 * Len(f.bytes) ELSE 2 * Len(f.bytes) + 1
        OBVIOUS
      <4>. QED  BY <2>3, <4>1
    <3> HIDE DEF mu, N, Rest
    <3>. QED  BY <2>1, <2>2, <2>3, <2>5, <3>1, <3>3, <3>4, <3>5, SMTT(30)
  <2>6. CASE Size(f) # 0 /\ ~HasReader(c)
    <3>1. N[f] = Skipped(f)
      BY <2>6
    <3>2. Skipped(f) \in FrameType /\ Skipped(f).bytes = After(f).bytes /\ Skipped(f).header = 0
      <4>1. Skipped(f) = [header |-> 0, bytes |-> After(f).bytes]
        BY <2>2 DEF FrameType
      <4> HIDE DEF Skipped
      <4>. QED  BY <2>3, <4>1 DEF FrameType
    <3>3. mu[Skipped(f)] = 2 * Len(After(f).bytes)
      BY <2>3, <3>2
    <3>4. mu[f] = IF f.header = 0 THEN 2 * Len(f.bytes) ELSE 2 * Len(f.bytes) + 1
      OBVIOUS
    <3> HIDE DEF mu, N, Skipped
    <3>. QED  BY <2>1, <2>2, <2>3, <2>6, <3>1, <3>2, <3>3, <3>4
  <2>. QED  BY <2>4, <2>5, <2>6
<1>4. ASSUME NEW f \in FrameType, f \notin base, NEW r \in R, Size(f) # 0
      PROVE  [r EXCEPT !.notes = <<Note(f)>> \o @] \in R
  <2>1. Size(f) \in Int /\ Size(f) >= 0
    BY <1>4, HeaderStep
  <2>2. /\ After(f) \in FrameType /\ Size(f) \in 0 .. Len(After(f).bytes)
        /\ After(f).bytes \in Seq(Int)
    BY <2>1, HeaderStep DEF FrameType
  <2>3. Take(After(f).bytes, Size(f)) \in Seq(Int)
    BY <2>2, SubSeqFacts
  <2>4. Note(f) \in NotesTo(Reader(c))
    <3>1. c.client \in Clients \cup {0}
      BY DEF ConnType
    <3>2. (IF broker = 0 /\ c.agent # 0 THEN c.client ELSE 0) \in Nat
      <4>1. Clients \subseteq Nat
        BY HandlesAssumption
      <4>2. Clients \cup {0} \subseteq Nat
        BY <4>1
      <4>3. c.client \in Nat
        BY <3>1, <4>2, Zenon
      <4>. QED  BY <4>3
    <3> HIDE DEF Size, After
    <3>. QED  BY <2>3, <3>2 DEF DataNote, NotesTo
  <2>5. r.notes \in Seq(NotesTo(Reader(c))) /\ r.buf \in FrameType /\ r.big \in BOOLEAN
    BY DEF DrainType
  <2> HIDE DEF Note
  <2>6. <<Note(f)>> \o r.notes \in Seq(NotesTo(Reader(c)))
    BY <2>4, <2>5
  <2>. QED  BY <2>5, <2>6 DEF DrainType
<1>5. \A f \in FrameType, r \in R : f \notin base => E[<<f, r>>] \in R
  <2> HIDE DEF Note, R
  <2>. QED  BY <1>4
<1>6. \E g \in [FrameType -> R] : Solves(g, FrameType, base, B, N, E)
  <2> HIDE DEF base, B, N, E, mu, R
  <2>. QED  BY <1>1, <1>2, <1>3, <1>5, RecursionExists
<1>7. \E g : Eqn(g)
  <2>1. PICK g \in [FrameType -> R] : Solves(g, FrameType, base, B, N, E)
    BY <1>6
  <2>2. ASSUME NEW f \in FrameType  PROVE g[f] = Body(f, g)
    <3> HIDE DEF R, Note, Rest, Skipped, After, Size
    <3>1. CASE f \in base
      BY <2>1, <3>1 DEF Solves
    <3>2. CASE f \notin base
      <4>1. N[f] \in FrameType /\ g[N[f]] \in R
        BY <1>3, <3>2
      <4>2. g[f] = E[<<f, g[N[f]]>>]
        BY <2>1, <3>2 DEF Solves
      <4>3. E[<<f, g[N[f]]>>] = IF Size(f) = 0 \/ ~HasReader(c) THEN g[N[f]]
                                ELSE [g[N[f]] EXCEPT !.notes = <<Note(f)>> \o @]
        BY <4>1
      <4>. QED  BY <3>2, <4>2, <4>3
    <3>. QED  BY <3>1, <3>2
  <2>3. Eqn(g)
    <3> HIDE DEF Body
    <3>. QED  BY <2>2
  <2> HIDE DEF Eqn
  <2>. QED  BY <2>3
<1> DEFINE go == CHOOSE g : Eqn(g)
<1>8. Eqn(go)
  <2> HIDE DEF Eqn
  <2>. QED  BY <1>7, Zenon
<1>9. \A f : Drain(c, f) = go[f]
  BY DEF Drain, FrameType
<1> HIDE DEF go
<1>10. go[f0] \in R
  <2> DEFINE T == {f \in FrameType : go[f] \in R}
  <2>1. ASSUME NEW f \in FrameType, \A y \in FrameType : mu[y] < mu[f] => y \in T
        PROVE  f \in T
    <3>1. go[f] = Body(f, go)
      <4> HIDE DEF Body
      <4>. QED  BY <1>8
    <3>2. CASE f \in base
      <4>1. go[f] = B[f]
        <5> HIDE DEF R, Note, Rest, Skipped, After, Size
        <5>. QED BY <3>1, <3>2
      <4>. QED  BY <1>2, <3>2, <4>1
    <3>3. CASE f \notin base
      <4>1. N[f] \in FrameType /\ go[N[f]] \in R
        <5> HIDE DEF N, mu, R
        <5>. QED  BY <1>3, <2>1, <3>3
      <4>2. go[f] = IF Size(f) = 0 \/ ~HasReader(c) THEN go[N[f]]
                    ELSE [go[N[f]] EXCEPT !.notes = <<Note(f)>> \o @]
        <5> HIDE DEF R, Note, Rest, Skipped, After, Size
        <5>. QED  BY <3>1, <3>3
      <4>3. Size(f) # 0 => [go[N[f]] EXCEPT !.notes = <<Note(f)>> \o @] \in R
        <5> HIDE DEF N, R, Note, Size
        <5>. QED BY <1>4, <3>3, <4>1
      <4> HIDE DEF N, R, Note, Size
      <4>. QED  BY <4>1, <4>2, <4>3
    <3>. QED  BY <3>2, <3>3
  <2> HIDE DEF T, mu
  <2>2. FrameType \subseteq T
    BY <1>1, <2>1, MeasureInduction
  <2>. QED  BY <2>2 DEF T
<1>11. go[f0] = Body(f0, go)
  <2> HIDE DEF Body
  <2>. QED  BY <1>8
<1>12. Drain(c, f0) = Body(f0, go)
  <2> HIDE DEF Body
  <2>. QED  BY <1>9, <1>11
<1>13. /\ go[After(f0)] = Drain(c, After(f0)) /\ go[Rest(f0)] = Drain(c, Rest(f0))
       /\ go[Skipped(f0)] = Drain(c, Skipped(f0))
  <2> HIDE DEF After, Rest, Skipped
  <2>. QED  BY <1>9
<1>14. Drain(c, f0) =
         IF Size(f0) < 0 THEN [buf |-> After(f0), notes |-> <<>>, big |-> FALSE]
         ELSE IF Size(f0) = 0 THEN Drain(c, After(f0))
         ELSE IF Size(f0) >= BigFrame
              THEN [buf |-> BlankFrame, notes |-> <<>>, big |-> TRUE]
         ELSE IF HasReader(c)
              THEN [Drain(c, Rest(f0)) EXCEPT !.notes = <<Note(f0)>> \o @]
         ELSE Drain(c, Skipped(f0))
  <2> HIDE DEF After, Rest, Skipped, Note, Size
  <2>. QED  BY <1>12, <1>13
<1>15. Drain(c, f0) \in DrainType(c)
  BY <1>9, <1>10
<1>. QED  BY <1>14, <1>15

LEMMA DrainResult ==
    ASSUME NEW c \in ConnType, NEW f0 \in FrameType
    PROVE  Drain(c, f0) \in DrainType(c)
BY DrainUnfolds

-----------------------------------------------------------------------------
(* The steps of the socket thread and of the peers.                         *)

\* One event about socket id is added, or none.
MailGains(id) ==
    \/ UNCHANGED mail
    \/ \E e \in EventType :
         /\ mail' = Append(mail, e) /\ e.type # "accept" /\ e.id = id /\ Posted(e)'
         /\ e.type = "data" => sock[id] = "open" /\ status = "running"

\* What such a step may do to socket id, and nothing to any other.
NetEffect(id) ==
    /\ SockUnchanged /\ status # "assert"
    /\ sock' \in [Ids -> SockStates]
    /\ \A j \in Ids : j # id => sock'[j] = sock[j]
    /\ sock[id] # "none"
    /\ \/ sock'[id] = sock[id]
       \/ /\ \A e \in Range(mail) : e.type = "accept" => e.ud # id
          /\ \/ sock'[id] = "closed"
             \/ sock[id] = "bound" /\ sock'[id] = "listen"
             \/ sock[id] \in {"accepted", "connecting"} /\ sock'[id] = "open"
                  /\ (status = "running" => Held(id))
    /\ MailGains(id)
    /\ sock'[id] = "closed" /\ sock[id] # "closed" /\ status = "running" =>
         \E e \in Range(mail') : e.type \in Ends /\ e.id = id
    /\ Range(ctrl') \subseteq Range(ctrl)
    /\ \A r \in Range(ctrl) : r \in Range(ctrl') \/ r.op # "close" \/ sock'[r.id] = "closed"

LEMMA NetMail ==
    ASSUME GateInv, NEW id \in Ids, MailGains(id)
    PROVE  /\ Range(mail) \subseteq Range(mail')
           /\ \A e \in Range(mail') : e \in Range(mail) \/
                (/\ e.type # "accept" /\ e.id = id /\ Posted(e)'
                 /\ e.type = "data" => sock[id] = "open" /\ status = "running")
<1>1. CASE UNCHANGED mail
  BY <1>1
<1>2. ASSUME NEW e \in EventType,
             /\ mail' = Append(mail, e) /\ e.type # "accept" /\ e.id = id /\ Posted(e)'
             /\ e.type = "data" => sock[id] = "open" /\ status = "running"
      PROVE  /\ Range(mail) \subseteq Range(mail')
             /\ \A x \in Range(mail') : x \in Range(mail) \/
                  (/\ x.type # "accept" /\ x.id = id /\ Posted(x)'
                   /\ x.type = "data" => sock[id] = "open" /\ status = "running")
  <2>1. mail \in Seq(EventType)
    BY DEF GateInv, TypeOK
  <2>2. Range(mail') = Range(mail) \cup {e}
    BY <1>2, <2>1, RangeAppend
  <2>. QED  BY <1>2, <2>2, Zenon
<1>. QED  BY <1>1, <1>2 DEF MailGains

LEMMA NetKeepsDataFirst ==
    ASSUME GateInv, ThreadInv, NEW id \in Ids, MailGains(id)
    PROVE  DataFirst'
<1>1. CASE UNCHANGED mail
  BY <1>1 DEF ThreadInv, DataFirst
<1>2. ASSUME NEW e \in EventType, mail' = Append(mail, e), e.id = id,
             e.type = "data" => sock[id] = "open"
      PROVE  DataFirst'
  <2>1. mail \in Seq(EventType)
    BY DEF GateInv, TypeOK
  <2>2. /\ Len(mail') = Len(mail) + 1 /\ Len(mail) \in Nat
        /\ mail'[Len(mail) + 1] = e
        /\ \A k \in 1 .. Len(mail) : mail'[k] = mail[k]
    BY <1>2, <2>1
  <2>3. \A k \in 1 .. Len(mail) : mail[k].type \in Ends => sock[mail[k].id] = "closed"
    BY <2>1 DEF ThreadInv, EventsPosted, Posted, Range
  <2>4. SUFFICES ASSUME NEW j \in 1 .. Len(mail'), NEW k \in 1 .. Len(mail'), j < k,
                        mail'[j].type \in Ends, mail'[k].type = "data"
                 PROVE  mail'[j].id # mail'[k].id
    BY DEF DataFirst
  <2>5. j \in 1 .. Len(mail) /\ (k \in 1 .. Len(mail) \/ k = Len(mail) + 1)
    BY <2>2, <2>4
  <2>. QED  BY <1>2, <2>2, <2>3, <2>4, <2>5 DEF ThreadInv, DataFirst
<1>. QED  BY <1>1, <1>2 DEF MailGains

LEMMA NetKeepsThread ==
    ASSUME GateInv, ThreadInv, NEW id \in Ids, NetEffect(id)
    PROVE  ThreadInv'
<1>1. MailGains(id) /\ UNCHANGED <<status, listen_id>>
  BY DEF NetEffect, SockUnchanged, gateVars
<1>2. DataFirst'
  BY <1>1, NetKeepsDataFirst
<1>3. \A e \in Range(mail') : e \in Range(mail) \/
        (/\ e.type # "accept" /\ e.id = id /\ Posted(e)')
  BY <1>1, NetMail
<1>4. /\ \A e \in Range(mail) : e.id \in Ids /\ (e.type = "accept" => e.ud \in Ids)
      /\ \A r \in Range(ctrl) : r.id \in Ids
      /\ listen_id \in Ids \cup {Nil}
  <2>1. mail \in Seq(EventType) /\ ctrl \in Seq(RequestType)
    BY DEF GateInv, TypeOK
  <2>2. Range(mail) \subseteq EventType /\ Range(ctrl) \subseteq RequestType
    BY <2>1, RangeType
  <2>. QED  BY <2>2 DEF EventType, RequestType, GateInv, TypeOK
<1>5. Unused'
  <2>1. status \notin {"created", "failed"}
    BY DEF NetEffect, ThreadInv, Unused
  <2>. QED  BY <1>1, <2>1 DEF Unused
<1>6. EventsPosted'
  <2>1. ASSUME NEW e \in Range(mail)  PROVE Posted(e)'
    <3>1. Posted(e) /\ e.id \in Ids /\ (e.type = "accept" => e.ud \in Ids)
      BY <1>4 DEF ThreadInv, EventsPosted
    <3>. QED  BY <3>1 DEF Posted, NetEffect, Ends
  <2>. QED  BY <1>3, <2>1 DEF EventsPosted
<1>7. RequestsKnown'
  BY <1>4 DEF ThreadInv, RequestsKnown, NetEffect
<1>8. ListenerKnown'
  BY <1>1, <1>4 DEF ThreadInv, ListenerKnown, NetEffect
<1>9. AcceptsQuiet'
  BY <1>3 DEF ThreadInv, AcceptsQuiet, NetEffect
<1>. QED  BY <1>2, <1>5, <1>6, <1>7, <1>8, <1>9 DEF ThreadInv

LEMMA NetKeepsEntries ==
    ASSUME GateInv, ThreadInv, EntryInv, NEW id \in Ids, NetEffect(id)
    PROVE  EntryInv'
<1>1. MailGains(id) /\ UNCHANGED <<status, slot>>
  BY DEF NetEffect, SockUnchanged, gateVars, tableVars
<1>2. /\ Range(mail) \subseteq Range(mail')
      /\ \A e \in Range(mail') : e \in Range(mail) \/
           (e.id = id /\ (e.type = "data" => sock[id] = "open" /\ status = "running"))
  BY <1>1, NetMail
<1>3. \A j : Held(j)' <=> Held(j)
  BY <1>1 DEF Held
<1>4. \A r \in Range(ctrl) : r.id \in Ids
  <2>1. ctrl \in Seq(RequestType)
    BY DEF GateInv, TypeOK
  <2>2. Range(ctrl) \subseteq RequestType
    BY <2>1, RangeType
  <2>. QED  BY <2>2 DEF RequestType
<1>5. OpenHeld'
  <2> SUFFICES ASSUME status = "running"  PROVE OpenHeld'
    BY <1>1 DEF OpenHeld
  <2>1. \A j \in Ids : sock'[j] \in {"open", "connecting"} => Held(j)
    BY DEF EntryInv, OpenHeld, NetEffect
  <2>2. \A e \in Range(mail') : e.type = "data" => Held(e.id)
    BY <1>2 DEF EntryInv, OpenHeld
  <2>3. \A r \in Range(ctrl') : r.op = "start" =>
          Held(r.id) \/ sock'[r.id] \in {"bound", "listen", "closed"}
    BY <1>4 DEF EntryInv, OpenHeld, NetEffect
  <2>. QED  BY <1>3, <2>1, <2>2, <2>3 DEF OpenHeld
<1>6. EndOnTheWay'
  <2> SUFFICES ASSUME NEW j \in Ids, Held(j), sock'[j] = "closed"
               PROVE  \E e \in Range(mail') : e.type \in Ends /\ e.id = j
    BY <1>3 DEF EndOnTheWay
  <2>1. CASE sock[j] = "closed"
    BY <1>2, <2>1 DEF EntryInv, EndOnTheWay
  <2>2. CASE sock[j] # "closed"
    <3>1. j = id
      BY <2>2 DEF NetEffect
    <3>2. status = "running"
      <4>1. j # Nil
        BY IdsAssumption DEF Nil
      <4>. QED  BY <4>1 DEF EntryInv, HeldStatus, Held, NetEffect
    <3>. QED  BY <2>2, <3>1, <3>2 DEF NetEffect
  <2>. QED  BY <2>1, <2>2
<1>7. HeldStatus'
  BY <1>1 DEF EntryInv, HeldStatus
<1>. QED  BY <1>5, <1>6, <1>7 DEF EntryInv

LEMMA NetKeepsLog ==
    ASSUME GateInv, LogInv, NEW id \in Ids, NetEffect(id)
    PROVE  LogInv'
<1>1. MailGains(id) /\ UNCHANGED <<slot, status, listen_id, conn, buf, log, assigned>>
  BY DEF NetEffect, SockUnchanged, gateVars, tableVars, histVars
<1>2. \A e \in Range(mail') : e.type = "accept" => e \in Range(mail)
  BY <1>1, NetMail
<1>3. \A j : (Held(j)' <=> Held(j)) /\ \A w : Noted(j, w)' <=> Noted(j, w)
  BY <1>1 DEF Held, Noted
<1>4. HistoryTypes' /\ LogOrder'
  BY <1>1 DEF LogInv, HistoryTypes, LogOrder
<1>5. AcceptedHeld' /\ ConnNamed'
  BY <1>1, <1>3 DEF LogInv, AcceptedHeld, ConnNamed
<1>6. \A j \in Ids : sock[j] = "closed" => sock'[j] = "closed"
  BY DEF NetEffect
<1>7. NothingEarly'
  <2>1. \A j \in Ids : Unheard(j)' => Unheard(j)
    <3>1. \A j \in Ids : sock'[j] = "none" => sock[j] = "none"
      BY DEF NetEffect
    <3>. QED  BY <1>2, <3>1 DEF Unheard
  <2>. QED  BY <1>1, <2>1 DEF LogInv, NothingEarly
<1>8. CloseIsTrue'
  BY <1>3, <1>6 DEF LogInv, CloseIsTrue
<1>9. ReleaseAsks'
  <2>1. ASSUME NEW j \in Ids, Request("close", j) \in Range(ctrl)
        PROVE  sock'[j] = "closed" \/ Request("close", j) \in Range(ctrl')
    <3>1. Request("close", j).op = "close" /\ Request("close", j).id = j
      BY DEF Request
    <3>. QED  BY <2>1, <3>1 DEF NetEffect
  <2>. QED  BY <1>1, <1>3, <1>6, <2>1 DEF LogInv, ReleaseAsks
<1>. QED  BY <1>4, <1>5, <1>7, <1>8, <1>9 DEF LogInv

\* A request that is served leaves the pipe.
LEMMA Served ==
    ASSUME TypeOK, ctrl # <<>>, ctrl' = Tail(ctrl)
    PROVE  /\ Head(ctrl) \in Range(ctrl) /\ Head(ctrl).id \in Ids
           /\ Range(ctrl') \subseteq Range(ctrl)
           /\ \A r \in Range(ctrl) : r \in Range(ctrl') \/ r = Head(ctrl)
<1>1. ctrl \in Seq(RequestType)
  BY DEF TypeOK
<1>2. Range(ctrl) = Range(ctrl') \cup {Head(ctrl)}
  BY <1>1, RangeTail
<1>. QED  BY <1>2, TailOfCtrl

\* Posting a plain event about socket id.
LEMMA PostGains ==
    ASSUME TypeOK, NEW t \in {"connect", "close", "error"}, NEW id \in Ids,
           Post(Event(t, id)), Posted(Event(t, id))'
    PROVE  /\ MailGains(id)
           /\ t \in Ends /\ status = "running" =>
                \E e \in Range(mail') : e.type \in Ends /\ e.id = id
<1> DEFINE e == Event(t, id)
<1>1. e \in EventType /\ e.type = t /\ e.id = id
  BY DEF Event, EventType
<1> HIDE DEF e
<1>2. Post(e) /\ Posted(e)' /\ mail \in Seq(EventType)
  BY DEF e, TypeOK
<1>3. CASE status = "running"
  <2>1. mail' = Append(mail, e)
    BY <1>2, <1>3 DEF Post
  <2>2. e \in Range(mail')
    BY <1>1, <1>2, <2>1, RangeAppend
  <2>. QED  BY <1>1, <1>2, <2>1, <2>2 DEF MailGains
<1>4. CASE status # "running"
  BY <1>2, <1>4 DEF Post, MailGains
<1>. QED  BY <1>3, <1>4

\* Posted for the events that a step of the socket thread adds.
LEMMA PlainPosted ==
    ASSUME NEW id \in Ids
    PROVE  /\ sock'[id] \in {"open", "listen", "closed"} => Posted(Event("connect", id))'
           /\ sock'[id] = "closed" =>
                Posted(Event("close", id))' /\ Posted(Event("error", id))'
BY DEF Posted, Event, Ends

LEMMA SockStartEffect ==
    ASSUME OrderInv, SockStart, status # "assert"
    PROVE  \E id \in Ids : NetEffect(id)
<1> DEFINE id == Head(ctrl).id
<1>1. /\ TypeOK /\ id \in Ids /\ SockUnchanged
      /\ Head(ctrl) \in Range(ctrl) /\ Head(ctrl).op = "start"
      /\ Range(ctrl') \subseteq Range(ctrl)
      /\ \A r \in Range(ctrl) : r \in Range(ctrl') \/ r.op # "close"
  BY Served DEF OrderInv, GateInv, SockStart
<1>2. /\ sock[id] # "none"
      /\ \A e \in Range(mail) : e.type = "accept" => e.ud # id
      /\ status = "running" => Held(id) \/ sock[id] \in {"bound", "listen", "closed"}
  BY <1>1 DEF OrderInv, ThreadInv, RequestsKnown, AcceptsQuiet, EntryInv, OpenHeld
<1> HIDE DEF id
<1>3. \/ sock[id] = "accepted" /\ Become(id, "open") /\ Post(Event("connect", id))
      \/ sock[id] = "bound" /\ Become(id, "listen") /\ Post(Event("connect", id))
      \/ sock[id] = "open" /\ Post(Event("connect", id)) /\ UNCHANGED sock
      \/ sock[id] = "closed" /\ Post(Event("error", id)) /\ UNCHANGED sock
      \/ UNCHANGED <<mail, sock>>
  BY Zenon DEF SockStart, id
<1>4. /\ sock' \in [Ids -> SockStates]
      /\ \A j \in Ids : j # id => sock'[j] = sock[j]
      /\ \/ sock'[id] = sock[id]
         \/ sock[id] = "bound" /\ sock'[id] = "listen"
         \/ sock[id] = "accepted" /\ sock'[id] = "open"
  BY <1>1, <1>3 DEF Become, TypeOK, SockStates
<1>5. MailGains(id)
  <2>1. CASE UNCHANGED mail
    BY <2>1 DEF MailGains
  <2>2. CASE Post(Event("connect", id)) /\ sock'[id] \in {"open", "listen"}
    BY <1>1, <2>2, PostGains, PlainPosted
  <2>3. CASE Post(Event("error", id)) /\ sock'[id] = "closed"
    BY <1>1, <2>3, PostGains, PlainPosted
  <2>. QED  BY <1>1, <1>3, <2>1, <2>2, <2>3 DEF Become, TypeOK
<1>6. NetEffect(id)
  BY <1>1, <1>2, <1>4, <1>5 DEF NetEffect
<1>. QED  BY <1>1, <1>6

LEMMA SockCloseEffect ==
    ASSUME OrderInv, SockClose, status # "assert"
    PROVE  \E id \in Ids : NetEffect(id)
<1> DEFINE id == Head(ctrl).id
<1>1. /\ TypeOK /\ id \in Ids /\ SockUnchanged
      /\ Head(ctrl) \in Range(ctrl)
      /\ Range(ctrl') \subseteq Range(ctrl)
      /\ \A r \in Range(ctrl) : r \in Range(ctrl') \/ r.id = id
  BY Served DEF OrderInv, GateInv, SockClose
<1>2. /\ sock[id] # "none"
      /\ \A e \in Range(mail) : e.type = "accept" => e.ud # id
  BY <1>1 DEF OrderInv, ThreadInv, RequestsKnown, AcceptsQuiet
<1> HIDE DEF id
<1>3. /\ Become(id, "closed")
      /\ Post(Event("close", id)) \/ (sock[id] = "closed" /\ UNCHANGED mail)
  BY Zenon DEF SockClose, id
<1>4. /\ sock' \in [Ids -> SockStates] /\ sock'[id] = "closed"
      /\ \A j \in Ids : j # id => sock'[j] = sock[j]
  BY <1>1, <1>3 DEF Become, TypeOK, SockStates
<1>5. /\ MailGains(id)
      /\ sock[id] # "closed" /\ status = "running" =>
           \E e \in Range(mail') : e.type \in Ends /\ e.id = id
  <2>1. CASE sock[id] = "closed" /\ UNCHANGED mail
    BY <2>1 DEF MailGains
  <2>2. CASE Post(Event("close", id))
    BY <1>1, <1>4, <2>2, PostGains, PlainPosted DEF Ends
  <2>. QED  BY <1>3, <2>1, <2>2
<1>6. NetEffect(id)
  BY <1>1, <1>2, <1>4, <1>5 DEF NetEffect
<1>. QED  BY <1>1, <1>6

LEMMA SockSendEffect ==
    ASSUME OrderInv, SockSend, status # "assert"
    PROVE  \E id \in Ids : NetEffect(id)
<1> DEFINE id == Head(ctrl).id
<1>1. /\ TypeOK /\ id \in Ids /\ SockUnchanged /\ UNCHANGED <<mail, sock>>
      /\ Head(ctrl) \in Range(ctrl) /\ Head(ctrl).op = "send"
      /\ Range(ctrl') \subseteq Range(ctrl)
      /\ \A r \in Range(ctrl) : r \in Range(ctrl') \/ r.op # "close"
  BY Served DEF OrderInv, GateInv, SockSend
<1>2. sock[id] # "none"
  BY <1>1 DEF OrderInv, ThreadInv, RequestsKnown
<1> HIDE DEF id
<1>3. NetEffect(id)
  BY <1>1, <1>2 DEF NetEffect, MailGains, TypeOK
<1>. QED  BY <1>1, <1>3

\* No accept event waits for a socket that has come further than accepted.
LEMMA NotWaiting ==
    ASSUME OrderInv, NEW id \in Ids, sock[id] # "accepted"
    PROVE  \A e \in Range(mail) : e.type = "accept" => e.ud # id
BY DEF OrderInv, ThreadInv, EventsPosted, Posted

LEMMA DialledEffect ==
    ASSUME OrderInv, NEW id \in Ids, Dialled(id), status # "assert"
    PROVE  NetEffect(id)
<1>1. /\ TypeOK /\ SockUnchanged /\ UNCHANGED ctrl /\ sock[id] = "connecting"
      /\ \/ Become(id, "open")   /\ Post(Event("connect", id))
         \/ Become(id, "closed") /\ Post(Event("error", id))
  BY DEF OrderInv, GateInv, Dialled
<1>2. /\ \A e \in Range(mail) : e.type = "accept" => e.ud # id
      /\ status = "running" => Held(id)
  BY <1>1, NotWaiting DEF OrderInv, EntryInv, OpenHeld
<1>3. CASE Become(id, "open") /\ Post(Event("connect", id))
  <2>1. /\ sock' \in [Ids -> SockStates] /\ sock'[id] = "open"
        /\ \A j \in Ids : j # id => sock'[j] = sock[j]
    BY <1>1, <1>3 DEF Become, TypeOK, SockStates
  <2>2. MailGains(id)
    BY <1>1, <1>3, <2>1, PostGains, PlainPosted
  <2>. QED  BY <1>1, <1>2, <2>1, <2>2 DEF NetEffect
<1>4. CASE Become(id, "closed") /\ Post(Event("error", id))
  <2>1. /\ sock' \in [Ids -> SockStates] /\ sock'[id] = "closed"
        /\ \A j \in Ids : j # id => sock'[j] = sock[j]
    BY <1>1, <1>4 DEF Become, TypeOK, SockStates
  <2>2. /\ MailGains(id)
        /\ status = "running" => \E e \in Range(mail') : e.type \in Ends /\ e.id = id
    BY <1>1, <1>4, <2>1, PostGains, PlainPosted DEF Ends
  <2>. QED  BY <1>1, <1>2, <2>1, <2>2 DEF NetEffect
<1>. QED  BY <1>1, <1>3, <1>4

LEMMA PeerClosesEffect ==
    ASSUME OrderInv, NEW id \in Ids, PeerCloses(id), status # "assert"
    PROVE  NetEffect(id)
<1>1. /\ TypeOK /\ SockUnchanged /\ UNCHANGED ctrl /\ sock[id] = "open"
      /\ Become(id, "closed")
  BY DEF OrderInv, GateInv, PeerCloses
<1>2. /\ sock' \in [Ids -> SockStates] /\ sock'[id] = "closed"
      /\ \A j \in Ids : j # id => sock'[j] = sock[j]
  BY <1>1 DEF Become, TypeOK, SockStates
<1>3. /\ MailGains(id)
      /\ status = "running" => \E e \in Range(mail') : e.type \in Ends /\ e.id = id
  <2>1. PICK t \in {"close", "error"} : Post(Event(t, id))
    BY DEF PeerCloses
  <2>2. Posted(Event(t, id))' /\ t \in {"connect", "close", "error"} /\ t \in Ends
    BY <1>2, PlainPosted DEF Ends
  <2>. QED  BY <1>1, <2>1, <2>2, PostGains
<1>4. \A e \in Range(mail) : e.type = "accept" => e.ud # id
  BY <1>1, NotWaiting
<1>. QED  BY <1>1, <1>2, <1>3, <1>4 DEF NetEffect

LEMMA PeerSendsEffect ==
    ASSUME OrderInv, NEW id \in Ids, NEW c \in Chunks, PeerSends(id, c), status # "assert"
    PROVE  NetEffect(id)
<1> DEFINE e == [type |-> "data", id |-> id, bytes |-> c]
<1>1. /\ TypeOK /\ SockUnchanged /\ UNCHANGED <<ctrl, sock>> /\ sock[id] = "open"
      /\ status = "running" /\ Post(e)
  BY DEF OrderInv, GateInv, PeerSends
<1>2. e \in EventType /\ e.type = "data" /\ e.id = id
  BY DEF EventType
<1>3. Posted(e)'
  BY <1>1 DEF Posted, Ends
<1> HIDE DEF e
<1>4. MailGains(id)
  BY <1>1, <1>2, <1>3 DEF Post, MailGains
<1>. QED  BY <1>1, <1>4 DEF NetEffect, TypeOK

\* The step that adds an accept event: its socket is new to everybody.
LEMMA NewPeerKeeps ==
    ASSUME OrderInv, NEW lid \in Ids, NEW id \in Ids, NewPeer(lid, id)
    PROVE  ThreadInv' /\ EntryInv' /\ LogInv'
<1> DEFINE e == [type |-> "accept", id |-> lid, ud |-> id]
<1>1. /\ TypeOK /\ UNCHANGED <<ctrl, slot, status, listen_id, conn, buf, log, assigned>>
      /\ sock[id] = "none" /\ sock[lid] = "listen" /\ Post(e) /\ Become(id, "accepted")
  BY DEF OrderInv, GateInv, NewPeer, Fresh, SockUnchanged, gateVars, histVars, tableVars
<1>2. e \in EventType /\ e.type = "accept" /\ e.ud = id
  BY DEF EventType
<1> HIDE DEF e
<1>3. sock'[id] = "accepted" /\ \A j \in Ids : j # id => sock'[j] = sock[j]
  BY <1>1 DEF Become, TypeOK
<1>4. /\ \A x \in Range(mail) : x.id \in Ids /\ (x.type = "accept" => x.ud \in Ids)
      /\ \A r \in Range(ctrl) : r.id \in Ids
      /\ listen_id \in Ids \cup {Nil}
  <2>1. mail \in Seq(EventType) /\ ctrl \in Seq(RequestType)
    BY <1>1 DEF TypeOK
  <2>2. Range(mail) \subseteq EventType /\ Range(ctrl) \subseteq RequestType
    BY <2>1, RangeType
  <2>. QED  BY <1>1, <2>2 DEF EventType, RequestType, TypeOK
<1>5. \/ mail' = mail /\ status # "running"
      \/ mail' = Append(mail, e) /\ Range(mail') = Range(mail) \cup {e}
  <2>1. mail \in Seq(EventType)
    BY <1>1 DEF TypeOK
  <2>. QED  BY <1>1, <1>2, <2>1, RangeAppend DEF Post
<1>6. Range(mail) \subseteq Range(mail') /\ Range(mail') \subseteq Range(mail) \cup {e}
  BY <1>5
<1>7. \A j : (Held(j)' <=> Held(j)) /\ \A w : Noted(j, w)' <=> Noted(j, w)
  BY <1>1 DEF Held, Noted
<1>8. ThreadInv'
  <2>1. Unused'
    BY <1>1 DEF OrderInv, ThreadInv, Unused
  <2>2. EventsPosted'
    <3>1. Posted(e)'
      BY <1>2, <1>3 DEF Posted, Ends
    <3>2. ASSUME NEW x \in Range(mail)  PROVE Posted(x)'
      <4>1. Posted(x)
        BY DEF OrderInv, ThreadInv, EventsPosted
      <4>. QED  BY <1>1, <1>3, <1>4, <4>1 DEF Posted, Ends
    <3>. QED  BY <1>6, <3>1, <3>2 DEF EventsPosted
  <2>3. RequestsKnown' /\ ListenerKnown'
    BY <1>1, <1>3, <1>4 DEF OrderInv, ThreadInv, RequestsKnown, ListenerKnown
  <2>4. DataFirst'
    <3>1. CASE mail' = mail
      BY <3>1 DEF OrderInv, ThreadInv, DataFirst
    <3>2. CASE mail' = Append(mail, e)
      <4>1. mail \in Seq(EventType)
        BY <1>1 DEF TypeOK
      <4>2. /\ Len(mail') = Len(mail) + 1 /\ Len(mail) \in Nat
            /\ mail'[Len(mail) + 1] = e
            /\ \A k \in 1 .. Len(mail) : mail'[k] = mail[k]
        BY <1>2, <3>2, <4>1
      <4>3. \A k \in 1 .. Len(mail') : k \in 1 .. Len(mail) \/ k = Len(mail) + 1
        BY <4>2
      <4>. QED  BY <1>2, <4>2, <4>3 DEF OrderInv, ThreadInv, DataFirst, Ends
    <3>. QED  BY <1>5, <3>1, <3>2
  <2>5. AcceptsQuiet'
    BY <1>1, <1>2, <1>6 DEF OrderInv, ThreadInv, AcceptsQuiet, RequestsKnown
  <2>. QED  BY <2>1, <2>2, <2>3, <2>4, <2>5 DEF ThreadInv
<1>9. EntryInv'
  <2>1. OpenHeld'
    BY <1>1, <1>2, <1>3, <1>4, <1>6, <1>7 DEF OrderInv, EntryInv, OpenHeld
  <2>2. EndOnTheWay'
    BY <1>3, <1>6, <1>7 DEF OrderInv, EntryInv, EndOnTheWay
  <2>3. HeldStatus'
    BY <1>1 DEF OrderInv, EntryInv, HeldStatus
  <2>. QED  BY <2>1, <2>2, <2>3 DEF EntryInv
<1>10. LogInv'
  <2>1. log[id] = <<>> /\ assigned[id] = 0
    BY <1>1 DEF OrderInv, LogInv, NothingEarly, Unheard
  <2>2. \A w : ~Noted(id, w)
    BY <2>1 DEF Noted
  <2>3. HistoryTypes' /\ LogOrder'
    BY <1>1 DEF OrderInv, LogInv, HistoryTypes, LogOrder
  <2>4. AcceptedHeld' /\ ConnNamed'
    BY <1>1, <1>7 DEF OrderInv, LogInv, AcceptedHeld, ConnNamed
  <2>5. NothingEarly'
    <3>1. \A j \in Ids : Unheard(j)' => Unheard(j) \/ j = id
      BY <1>2, <1>3, <1>6 DEF Unheard
    <3>. QED  BY <1>1, <2>1, <3>1 DEF OrderInv, LogInv, NothingEarly
  <2>6. CloseIsTrue'
    BY <1>3, <1>7, <2>2 DEF OrderInv, LogInv, CloseIsTrue
  <2>7. ReleaseAsks'
    <3>1. id # listen_id
      BY <1>1, IdsAssumption DEF OrderInv, ThreadInv, ListenerKnown, Nil
    <3>. QED  BY <1>1, <1>3, <1>7, <2>2, <3>1 DEF OrderInv, LogInv, ReleaseAsks
  <2>. QED  BY <2>3, <2>4, <2>5, <2>6, <2>7 DEF LogInv
<1>. QED  BY <1>8, <1>9, <1>10

-----------------------------------------------------------------------------
(* The gate's own steps: lemmas for the parts that most of them leave alone.*)

LEMMA HandledMail ==
    ASSUME OrderInv, mail # <<>>, mail' = Tail(mail)
    PROVE  /\ DataFirst'
           /\ Range(mail) = Range(mail') \cup {Head(mail)}
           /\ Head(mail).type = "accept" =>
                \A e \in Range(mail') : e.type = "accept" => e.ud # Head(mail).ud
           /\ Head(mail).type \in Ends =>
                \A e \in Range(mail') : e.type = "data" => e.id # Head(mail).id
<1>1. mail \in Seq(EventType)
  BY DEF OrderInv, GateInv, TypeOK
<1>2. /\ Head(mail) = mail[1] /\ Len(mail) \in Nat /\ Len(mail) >= 1
      /\ Len(mail') = Len(mail) - 1 /\ mail' \in Seq(EventType)
      /\ \A k \in 1 .. Len(mail) - 1 : mail'[k] = mail[k + 1]
  BY <1>1, HeadAndTail
<1>3. \A k \in 1 .. Len(mail') : k + 1 \in 1 .. Len(mail) /\ mail'[k] = mail[k + 1]
  BY <1>2
<1>4. DataFirst'
  <2>1. SUFFICES ASSUME NEW j \in 1 .. Len(mail'), NEW k \in 1 .. Len(mail'), j < k,
                        mail'[j].type \in Ends, mail'[k].type = "data"
                 PROVE  mail'[j].id # mail'[k].id
    BY DEF DataFirst
  <2>2. j + 1 \in 1 .. Len(mail) /\ k + 1 \in 1 .. Len(mail) /\ j + 1 < k + 1
    BY <1>3, <2>1
  <2>. QED  BY <1>3, <2>1, <2>2 DEF OrderInv, ThreadInv, DataFirst
<1>5. Range(mail) = Range(mail') \cup {Head(mail)}
  BY <1>1, RangeTail
<1>6. \A e \in Range(mail') : \E k \in 2 .. Len(mail) : e = mail[k]
  <2>1. SUFFICES ASSUME NEW e \in Range(mail')  PROVE \E k \in 2 .. Len(mail) : e = mail[k]
    OBVIOUS
  <2>2. PICK j \in 1 .. Len(mail') : e = mail'[j]
    BY <1>2 DEF Range
  <2>3. j + 1 \in 2 .. Len(mail) /\ e = mail[j + 1]
    BY <1>2, <1>3, <2>2
  <2>. QED  BY <2>3
<1>7. ASSUME Head(mail).type = "accept", NEW e \in Range(mail'), e.type = "accept",
             e.ud = Head(mail).ud
      PROVE  FALSE
  <2>1. PICK k \in 2 .. Len(mail) : e = mail[k]
    BY <1>6
  <2>2. 1 \in 1 .. Len(mail) /\ k \in 1 .. Len(mail) /\ k # 1
    BY <1>2
  <2>. QED  BY <1>2, <1>7, <2>1, <2>2 DEF OrderInv, GateInv, AcceptsFresh
<1>8. ASSUME Head(mail).type \in Ends, NEW e \in Range(mail'), e.type = "data",
             e.id = Head(mail).id
      PROVE  FALSE
  <2>1. PICK k \in 2 .. Len(mail) : e = mail[k]
    BY <1>6
  <2>2. 1 \in 1 .. Len(mail) /\ k \in 1 .. Len(mail) /\ 1 < k
    BY <1>2
  <2>. QED  BY <1>2, <1>8, <2>1, <2>2 DEF OrderInv, ThreadInv, DataFirst
<1>. QED  BY <1>4, <1>5, <1>7, <1>8

LEMMA CallRange ==
    ASSUME TypeOK, NEW op \in {"start", "close", "send"}, NEW id \in Ids, Call(op, id)
    PROVE  /\ Range(ctrl') = Range(ctrl) \cup {Request(op, id)}
           /\ Request(op, id).op = op /\ Request(op, id).id = id
<1> DEFINE r == Request(op, id)
<1>1. r \in RequestType /\ r.op = op /\ r.id = id
  BY DEF Request, RequestType
<1>2. ctrl' = Append(ctrl, r) /\ ctrl \in Seq(RequestType)
  BY DEF Call, TypeOK
<1> HIDE DEF r
<1>3. Range(ctrl') = Range(ctrl) \cup {r}
  BY <1>1, <1>2, RangeAppend
<1>. QED  BY <1>1, <1>3 DEF r

\* A socket with an entry exists, and no accept event waits for it.
LEMMA HeldKnown ==
    ASSUME OrderInv, NEW id \in Ids, Held(id)
    PROVE  /\ sock[id] # "none"
           /\ \A e \in Range(mail) : e.type = "accept" => e.ud # id
<1>1. id # Nil
  BY IdsAssumption DEF Nil
<1>2. sock[id] # "none"
  BY <1>1 DEF OrderInv, GateInv, KnownSockets, Held
<1>3. mail \in Seq(EventType)
  BY DEF OrderInv, GateInv, TypeOK
<1>4. \A e \in Range(mail) : e.type = "accept" => e.ud # id
  BY <1>3 DEF OrderInv, GateInv, AcceptsFresh, Held, Range
<1>. QED  BY <1>2, <1>4

\* Lookup and Held agree.
LEMMA LookupHeld ==
    ASSUME GateInv, NEW id \in Ids
    PROVE  /\ Held(id) => /\ Lookup(id) \in Slots /\ slot[Lookup(id)] = id /\ Lookup(id) # Nil
                          /\ \A i \in Slots : slot[i] = id => i = Lookup(id)
           /\ Lookup(id) # Nil => Held(id)
           /\ id \in LiveIds <=> Held(id)
<1>1. id # Nil
  BY IdsAssumption DEF Nil
<1>2. Lookup(id) # Nil => Lookup(id) \in Slots /\ slot[Lookup(id)] = id
  BY LookupHolds DEF UsedSlots
<1>3. Held(id) => Lookup(id) # Nil
  BY <1>1, LookupMisses DEF Held, UsedSlots
<1>4. \A i, j \in Slots : slot[i] = id /\ slot[j] = id => i = j
  BY <1>1 DEF GateInv, TableInv, IdsUnique, UsedSlots
<1>5. id \in LiveIds <=> Held(id)
  BY <1>1 DEF LiveIds, UsedSlots, Held
<1>. QED  BY <1>2, <1>3, <1>4, <1>5 DEF Held

LEMMA GateKeepsThread ==
    ASSUME OrderInv, DataFirst', Range(mail') \subseteq Range(mail), UNCHANGED sock,
           listen_id' \in {listen_id, Nil}, status' \notin {"created", "failed"},
           \A r \in Range(ctrl') : \/ r \in Range(ctrl)
                                   \/ /\ sock[r.id] # "none"
                                      /\ \A e \in Range(mail') : e.type = "accept" => e.ud # r.id
    PROVE  ThreadInv'
<1>1. Unused' /\ ListenerKnown'
  BY DEF OrderInv, ThreadInv, Unused, ListenerKnown
<1>2. EventsPosted'
  BY DEF OrderInv, ThreadInv, EventsPosted, Posted
<1>3. RequestsKnown'
  BY DEF OrderInv, ThreadInv, RequestsKnown
<1>4. AcceptsQuiet'
  BY DEF OrderInv, ThreadInv, AcceptsQuiet
<1>. QED  BY <1>1, <1>2, <1>3, <1>4 DEF ThreadInv

LEMMA GateKeepsEntries ==
    ASSUME OrderInv, status = "running", status' \in {"running", "assert"},
           UNCHANGED <<slot, sock>>, Range(mail') \subseteq Range(mail),
           \A e \in Range(mail) : e \in Range(mail') \/ e.type \notin Ends,
           \A r \in Range(ctrl') : r \in Range(ctrl) \/ r.op # "start" \/ Held(r.id)
    PROVE  EntryInv'
<1>1. \A j : Held(j)' <=> Held(j)
  BY DEF Held
<1>2. OpenHeld'
  BY <1>1 DEF OrderInv, EntryInv, OpenHeld
<1>3. EndOnTheWay'
  BY <1>1 DEF OrderInv, EntryInv, EndOnTheWay
<1>4. HeldStatus'
  BY DEF HeldStatus
<1>. QED  BY <1>2, <1>3, <1>4 DEF EntryInv

LEMMA GateKeepsLog ==
    ASSUME OrderInv, status = "running", status' \in {"running", "assert"},
           UNCHANGED <<slot, sock, conn, buf, log, assigned>>,
           Range(mail') \subseteq Range(mail)
    PROVE  LogInv'
<1>1. \A j : (Held(j)' <=> Held(j)) /\ \A w : Noted(j, w)' <=> Noted(j, w)
  BY DEF Held, Noted
<1>2. \A j : Unheard(j)' => Unheard(j)
  BY DEF Unheard
<1>3. HistoryTypes' /\ LogOrder' /\ ReleaseAsks'
  BY DEF OrderInv, LogInv, HistoryTypes, LogOrder, ReleaseAsks
<1>4. AcceptedHeld' /\ ConnNamed' /\ CloseIsTrue'
  BY <1>1 DEF OrderInv, LogInv, AcceptedHeld, ConnNamed, CloseIsTrue
<1>5. NothingEarly'
  BY <1>2 DEF OrderInv, LogInv, NothingEarly
<1>. QED  BY <1>3, <1>4, <1>5 DEF LogInv

\* Notes that are neither the first word nor the last one, about an entry.
LEMMA LogExtends ==
    ASSUME OrderInv, status = "running", status' = "running",
           UNCHANGED <<slot, sock, conn, assigned>>,
           Range(mail') \subseteq Range(mail), buf' \in [Slots -> FrameType],
           NEW id \in Ids, Held(id), NEW q \in Seq(NoteType),
           \A k \in 1 .. Len(q) : q[k].what \notin {"accept", "close"},
           log' = [log EXCEPT ![id] = @ \o q]
    PROVE  LogInv'
<1>1. log \in [Ids -> Seq(NoteType)]
  BY DEF OrderInv, LogInv, HistoryTypes
<1> DEFINE p == log[id]
<1>2. /\ log'[id] = p \o q /\ p \in Seq(NoteType)
      /\ \A j \in Ids : j # id => log'[j] = log[j]
      /\ log' \in [Ids -> Seq(NoteType)]
  <2>1. p \in Seq(NoteType)
    BY <1>1
  <2>2. p \o q \in Seq(NoteType)
    BY <2>1, ConcatInSeq
  <2>. QED  BY <1>1, <2>1, <2>2
<1> HIDE DEF p
<1>3. /\ Len(p) \in Nat /\ Len(q) \in Nat /\ Len(p \o q) = Len(p) + Len(q)
      /\ \A k \in 1 .. Len(p) : (p \o q)[k] = p[k]
      /\ \A k \in 1 .. Len(q) : (p \o q)[Len(p) + k] = q[k]
  BY <1>2
<1>4. ASSUME NEW k \in 1 .. Len(p \o q), (p \o q)[k].what \in {"accept", "close"}
      PROVE  k \in 1 .. Len(p) /\ (p \o q)[k] = p[k]
  <2>1. CASE k \in 1 .. Len(p)
    BY <1>3, <2>1
  <2>2. CASE k \notin 1 .. Len(p)
    <3>1. k - Len(p) \in 1 .. Len(q) /\ Len(p) + (k - Len(p)) = k
      BY <1>3, <2>2
    <3>2. (p \o q)[k] = q[k - Len(p)]
      BY <1>3, <3>1
    <3>. QED  BY <1>4, <3>1, <3>2
  <2>. QED  BY <2>1, <2>2
<1>5. \A w \in {"accept", "close"} : Noted(id, w)' <=> Noted(id, w)
  <2>1. \A k \in 1 .. Len(p) : k \in 1 .. Len(p \o q)
    BY <1>3
  <2>. QED  BY <1>2, <1>3, <1>4, <2>1 DEF Noted, p
<1>6. \A j \in Ids : \A w \in {"accept", "close"} : Noted(j, w)' <=> Noted(j, w)
  BY <1>2, <1>5 DEF Noted
<1>7. \A j : Held(j)' <=> Held(j)
  BY DEF Held
<1>8. ~Noted(id, "close") /\ ~Unheard(id)
  BY HeldKnown DEF OrderInv, LogInv, CloseIsTrue, Unheard
<1>9. LogOrder'
  <2> SUFFICES ASSUME NEW j \in Ids, NEW k \in 1 .. Len(log'[j])
               PROVE  /\ log'[j][k].what = "accept" => k = 1 /\ Watchdog # 0
                      /\ log'[j][k].what = "close"  => k = Len(log'[j])
    BY DEF LogOrder
  <2>1. CASE j # id
    BY <1>2, <2>1 DEF OrderInv, LogInv, LogOrder
  <2>2. CASE j = id /\ log'[j][k].what \in {"accept", "close"}
    <3>1. k \in 1 .. Len(log[id]) /\ log'[j][k] = log[id][k]
      BY <1>2, <1>4, <2>2 DEF p
    <3>2. log[id][k].what # "close"
      BY <1>8, <3>1 DEF Noted
    <3>3. log[id][k].what = "accept" => k = 1 /\ Watchdog # 0
      BY <3>1 DEF OrderInv, LogInv, LogOrder
    <3>. QED  BY <3>1, <3>2, <3>3
  <2>. QED  BY <2>1, <2>2
<1>10. AcceptedHeld' /\ CloseIsTrue'
  BY <1>6, <1>7 DEF OrderInv, LogInv, AcceptedHeld, CloseIsTrue
<1>11. NothingEarly'
  <2>1. \A j : Unheard(j)' => Unheard(j)
    BY DEF Unheard
  <2>. QED  BY <1>2, <1>8, <2>1 DEF OrderInv, LogInv, NothingEarly
<1>12. ConnNamed'
  <2>1. \A i \in Slots : slot[i] # Nil => slot[i] \in Ids
    BY DEF OrderInv, GateInv, TypeOK, TableTypeOK
  <2>. QED  BY <1>6, <2>1 DEF OrderInv, LogInv, ConnNamed
<1>13. HistoryTypes' /\ ReleaseAsks'
  BY <1>2 DEF HistoryTypes, ReleaseAsks
<1>. QED  BY <1>9, <1>10, <1>11, <1>12, <1>13 DEF LogInv

-----------------------------------------------------------------------------
(* The gate's handlers.                                                     *)

\* The first event, when a handler of events of type t runs.
LEMMA FirstEvent ==
    ASSUME OrderInv, NEW t, Handle(t)
    PROVE  /\ status = "running" /\ mail # <<>> /\ mail' = Tail(mail) /\ UNCHANGED sock
           /\ Head(mail) \in EventType /\ Head(mail).type = t /\ Head(mail).id \in Ids
           /\ t = "accept" => Head(mail).ud \in Ids
           /\ Head(mail) \in Range(mail) /\ Posted(Head(mail))
           /\ Range(mail) = Range(mail') \cup {Head(mail)}
           /\ DataFirst'
<1>1. /\ mail # <<>> /\ mail' = Tail(mail) /\ UNCHANGED sock
      /\ Head(mail) \in EventType /\ Head(mail).type = t /\ Head(mail).id \in Ids
      /\ t = "accept" => Head(mail).ud \in Ids
  BY HeadEvent DEF OrderInv
<1>2. Range(mail) = Range(mail') \cup {Head(mail)} /\ DataFirst'
  BY <1>1, HandledMail
<1>3. Posted(Head(mail))
  BY <1>2 DEF OrderInv, ThreadInv, EventsPosted
<1>. QED  BY <1>1, <1>2, <1>3 DEF Handle

\* The bytes of an event join those that wait in the buffer.
LEMMA Received ==
    ASSUME NEW b \in FrameType, NEW s \in Seq(Int)
    PROVE  [b EXCEPT !.bytes = @ \o s] \in FrameType
<1>1. b.bytes \in Seq(Int) /\ b.header \in Int
  BY DEF FrameType
<1>2. b.bytes \o s \in Seq(Int)
  BY <1>1
<1> DEFINE t == b.bytes \o s
<1> HIDE DEF t
<1>3. [b EXCEPT !.bytes = t] \in FrameType
  BY <1>2 DEF FrameType, t
<1>. QED  BY <1>3 DEF t

LEMMA OnDataKeeps ==
    ASSUME OrderInv, OnData
    PROVE  ThreadInv' /\ EntryInv' /\ LogInv'
<1> DEFINE m == Head(mail)
           i == Lookup(m.id)
           f == [buf[i] EXCEPT !.bytes = @ \o m.bytes]
           d == Drain(conn[i], f)
<1>1. /\ status = "running" /\ UNCHANGED sock
      /\ m \in EventType /\ m.type = "data" /\ m.id \in Ids /\ m \in Range(mail)
      /\ sock[m.id] \in {"open", "closed"}
      /\ Range(mail) = Range(mail') \cup {m} /\ DataFirst'
  BY FirstEvent DEF OnData, Posted
<1>2. UNCHANGED <<slot, status, listen_id, conn, assigned>>
  BY DEF OnData, tableVars
<1>3. Held(m.id) /\ i \in Slots /\ slot[i] = m.id /\ i # Nil
  <2>1. Held(m.id)
    BY <1>1 DEF OrderInv, EntryInv, OpenHeld
  <2>. QED  BY <1>1, <2>1, LookupHeld DEF OrderInv
<1>4. /\ buf' = [buf EXCEPT ![i] = d.buf]
      /\ log' = [log EXCEPT ![m.id] = @ \o d.notes]
      /\ Call("close", m.id) \/ UNCHANGED ctrl
  BY <1>3 DEF OnData
<1>5. d \in DrainType(conn[i])
  <2>1. conn[i] \in ConnType /\ buf[i] \in FrameType
    BY <1>3 DEF OrderInv, GateInv, TypeOK, LogInv, HistoryTypes
  <2>2. m.bytes \in Seq(Int)
    <3>1. m.bytes \in Chunks
      BY <1>1 DEF EventType
    <3>2. m.bytes \in Seq(0 .. Base - 1)
      BY <3>1, ChunksAssumption
    <3>. QED  BY <3>2, BaseAssumption
  <2>3. f \in FrameType
    <3> HIDE DEF i, m
    <3>. QED  BY <2>1, <2>2, Received
  <2> HIDE DEF f
  <2>. QED  BY <2>1, <2>3, DrainResult
<1> HIDE DEF d, i, m
<1>6. /\ d.buf \in FrameType /\ d.notes \in Seq(NoteType)
      /\ \A k \in 1 .. Len(d.notes) : d.notes[k].what \notin {"accept", "close"}
  <2>1. d.buf \in FrameType /\ d.notes \in Seq(NotesTo(Reader(conn[i])))
    BY <1>5 DEF DrainType
  <2>2. Reader(conn[i]) \in Nat
    <3>1. Handles \cup {0} \subseteq Nat /\ Watchdog \in Nat
      BY HandlesAssumption
    <3>2. broker \in Handles \cup {0} /\ conn[i].agent \in Handles \cup {0}
      BY <1>3 DEF OrderInv, GateInv, TypeOK, ConnType
    <3>3. broker \in Nat /\ conn[i].agent \in Nat
      BY <3>1, <3>2, Zenon
    <3>. QED  BY <3>1, <3>3 DEF Reader
  <2>3. NotesTo(Reader(conn[i])) \subseteq NoteType
    BY <2>2 DEF NotesTo, NoteType
  <2>4. \A n \in NotesTo(Reader(conn[i])) : n.what \notin {"accept", "close"}
    BY DEF NotesTo
  <2> HIDE DEF NotesTo, NoteType
  <2>. QED  BY <2>1, <2>3, <2>4
<1>7. buf' \in [Slots -> FrameType]
  BY <1>3, <1>4, <1>6 DEF OrderInv, LogInv, HistoryTypes
<1>8. LogInv'
  BY <1>1, <1>2, <1>3, <1>4, <1>6, <1>7, LogExtends
<1>9. \A r \in Range(ctrl') : r \in Range(ctrl) \/ (r.op # "start" /\ r.id = m.id)
  <2>1. CASE UNCHANGED ctrl
    BY <2>1
  <2>2. CASE Call("close", m.id)
    BY <1>1, <2>2, CallRange DEF OrderInv, GateInv
  <2>. QED  BY <1>4, <2>1, <2>2
<1>10. EntryInv'
  BY <1>1, <1>2, <1>9, GateKeepsEntries DEF Ends
<1>11. ThreadInv'
  BY <1>1, <1>2, <1>3, <1>9, HeldKnown, GateKeepsThread
<1>. QED  BY <1>8, <1>10, <1>11

LEMMA OnConnectKeeps ==
    ASSUME OrderInv, OnConnect
    PROVE  ThreadInv' /\ EntryInv' /\ LogInv'
<1> DEFINE m == Head(mail)
           i == Lookup(m.id)
<1>1. /\ status = "running" /\ UNCHANGED sock
      /\ m \in EventType /\ m.type = "connect" /\ m.id \in Ids /\ m \in Range(mail)
      /\ sock[m.id] \in {"open", "listen", "closed"}
      /\ Range(mail) = Range(mail') \cup {m} /\ DataFirst'
  BY FirstEvent DEF OnConnect, Posted
<1>2. UNCHANGED <<slot, status, listen_id, conn, buf, assigned>>
  BY DEF OnConnect, tableVars
<1>3. /\ Call("close", m.id) \/ UNCHANGED ctrl
      /\ \/ UNCHANGED log
         \/ /\ i # Nil /\ conn[i].agent # 0
            /\ Tell(m.id, [what |-> "connected", to |-> conn[i].agent])
  BY DEF OnConnect
<1>4. LogInv'
  <2>1. CASE UNCHANGED log
    BY <1>1, <1>2, <2>1, GateKeepsLog
  <2>2. CASE /\ i # Nil /\ conn[i].agent # 0
             /\ Tell(m.id, [what |-> "connected", to |-> conn[i].agent])
    <3> DEFINE n == [what |-> "connected", to |-> conn[i].agent]
               q == <<n>>
    <3>1. Held(m.id) /\ i \in Slots
      BY <1>1, <2>2, LookupHeld DEF OrderInv
    <3>2. conn[i].agent \in Nat
      <4>1. conn[i].agent \in Handles \cup {0}
        BY <3>1 DEF OrderInv, GateInv, TypeOK, ConnType
      <4>2. Handles \cup {0} \subseteq Nat
        BY HandlesAssumption
      <4>. QED  BY <4>1, <4>2, Zenon
    <3>3. n \in NoteType /\ n.what \notin {"accept", "close"}
      BY <3>2 DEF NoteType
    <3>4. log' = [log EXCEPT ![m.id] = Append(@, n)]
      BY <2>2 DEF Tell
    <3> HIDE DEF n, m
    <3>5. q \in Seq(NoteType) /\ \A k \in 1 .. Len(q) : q[k].what \notin {"accept", "close"}
      BY <3>3
    <3>6. log[m.id] \in Seq(NoteType)
      BY <1>1 DEF OrderInv, LogInv, HistoryTypes
    <3>7. Append(log[m.id], n) = log[m.id] \o q
      BY <3>3, <3>6
    <3>8. log' = [log EXCEPT ![m.id] = @ \o q]
      BY <3>4, <3>7
    <3>9. buf' \in [Slots -> FrameType]
      BY <1>2 DEF OrderInv, LogInv, HistoryTypes
    <3> HIDE DEF q
    <3>. QED  BY <1>1, <1>2, <3>1, <3>5, <3>8, <3>9, LogExtends
  <2>. QED  BY <1>3, <2>1, <2>2
<1> HIDE DEF m
<1>5. \A r \in Range(ctrl') : r \in Range(ctrl) \/ (r.op # "start" /\ r.id = m.id)
  <2>1. CASE UNCHANGED ctrl
    BY <2>1
  <2>2. CASE Call("close", m.id)
    BY <1>1, <2>2, CallRange DEF OrderInv, GateInv
  <2>. QED  BY <1>3, <2>1, <2>2
<1>6. EntryInv'
  BY <1>1, <1>2, <1>5, GateKeepsEntries DEF Ends
<1>7. \A e \in Range(mail) : e.type = "accept" => e.ud # m.id
  BY <1>1, NotWaiting
<1>8. ThreadInv'
  BY <1>1, <1>2, <1>5, <1>7, GateKeepsThread
<1>. QED  BY <1>4, <1>6, <1>8

\* A note about one socket is added to its log.
LEMMA LogAppends ==
    ASSUME log \in [Ids -> Seq(NoteType)], NEW id \in Ids, NEW n \in NoteType, Tell(id, n)
    PROVE  /\ log' \in [Ids -> Seq(NoteType)]
           /\ \A j \in Ids : j # id => log'[j] = log[j]
           /\ Len(log[id]) \in Nat /\ Len(log'[id]) = Len(log[id]) + 1
           /\ log'[id][Len(log[id]) + 1] = n
           /\ \A k \in 1 .. Len(log[id]) : log'[id][k] = log[id][k]
           /\ \A w : Noted(id, w)' <=> Noted(id, w) \/ n.what = w
<1>1. log[id] \in Seq(NoteType) /\ log'[id] = Append(log[id], n)
  BY DEF Tell
<1>2. Append(log[id], n) \in Seq(NoteType)
  BY <1>1, AppendInSeq
<1>3. /\ log' \in [Ids -> Seq(NoteType)]
      /\ \A j \in Ids : j # id => log'[j] = log[j]
  BY <1>1, <1>2 DEF Tell
<1>4. /\ Len(log[id]) \in Nat /\ Len(log'[id]) = Len(log[id]) + 1
      /\ log'[id][Len(log[id]) + 1] = n
      /\ \A k \in 1 .. Len(log[id]) : log'[id][k] = log[id][k]
  BY <1>1
<1>5. \A w : Noted(id, w)' <=> Noted(id, w) \/ n.what = w
  <2>1. /\ \A k \in 1 .. Len(log'[id]) : k \in 1 .. Len(log[id]) \/ k = Len(log[id]) + 1
        /\ \A k \in 1 .. Len(log[id]) : k \in 1 .. Len(log'[id])
        /\ Len(log[id]) + 1 \in 1 .. Len(log'[id])
    BY <1>4
  <2>. QED  BY <1>4, <2>1 DEF Noted
<1>. QED  BY <1>3, <1>4, <1>5

LEMMA OnCloseKeeps ==
    ASSUME OrderInv, OnClose
    PROVE  ThreadInv' /\ EntryInv' /\ LogInv'
<1>0. PICK id \in Ids : id = Head(mail).id
  BY FirstEvent DEF OnClose
<1> DEFINE m == Head(mail)
           i == Lookup(id)
<1>1. /\ status = "running" /\ UNCHANGED sock
      /\ m.type \in Ends /\ id = m.id /\ m \in Range(mail)
      /\ sock[id] = "closed"
      /\ Range(mail) = Range(mail') \cup {m} /\ DataFirst'
      /\ mail # <<>> /\ mail' = Tail(mail)
  BY <1>0, FirstEvent DEF OnClose, Posted, Ends
<1>2. UNCHANGED <<status, listen_id, ctrl, assigned>> /\ RemoveId(id) /\ Forget(id)
  BY <1>0 DEF OnClose
<1>3. ThreadInv'
  BY <1>1, <1>2, GateKeepsThread
<1>4. \A e \in Range(mail') : e.type = "data" => e.id # id
  BY <1>1, HandledMail
<1> HIDE DEF m
\* What becomes of the slots and of the log.
<1>5. /\ \A s \in Slots : slot'[s] = IF slot[s] = id THEN Nil ELSE slot[s]
      /\ \A s \in Slots : slot[s] # id => conn'[s] = conn[s]
      /\ buf' \in [Slots -> FrameType]
      /\ \/ ~Held(id) /\ UNCHANGED log
         \/ Held(id) /\ Report(id, "close")
  <2>1. CASE i = Nil
    <3>1. ~Held(id)
      BY <1>1, <2>1, LookupHeld DEF OrderInv
    <3>2. UNCHANGED <<slot, conn, buf, log>>
      BY <1>2, <2>1 DEF RemoveId, Forget, tableVars
    <3>. QED  BY <3>1, <3>2 DEF Held, OrderInv, LogInv, HistoryTypes
  <2>2. CASE i # Nil
    <3>1. /\ Held(id) /\ i \in Slots
          /\ \A s \in Slots : slot[s] = id <=> s = i
      BY <1>1, <2>2, LookupHeld DEF OrderInv
    <3>2. /\ slot' = [slot EXCEPT ![i] = Nil]
          /\ conn' = [conn EXCEPT ![i] = BlankConn]
          /\ buf'  = [buf EXCEPT ![i] = BlankFrame]
          /\ Report(id, "close")
      BY <1>2, <2>2 DEF RemoveId, Forget
    <3>3. BlankFrame \in FrameType
      BY DEF BlankFrame, FrameType
    <3> HIDE DEF i
    <3>4. /\ slot \in [Slots -> Ids \cup {Nil}] /\ conn \in [Slots -> ConnType]
          /\ buf \in [Slots -> FrameType]
      BY DEF OrderInv, GateInv, TypeOK, TableTypeOK, LogInv, HistoryTypes
    <3>. QED  BY <3>1, <3>2, <3>3, <3>4
  <2>. QED  BY <2>1, <2>2
<1>6. \A j \in Ids : Held(j)' <=> Held(j) /\ j # id
  BY <1>5, IdsAssumption DEF Held, Nil
<1>7. EntryInv'
  <2>1. OpenHeld'
    <3> SUFFICES ASSUME status' = "running"  PROVE OpenHeld'
      BY DEF OpenHeld
    <3>1. \A j \in Ids : sock[j] \in {"open", "connecting"} => Held(j)'
      BY <1>1, <1>6 DEF OrderInv, EntryInv, OpenHeld
    <3>2. \A e \in Range(mail') : e.type = "data" => Held(e.id)'
      <4>1. \A e \in Range(mail') : e.type = "data" => Held(e.id) /\ e.id # id
        BY <1>1, <1>4 DEF OrderInv, EntryInv, OpenHeld
      <4>2. \A e \in Range(mail) : e.id \in Ids
        <5>1. mail \in Seq(EventType)
          BY DEF OrderInv, GateInv, TypeOK
        <5>2. Range(mail) \subseteq EventType
          BY <5>1, RangeType
        <5>. QED  BY <5>2 DEF EventType
      <4>. QED  BY <1>1, <1>6, <4>1, <4>2
    <3>3. \A r \in Range(ctrl) : r.op = "start" =>
            Held(r.id)' \/ sock[r.id] \in {"bound", "listen", "closed"}
      <4>1. ctrl \in Seq(RequestType)
        BY DEF OrderInv, GateInv, TypeOK
      <4>2. Range(ctrl) \subseteq RequestType
        BY <4>1, RangeType
      <4>3. \A r \in Range(ctrl) : r.id \in Ids
        BY <4>2 DEF RequestType
      <4>. QED  BY <1>1, <1>6, <4>3 DEF OrderInv, EntryInv, OpenHeld
    <3>. QED  BY <1>1, <1>2, <3>1, <3>2, <3>3 DEF OpenHeld
  <2>2. EndOnTheWay'
    BY <1>1, <1>6 DEF OrderInv, EntryInv, EndOnTheWay
  <2>3. HeldStatus'
    BY <1>1, <1>2 DEF HeldStatus
  <2>. QED  BY <2>1, <2>2, <2>3 DEF EntryInv
<1>8. \A s \in Slots : slot'[s] # Nil => slot'[s] = slot[s] /\ slot[s] # id /\ slot[s] \in Ids
                                        /\ slot[s] # Nil
  BY <1>5 DEF OrderInv, GateInv, TypeOK, TableTypeOK
<1>9. \A j : Unheard(j)' => Unheard(j)
  BY <1>1 DEF Unheard
<1>10. log \in [Ids -> Seq(NoteType)]
  BY DEF OrderInv, LogInv, HistoryTypes
<1>11. CASE UNCHANGED log
  <2>1. \A j : \A w : Noted(j, w)' <=> Noted(j, w)
    BY <1>11 DEF Noted
  <2>2. HistoryTypes' /\ LogOrder' /\ ReleaseAsks'
    BY <1>1, <1>2, <1>5, <1>10, <1>11 DEF OrderInv, LogInv, HistoryTypes, LogOrder, ReleaseAsks
  <2>3. AcceptedHeld'
    <3>1. Noted(id, "accept") /\ ~Noted(id, "close") => FALSE
      <4>1. Held(id) => Watchdog = 0
        <5>1. Watchdog # 0 /\ Held(id) => Tell(id, [what |-> "close", to |-> Watchdog])
          BY <1>5 DEF Report
        <5>2. [what |-> "close", to |-> Watchdog] \in NoteType
          BY HandlesAssumption DEF NoteType
        <5> DEFINE n == [what |-> "close", to |-> Watchdog]
        <5> HIDE DEF n
        <5>3. Tell(id, n) /\ n \in NoteType => Len(log'[id]) = Len(log[id]) + 1 /\ Len(log[id]) \in Nat
          BY <1>1, <1>10, LogAppends
        <5>. QED  BY <1>11, <5>1, <5>2, <5>3 DEF n
      <4>2. Noted(id, "accept") => Watchdog # 0
        BY <1>1 DEF OrderInv, LogInv, LogOrder, Noted
      <4>. QED  BY <1>1, <4>1, <4>2 DEF OrderInv, LogInv, AcceptedHeld
    <3>. QED  BY <1>1, <1>2, <1>6, <2>1, <3>1 DEF OrderInv, LogInv, AcceptedHeld
  <2>4. NothingEarly'
    BY <1>1, <1>2, <1>9, <1>11 DEF OrderInv, LogInv, NothingEarly
  <2>5. CloseIsTrue'
    BY <1>1, <1>6, <2>1 DEF OrderInv, LogInv, CloseIsTrue
  <2>6. ConnNamed'
    BY <1>2, <1>5, <1>8, <2>1 DEF OrderInv, LogInv, ConnNamed
  <2>. QED  BY <1>3, <1>7, <2>2, <2>3, <2>4, <2>5, <2>6 DEF LogInv
<1>12. CASE Held(id) /\ Watchdog # 0 /\ Tell(id, [what |-> "close", to |-> Watchdog])
  <2> DEFINE n == [what |-> "close", to |-> Watchdog]
  <2>1. n \in NoteType /\ n.what = "close" /\ Tell(id, n)
    BY <1>12, HandlesAssumption DEF NoteType
  <2> HIDE DEF n
  <2>2. /\ log' \in [Ids -> Seq(NoteType)]
        /\ \A j \in Ids : j # id => log'[j] = log[j]
        /\ Len(log[id]) \in Nat /\ Len(log'[id]) = Len(log[id]) + 1
        /\ log'[id][Len(log[id]) + 1] = n
        /\ \A k \in 1 .. Len(log[id]) : log'[id][k] = log[id][k]
        /\ \A w : Noted(id, w)' <=> Noted(id, w) \/ n.what = w
    BY <1>1, <1>10, <2>1, LogAppends
  <2>3. \A j \in Ids : \A w : Noted(j, w)' <=> Noted(j, w) \/ (j = id /\ w = "close")
    <3>1. Noted(id, "close")' /\ \A w : Noted(id, w)' <=> Noted(id, w) \/ w = "close"
      BY <2>1, <2>2
    <3>2. ASSUME NEW j \in Ids, j # id, NEW w  PROVE Noted(j, w)' <=> Noted(j, w)
      <4>1. log'[j] = log[j]
        BY <2>2, <3>2
      <4>. QED  BY <4>1 DEF Noted
    <3>. QED  BY <3>1, <3>2
  <2>4. ~Noted(id, "close") /\ ~Unheard(id)
    BY <1>1, <1>12, HeldKnown DEF OrderInv, LogInv, CloseIsTrue, Unheard
  <2>5. LogOrder'
    <3> SUFFICES ASSUME NEW j \in Ids, NEW k \in 1 .. Len(log'[j])
                 PROVE  /\ log'[j][k].what = "accept" => k = 1 /\ Watchdog # 0
                        /\ log'[j][k].what = "close"  => k = Len(log'[j])
      BY DEF LogOrder
    <3>1. CASE j # id
      BY <2>2, <3>1 DEF OrderInv, LogInv, LogOrder
    <3>2. CASE j = id /\ k \in 1 .. Len(log[id])
      BY <1>1, <2>2, <2>4, <3>2 DEF OrderInv, LogInv, LogOrder, Noted
    <3>3. CASE j = id /\ k \notin 1 .. Len(log[id])
      <4>1. k = Len(log[id]) + 1
        BY <2>2, <3>3
      <4>. QED  BY <2>1, <2>2, <3>3, <4>1
    <3>. QED  BY <3>1, <3>2, <3>3
  <2>6. AcceptedHeld'
    BY <1>1, <1>2, <1>6, <2>3 DEF OrderInv, LogInv, AcceptedHeld
  <2>7. NothingEarly'
    BY <1>1, <1>2, <1>9, <2>2, <2>4 DEF OrderInv, LogInv, NothingEarly
  <2>8. CloseIsTrue'
    BY <1>1, <1>6, <2>3 DEF OrderInv, LogInv, CloseIsTrue
  <2>9. ConnNamed'
    BY <1>2, <1>5, <1>8, <2>3 DEF OrderInv, LogInv, ConnNamed
  <2>10. HistoryTypes' /\ ReleaseAsks'
    BY <1>1, <1>2, <1>5, <2>2 DEF HistoryTypes, ReleaseAsks
  <2>. QED  BY <1>3, <1>7, <2>5, <2>6, <2>7, <2>8, <2>9, <2>10 DEF LogInv
<1>. QED  BY <1>5, <1>11, <1>12 DEF Report

LEMMA OnAcceptKeeps ==
    ASSUME OrderInv, OnAccept
    PROVE  ThreadInv' /\ EntryInv' /\ LogInv'
<1>0. PICK id \in Ids : id = Head(mail).ud
  BY FirstEvent DEF OnAccept
<1> DEFINE m == Head(mail)
           c == FirstFree(id)
<1>1. /\ status = "running" /\ UNCHANGED sock
      /\ m.type = "accept" /\ m.id \in Ids /\ id = m.ud /\ m \in Range(mail)
      /\ sock[id] = "accepted"
      /\ Range(mail) = Range(mail') \cup {m} /\ DataFirst'
      /\ mail # <<>> /\ mail' = Tail(mail)
  BY <1>0, FirstEvent DEF OnAccept, Posted
<1>2. UNCHANGED <<listen_id, buf, assigned>>
  BY DEF OnAccept
<1>3. \A e \in Range(mail') : e.type = "accept" => e.ud # id
  BY <1>1, HandledMail
<1>4. log[id] = <<>> /\ assigned[id] = 0 /\ ~Held(id)
  <2>1. Unheard(id)
    BY <1>1 DEF Unheard
  <2>2. ~Held(id)
    BY <1>1, HeldKnown
  <2>. QED  BY <1>1, <2>1, <2>2 DEF OrderInv, LogInv, NothingEarly
<1>5. CASE listen_id # m.id \/ Full
  <2>1. /\ UNCHANGED <<slot, conn, log>> /\ status' \in {"running", "assert"}
        /\ Call("close", id) \/ UNCHANGED ctrl
    BY <1>0, <1>1, <1>5 DEF OnAccept, tableVars
  <2> HIDE DEF m
  <2>2. \A r \in Range(ctrl') : r \in Range(ctrl) \/ (r.op # "start" /\ r.id = id)
    <3>1. CASE UNCHANGED ctrl
      BY <3>1
    <3>2. CASE Call("close", id)
      BY <1>1, <3>2, CallRange DEF OrderInv, GateInv
    <3>. QED  BY <2>1, <3>1, <3>2
  <2>3. ThreadInv'
    BY <1>1, <1>2, <1>3, <2>1, <2>2, GateKeepsThread
  <2>4. EntryInv'
    BY <1>1, <2>1, <2>2, GateKeepsEntries DEF Ends
  <2>5. LogInv'
    BY <1>1, <1>2, <2>1, GateKeepsLog
  <2>. QED  BY <2>3, <2>4, <2>5
<1>6. CASE listen_id = m.id /\ ~Full
  <2>1. /\ InsertId(id) /\ UNCHANGED <<status, ctrl>> /\ Report(id, "accept")
        /\ conn' = [conn EXCEPT ![c].id = id]
    BY <1>0, <1>6 DEF OnAccept
  <2>2. /\ c \in Slots /\ slot[c] = Nil
        /\ \A s \in Slots : slot'[s] = IF s = c THEN id ELSE slot[s]
        /\ conn[c] = BlankConn
    BY <1>1, <1>4, <1>6, <2>1, InsertEffect DEF OrderInv, Held
  <2> HIDE DEF c, m
  <2>3. /\ \A s \in Slots : s # c => conn'[s] = conn[s]
        /\ conn'[c].id = id /\ conn'[c].agent = 0
    <3>1. conn \in [Slots -> ConnType]
      BY DEF OrderInv, GateInv, TypeOK
    <3>2. conn'[c] = [id |-> id, agent |-> 0, client |-> 0]
      BY <2>1, <2>2, <3>1 DEF BlankConn
    <3>. QED  BY <2>1, <2>2, <3>1, <3>2
  <2>4. ThreadInv'
    BY <1>1, <1>2, <2>1, GateKeepsThread
  <2>5. \A j : Held(j) => Held(j)' \/ j = Nil
    BY <2>2 DEF Held
  <2>6. \A j \in Ids : (Held(j)' <=> Held(j) \/ j = id) /\ j # Nil
    BY <2>2, IdsAssumption DEF Held, Nil
  <2>7. EntryInv'
    <3>1. OpenHeld'
      <4>1. /\ \A e \in Range(mail) : e.id # Nil
            /\ \A r \in Range(ctrl) : r.id # Nil
        <5>1. mail \in Seq(EventType) /\ ctrl \in Seq(RequestType)
          BY DEF OrderInv, GateInv, TypeOK
        <5>2. Range(mail) \subseteq EventType /\ Range(ctrl) \subseteq RequestType
          BY <5>1, RangeType
        <5>. QED  BY <5>2, IdsAssumption DEF EventType, RequestType, Nil
      <4>. QED  BY <1>1, <2>1, <2>5, <2>6, <4>1 DEF OrderInv, EntryInv, OpenHeld
    <3>2. EndOnTheWay'
      BY <1>1, <2>6 DEF OrderInv, EntryInv, EndOnTheWay, Ends
    <3>3. HeldStatus'
      BY <1>1, <2>1 DEF HeldStatus
    <3>. QED  BY <3>1, <3>2, <3>3 DEF EntryInv
  <2>8. \A j \in Ids : (Unheard(j)' => Unheard(j)) /\ ~Unheard(id)'
    BY <1>1, <1>3 DEF Unheard
  <2>9. /\ log' \in [Ids -> Seq(NoteType)]
        /\ \A j \in Ids : j # id => log'[j] = log[j]
        /\ \A w : w # "accept" => ~Noted(id, w)'
        /\ \A k \in 1 .. Len(log'[id]) :
             k = 1 /\ log'[id][k].what = "accept" /\ Watchdog # 0
    <3>1. log \in [Ids -> Seq(NoteType)]
      BY DEF OrderInv, LogInv, HistoryTypes
    <3>2. CASE Watchdog = 0
      <4>1. log' = log
        BY <2>1, <3>2 DEF Report
      <4>. QED  BY <1>1, <1>4, <3>1, <4>1 DEF Noted
    <3>3. CASE Watchdog # 0
      <4> DEFINE n == [what |-> "accept", to |-> Watchdog]
      <4>1. n \in NoteType /\ n.what = "accept" /\ Tell(id, n)
        BY <2>1, <3>3, HandlesAssumption DEF NoteType, Report
      <4> HIDE DEF n
      <4>2. /\ log' \in [Ids -> Seq(NoteType)]
            /\ \A j \in Ids : j # id => log'[j] = log[j]
            /\ Len(log'[id]) = Len(log[id]) + 1
            /\ log'[id][Len(log[id]) + 1] = n
            /\ \A w : Noted(id, w)' <=> Noted(id, w) \/ n.what = w
        BY <1>1, <3>1, <4>1, LogAppends
      <4>3. Len(log[id]) = 0 /\ \A w : ~Noted(id, w)
        BY <1>4 DEF Noted
      <4>. QED  BY <3>3, <4>1, <4>2, <4>3
    <3>. QED  BY <3>2, <3>3
  <2>10. \A j \in Ids : \A w : j # id => (Noted(j, w)' <=> Noted(j, w))
    BY <2>9 DEF Noted
  <2>11. LogOrder'
    BY <2>9 DEF OrderInv, LogInv, LogOrder
  <2>12. AcceptedHeld'
    BY <1>1, <2>1, <2>6, <2>10 DEF OrderInv, LogInv, AcceptedHeld
  <2>13. NothingEarly'
    BY <1>1, <1>2, <2>1, <2>8, <2>9 DEF OrderInv, LogInv, NothingEarly
  <2>14. CloseIsTrue'
    BY <1>1, <2>6, <2>9, <2>10 DEF OrderInv, LogInv, CloseIsTrue
  <2>15. ConnNamed'
    <3>1. \A s \in Slots : slot[s] # Nil => slot[s] \in Ids /\ slot[s] # id
      BY <1>4 DEF OrderInv, GateInv, TypeOK, TableTypeOK, Held
    <3>. QED  BY <1>2, <1>4, <2>2, <2>3, <2>10, <3>1 DEF OrderInv, LogInv, ConnNamed
  <2>16. HistoryTypes' /\ ReleaseAsks'
    BY <1>1, <1>2, <2>1, <2>9 DEF OrderInv, LogInv, HistoryTypes, ReleaseAsks
  <2>. QED  BY <2>4, <2>7, <2>11, <2>12, <2>13, <2>14, <2>15, <2>16 DEF LogInv
<1>. QED  BY <1>5, <1>6

-----------------------------------------------------------------------------
(* The text commands, the start and the end of the service.                 *)

LEMMA AskKeeps ==
    ASSUME OrderInv, NEW id \in Ids, Kick(id) \/ Start(id) \/ ClientMessage(id)
    PROVE  ThreadInv' /\ EntryInv' /\ LogInv'
<1>1. /\ status = "running" /\ Held(id)
      /\ UNCHANGED <<slot, status, listen_id, conn, buf, mail, sock, log, assigned>>
      /\ Call("close", id) \/ Call("start", id) \/ Call("send", id)
  <2>1. Lookup(id) # Nil
    BY DEF Kick, Start, ClientMessage
  <2>2. Held(id)
    BY <2>1, LookupHeld DEF OrderInv
  <2>. QED  BY <2>2 DEF Kick, Start, ClientMessage, Command, tableVars
<1>2. \A r \in Range(ctrl') : r \in Range(ctrl) \/ r.id = id
  BY <1>1, CallRange DEF OrderInv, GateInv
<1>3. DataFirst'
  BY <1>1 DEF OrderInv, ThreadInv, DataFirst
<1>4. ThreadInv'
  BY <1>1, <1>2, <1>3, HeldKnown, GateKeepsThread
<1>5. EntryInv'
  BY <1>1, <1>2, GateKeepsEntries
<1>6. LogInv'
  BY <1>1, GateKeepsLog
<1>. QED  BY <1>4, <1>5, <1>6

LEMMA BrokerKeeps ==
    ASSUME OrderInv, NEW h \in Handles \cup {0}, Broker(h)
    PROVE  ThreadInv' /\ EntryInv' /\ LogInv'
<1>1. /\ status = "running"
      /\ UNCHANGED <<slot, status, listen_id, conn, buf, mail, ctrl, sock, log, assigned>>
  BY DEF Broker, Command, tableVars
<1>2. DataFirst'
  BY <1>1 DEF OrderInv, ThreadInv, DataFirst
<1>. QED  BY <1>1, <1>2, GateKeepsThread, GateKeepsEntries, GateKeepsLog

LEMMA CloseListenKeeps ==
    ASSUME OrderInv, CloseListen
    PROVE  ThreadInv' /\ EntryInv' /\ LogInv'
<1>1. /\ status = "running" /\ listen_id \in Ids
      /\ UNCHANGED <<slot, status, conn, buf, mail, sock, log, assigned>>
      /\ Call("close", listen_id) /\ listen_id' = Nil
      /\ sock[listen_id] \in {"bound", "listen", "closed"}
  BY DEF CloseListen, Command, tableVars, OrderInv, GateInv, TypeOK, ThreadInv, ListenerKnown
<1>2. \A r \in Range(ctrl') : r \in Range(ctrl) \/ (r.id = listen_id /\ r.op = "close")
  BY <1>1, CallRange DEF OrderInv, GateInv
<1>3. DataFirst'
  BY <1>1 DEF OrderInv, ThreadInv, DataFirst
<1>4. \A e \in Range(mail) : e.type = "accept" => e.ud # listen_id
  BY <1>1, NotWaiting
<1>5. ThreadInv'
  BY <1>1, <1>2, <1>3, <1>4, GateKeepsThread
<1>. QED  BY <1>1, <1>2, <1>5, GateKeepsEntries, GateKeepsLog

LEMMA ForwardKeeps ==
    ASSUME OrderInv, NEW id \in Ids, NEW agent \in Handles \cup {0},
           NEW client \in Clients, Forward(id, agent, client)
    PROVE  ThreadInv' /\ EntryInv' /\ LogInv'
<1> DEFINE i == Lookup(id)
<1>1. /\ status = "running" /\ i # Nil
      /\ UNCHANGED <<slot, status, listen_id, buf, mail, ctrl, sock, log>>
      /\ conn' = [conn EXCEPT ![i] = [@ EXCEPT !.agent = agent, !.client = client]]
      /\ assigned' = [assigned EXCEPT ![id] = agent]
  BY DEF Forward, Command, tableVars
<1>2. Held(id) /\ i \in Slots /\ \A s \in Slots : slot[s] = id <=> s = i
  BY <1>1, LookupHeld DEF OrderInv
<1> HIDE DEF i
<1>3. DataFirst'
  BY <1>1 DEF OrderInv, ThreadInv, DataFirst
<1>4. ThreadInv' /\ EntryInv'
  BY <1>1, <1>3, GateKeepsThread, GateKeepsEntries
<1>5. /\ conn'[i].agent = agent /\ conn'[i].id = conn[i].id
      /\ \A s \in Slots : s # i => conn'[s] = conn[s]
      /\ assigned'[id] = agent /\ \A j \in Ids : j # id => assigned'[j] = assigned[j]
  BY <1>1, <1>2 DEF OrderInv, GateInv, TypeOK, ConnType
<1>6. \A j : (Held(j)' <=> Held(j)) /\ \A w : Noted(j, w)' <=> Noted(j, w)
  BY <1>1 DEF Held, Noted
<1>7. \A j : Unheard(j)' <=> Unheard(j)
  BY <1>1 DEF Unheard
<1>8. ~Unheard(id)
  BY <1>2, HeldKnown DEF Unheard
<1>9. LogInv'
  <2>1. HistoryTypes' /\ LogOrder' /\ ReleaseAsks'
    BY <1>1 DEF OrderInv, LogInv, HistoryTypes, LogOrder, ReleaseAsks
  <2>2. AcceptedHeld' /\ CloseIsTrue'
    BY <1>1, <1>6 DEF OrderInv, LogInv, AcceptedHeld, CloseIsTrue
  <2>3. NothingEarly'
    BY <1>1, <1>5, <1>7, <1>8 DEF OrderInv, LogInv, NothingEarly
  <2>4. ConnNamed'
    <3>1. \A s \in Slots : slot[s] # Nil => slot[s] \in Ids
      BY DEF OrderInv, GateInv, TypeOK, TableTypeOK
    <3>. QED  BY <1>1, <1>2, <1>5, <1>6, <3>1 DEF OrderInv, LogInv, ConnNamed
  <2>. QED  BY <2>1, <2>2, <2>3, <2>4 DEF LogInv
<1>. QED  BY <1>4, <1>9

\* A socket id that is handed out is new to everybody.
LEMMA FreshIsNew ==
    ASSUME OrderInv, NEW id \in Ids, sock[id] = "none"
    PROVE  /\ ~Held(id) /\ id # Nil /\ id # listen_id
           /\ \A e \in Range(mail) : /\ e.id \in Ids /\ (e.type = "accept" => e.ud \in Ids /\ e.ud # id)
                                     /\ e.id = id => e.type = "accept"
           /\ \A r \in Range(ctrl) : r.id \in Ids /\ r.id # id
           /\ log[id] = <<>> /\ assigned[id] = 0 /\ \A w : ~Noted(id, w)
<1>1. id # Nil
  BY IdsAssumption DEF Nil
<1>2. ~Held(id) /\ \A e \in Range(mail) : e.type = "accept" => e.ud # id
  BY HeldKnown, NotWaiting
<1>3. mail \in Seq(EventType) /\ ctrl \in Seq(RequestType)
  BY DEF OrderInv, GateInv, TypeOK
<1>4. Range(mail) \subseteq EventType /\ Range(ctrl) \subseteq RequestType
  BY <1>3, RangeType
<1>5. /\ \A e \in Range(mail) : /\ e.type \in {"connect", "accept", "data"} \cup Ends
                                /\ e.id \in Ids /\ (e.type = "accept" => e.ud \in Ids)
      /\ \A r \in Range(ctrl) : r.id \in Ids
  BY <1>4 DEF EventType, RequestType, Ends
<1>6. \A e \in Range(mail) : e.id = id => e.type = "accept"
  BY <1>5 DEF OrderInv, ThreadInv, EventsPosted, Posted
<1>7. id # listen_id /\ \A r \in Range(ctrl) : r.id # id
  BY <1>1 DEF OrderInv, ThreadInv, ListenerKnown, RequestsKnown
<1>8. log[id] = <<>> /\ assigned[id] = 0
  BY DEF OrderInv, LogInv, NothingEarly, Unheard
<1>9. \A w : ~Noted(id, w)
  BY <1>8 DEF Noted
<1>. QED  BY <1>1, <1>2, <1>5, <1>6, <1>7, <1>8, <1>9

LEMMA ConnectKeeps ==
    ASSUME OrderInv, NEW source \in Handles, NEW id \in Ids, Connect(source, id)
    PROVE  ThreadInv' /\ EntryInv' /\ LogInv'
<1> DEFINE c == FirstFree(id)
<1>1. /\ status = "running" /\ ~Full /\ sock[id] = "none" /\ InsertId(id)
      /\ Become(id, "connecting")
      /\ UNCHANGED <<status, listen_id, buf, mail, ctrl, log>>
      /\ conn' = [conn EXCEPT ![c] = [@ EXCEPT !.agent = source, !.client = 0]]
      /\ assigned' = [assigned EXCEPT ![id] = source]
  BY DEF Connect, Command, Fresh
<1>2. /\ ~Held(id) /\ id # Nil /\ id # listen_id
      /\ \A e \in Range(mail) : /\ e.id \in Ids /\ (e.type = "accept" => e.ud \in Ids /\ e.ud # id)
                                /\ e.id = id => e.type = "accept"
      /\ \A r \in Range(ctrl) : r.id \in Ids /\ r.id # id
      /\ \A w : ~Noted(id, w)
  BY <1>1, FreshIsNew
<1>3. /\ c \in Slots /\ slot[c] = Nil
      /\ \A s \in Slots : slot'[s] = IF s = c THEN id ELSE slot[s]
  BY <1>1, <1>2, InsertEffect DEF OrderInv, Held
<1> HIDE DEF c
<1>4. sock'[id] = "connecting" /\ \A j \in Ids : j # id => sock'[j] = sock[j]
  BY <1>1 DEF Become, OrderInv, GateInv, TypeOK
<1>5. /\ conn'[c].agent = source /\ \A s \in Slots : s # c => conn'[s] = conn[s]
      /\ assigned'[id] = source /\ \A j \in Ids : j # id => assigned'[j] = assigned[j]
  BY <1>1, <1>3 DEF OrderInv, GateInv, TypeOK, ConnType
<1>6. /\ \A j : j # Nil => (Held(j)' <=> Held(j) \/ j = id)
      /\ \A j : \A w : Noted(j, w)' <=> Noted(j, w)
  BY <1>1, <1>3 DEF Held, Noted
<1>7. ThreadInv'
  <2>1. Unused' /\ DataFirst'
    BY <1>1 DEF Unused, OrderInv, ThreadInv, DataFirst
  <2>2. EventsPosted'
    <3>1. ASSUME NEW e \in Range(mail)  PROVE Posted(e)'
      <4>1. Posted(e)
        BY DEF OrderInv, ThreadInv, EventsPosted
      <4>. QED  BY <1>2, <1>4, <4>1 DEF Posted, Ends
    <3>. QED  BY <1>1, <3>1 DEF EventsPosted
  <2>3. ListenerKnown'
    BY <1>1, <1>2, <1>4 DEF OrderInv, ThreadInv, ListenerKnown, GateInv, TypeOK
  <2>4. RequestsKnown' /\ AcceptsQuiet'
    BY <1>1, <1>2, <1>4 DEF OrderInv, ThreadInv, RequestsKnown, AcceptsQuiet
  <2>. QED  BY <2>1, <2>2, <2>3, <2>4 DEF ThreadInv
<1>8. EntryInv'
  <2>1. \A e \in Range(mail) : e.id # Nil
    BY <1>2, IdsAssumption DEF Nil
  <2>2. \A r \in Range(ctrl) : r.id # Nil
    BY <1>2, IdsAssumption DEF Nil
  <2>3. \A j \in Ids : j # Nil
    BY IdsAssumption DEF Nil
  <2>4. OpenHeld'
    BY <1>1, <1>2, <1>4, <1>6, <2>1, <2>2, <2>3 DEF OrderInv, EntryInv, OpenHeld
  <2>5. EndOnTheWay'
    BY <1>1, <1>4, <1>6, <2>3 DEF OrderInv, EntryInv, EndOnTheWay
  <2>6. HeldStatus'
    BY <1>1 DEF HeldStatus
  <2>. QED  BY <2>4, <2>5, <2>6 DEF EntryInv
<1>9. LogInv'
  <2>1. HistoryTypes' /\ LogOrder' /\ ReleaseAsks'
    BY <1>1 DEF OrderInv, LogInv, HistoryTypes, LogOrder, ReleaseAsks
  <2>2. \A j \in Ids : j # Nil
    BY IdsAssumption DEF Nil
  <2>3. AcceptedHeld'
    BY <1>1, <1>6, <2>2 DEF OrderInv, LogInv, AcceptedHeld
  <2>4. CloseIsTrue'
    BY <1>2, <1>4, <1>6, <2>2 DEF OrderInv, LogInv, CloseIsTrue
  <2>5. NothingEarly'
    <3>1. \A j \in Ids : Unheard(j)' => Unheard(j) /\ j # id
      BY <1>1, <1>2, <1>4 DEF Unheard
    <3>. QED  BY <1>1, <1>5, <3>1 DEF OrderInv, LogInv, NothingEarly
  <2>6. ConnNamed'
    <3>1. \A s \in Slots : slot[s] # Nil => slot[s] \in Ids /\ slot[s] # id
      BY <1>2 DEF OrderInv, GateInv, TypeOK, TableTypeOK, Held
    <3>. QED  BY <1>2, <1>3, <1>5, <1>6, <3>1 DEF OrderInv, LogInv, ConnNamed
  <2>. QED  BY <2>1, <2>3, <2>4, <2>5, <2>6 DEF LogInv
<1>. QED  BY <1>7, <1>8, <1>9

LEMMA ListenEffect ==
    ASSUME NEW a, start_listen(a)
    PROVE  \/ UNCHANGED <<ctrl, sock>> /\ listen_id' \in {listen_id, Nil}
           \/ \E id \in Ids : /\ sock[id] = "none" /\ listen_id' = id
                              /\ Become(id, "bound") /\ Call("start", id)
BY DEF start_listen, Fresh

\* Before gate_init there is nothing that the other parts speak of.
LEMMA CreatedIsEmpty ==
    ASSUME OrderInv, status = "created"
    PROVE  /\ Range(mail) = {} /\ Range(ctrl) = {} /\ mail = <<>> /\ listen_id = Nil
           /\ \A j \in Ids : sock[j] = "none" /\ \A w : ~Noted(j, w)
<1>1. mail = <<>> /\ ctrl = <<>> /\ listen_id = Nil /\ \A j \in Ids : sock[j] = "none"
  BY DEF OrderInv, ThreadInv, Unused
<1>2. \A j \in Ids : log[j] = <<>>
  BY DEF OrderInv, LogInv, NothingEarly
<1>3. \A j \in Ids : \A w : ~Noted(j, w)
  BY <1>2 DEF Noted
<1>. QED  BY <1>1, <1>3, RangeEmpty

\* A listening socket is opened, by gate_init or the listen command.
LEMMA NewListenerKeeps ==
    ASSUME OrderInv, status \in {"running", "created"}, status' = "running",
           UNCHANGED <<slot, conn, buf, mail, log, assigned>>,
           NEW id \in Ids, sock[id] = "none", listen_id' = id, Become(id, "bound"),
           Call("start", id)
    PROVE  ThreadInv' /\ EntryInv' /\ LogInv'
<1>1. /\ ~Held(id) /\ id # Nil
      /\ \A e \in Range(mail) : /\ e.id \in Ids /\ (e.type = "accept" => e.ud \in Ids /\ e.ud # id)
                                /\ e.id = id => e.type = "accept"
      /\ \A r \in Range(ctrl) : r.id \in Ids /\ r.id # id
      /\ \A w : ~Noted(id, w)
  BY FreshIsNew
<1>2. sock'[id] = "bound" /\ \A j \in Ids : j # id => sock'[j] = sock[j]
  BY DEF Become, OrderInv, GateInv, TypeOK
<1>3. \A r \in Range(ctrl') : r \in Range(ctrl) \/ r.id = id
  BY CallRange DEF OrderInv, GateInv
<1>4. \A j : (Held(j)' <=> Held(j)) /\ \A w : Noted(j, w)' <=> Noted(j, w)
  BY DEF Held, Noted
<1>5. ThreadInv'
  <2>1. Unused' /\ DataFirst'
    BY DEF Unused, OrderInv, ThreadInv, DataFirst
  <2>2. EventsPosted'
    <3>1. ASSUME NEW e \in Range(mail)  PROVE Posted(e)'
      <4>1. Posted(e)
        BY DEF OrderInv, ThreadInv, EventsPosted
      <4>. QED  BY <1>1, <1>2, <4>1 DEF Posted, Ends
    <3>. QED  BY <3>1 DEF EventsPosted
  <2>3. ListenerKnown'
    BY <1>2 DEF ListenerKnown
  <2>4. RequestsKnown'
    BY <1>1, <1>2, <1>3 DEF OrderInv, ThreadInv, RequestsKnown
  <2>5. AcceptsQuiet'
    BY <1>1, <1>3 DEF OrderInv, ThreadInv, AcceptsQuiet
  <2>. QED  BY <2>1, <2>2, <2>3, <2>4, <2>5 DEF ThreadInv
<1>6. EntryInv'
  <2>1. OpenHeld'
    <3>1. \A j \in Ids : sock[j] \in {"open", "connecting"} => Held(j)
      BY CreatedIsEmpty DEF OrderInv, EntryInv, OpenHeld
    <3>2. \A e \in Range(mail) : e.type = "data" => Held(e.id)
      BY CreatedIsEmpty DEF OrderInv, EntryInv, OpenHeld
    <3>3. \A r \in Range(ctrl) : r.op = "start" =>
            Held(r.id) \/ sock[r.id] \in {"bound", "listen", "closed"}
      BY CreatedIsEmpty DEF OrderInv, EntryInv, OpenHeld
    <3>. QED  BY <1>1, <1>2, <1>3, <1>4, <3>1, <3>2, <3>3 DEF OpenHeld
  <2>2. EndOnTheWay'
    BY <1>2, <1>4 DEF OrderInv, EntryInv, EndOnTheWay
  <2>3. HeldStatus'
    BY DEF HeldStatus
  <2>. QED  BY <2>1, <2>2, <2>3 DEF EntryInv
<1>7. LogInv'
  <2>1. HistoryTypes' /\ LogOrder' /\ ReleaseAsks'
    BY DEF OrderInv, LogInv, HistoryTypes, LogOrder, ReleaseAsks
  <2>2. AcceptedHeld'
    BY <1>4, CreatedIsEmpty DEF OrderInv, LogInv, AcceptedHeld
  <2>3. CloseIsTrue'
    BY <1>1, <1>2, <1>4 DEF OrderInv, LogInv, CloseIsTrue
  <2>4. NothingEarly'
    <3>1. \A j \in Ids : Unheard(j)' => Unheard(j)
      BY <1>2 DEF Unheard
    <3>. QED  BY <3>1 DEF OrderInv, LogInv, NothingEarly
  <2>5. ConnNamed'
    BY <1>4 DEF OrderInv, LogInv, ConnNamed
  <2>. QED  BY <2>1, <2>2, <2>3, <2>4, <2>5 DEF LogInv
<1>. QED  BY <1>5, <1>6, <1>7

LEMMA ListenKeeps ==
    ASSUME OrderInv, Listen
    PROVE  ThreadInv' /\ EntryInv' /\ LogInv'
<1>1. /\ status = "running" /\ start_listen(bind)
      /\ UNCHANGED <<slot, status, conn, buf, mail, log, assigned>>
  BY DEF Listen, Command, tableVars
<1>2. DataFirst'
  BY <1>1 DEF OrderInv, ThreadInv, DataFirst
<1>3. CASE UNCHANGED <<ctrl, sock>> /\ listen_id' \in {listen_id, Nil}
  BY <1>1, <1>2, <1>3, GateKeepsThread, GateKeepsEntries, GateKeepsLog
<1>4. ASSUME NEW id \in Ids, sock[id] = "none", listen_id' = id, Become(id, "bound"),
             Call("start", id)
      PROVE  ThreadInv' /\ EntryInv' /\ LogInv'
  BY <1>1, <1>4, NewListenerKeeps
<1>. QED  BY <1>1, <1>3, <1>4, ListenEffect

LEMMA InitKeeps ==
    ASSUME OrderInv, NEW parm \in BindParms, gate_init(parm)
    PROVE  ThreadInv' /\ EntryInv' /\ LogInv'
<1>1. /\ status = "created"
      /\ UNCHANGED <<slot, conn, buf, mail, log, assigned>>
  BY DEF gate_init, tableVars, histVars
<1>2. listen_id = Nil
  BY <1>1, CreatedIsEmpty
<1>3. CASE /\ UNCHANGED <<ctrl, sock>> /\ listen_id' = Nil
           /\ status' \in {"running", "failed"}
  <2>1. \A j : (Held(j)' <=> Held(j)) /\ \A w : Noted(j, w)' <=> Noted(j, w)
    BY <1>1 DEF Held, Noted
  <2>2. ThreadInv'
    <3>1. Unused' /\ DataFirst'
      BY <1>1, <1>3 DEF Unused, OrderInv, ThreadInv, DataFirst
    <3>2. EventsPosted' /\ RequestsKnown' /\ ListenerKnown' /\ AcceptsQuiet'
      BY <1>1, <1>3 DEF OrderInv, ThreadInv, EventsPosted, Posted, RequestsKnown,
                        ListenerKnown, AcceptsQuiet
    <3>. QED  BY <3>1, <3>2 DEF ThreadInv
  <2>3. EntryInv'
    <3>1. OpenHeld'
      BY <1>1, <1>3, CreatedIsEmpty DEF OpenHeld
    <3>2. EndOnTheWay' /\ HeldStatus'
      BY <1>1, <1>3, <2>1 DEF OrderInv, EntryInv, EndOnTheWay, HeldStatus
    <3>. QED  BY <3>1, <3>2 DEF EntryInv
  <2>4. LogInv'
    <3>1. HistoryTypes' /\ LogOrder' /\ ReleaseAsks'
      BY <1>1, <1>3 DEF OrderInv, LogInv, HistoryTypes, LogOrder, ReleaseAsks
    <3>2. AcceptedHeld'
      BY <1>1, <2>1, CreatedIsEmpty DEF AcceptedHeld
    <3>3. CloseIsTrue' /\ ConnNamed'
      BY <1>1, <1>3, <2>1 DEF OrderInv, LogInv, CloseIsTrue, ConnNamed
    <3>4. NothingEarly'
      BY <1>1 DEF OrderInv, LogInv, NothingEarly
    <3>. QED  BY <3>1, <3>2, <3>3, <3>4 DEF LogInv
  <2>. QED  BY <2>2, <2>3, <2>4
<1>4. ASSUME NEW id \in Ids, sock[id] = "none", listen_id' = id, Become(id, "bound"),
             Call("start", id), status' = "running"
      PROVE  ThreadInv' /\ EntryInv' /\ LogInv'
  BY <1>1, <1>4, NewListenerKeeps
<1>5. CASE parm = "!"
  BY <1>2, <1>3, <1>5 DEF gate_init
<1>6. CASE parm # "!"
  <2>1. start_listen(parm) /\ status' = IF listen_id' = Nil THEN "failed" ELSE "running"
    BY <1>6 DEF gate_init
  <2>2. \A id \in Ids : id # Nil
    BY IdsAssumption DEF Nil
  <2>. QED  BY <1>2, <1>3, <1>4, <2>1, <2>2, ListenEffect
<1>. QED  BY <1>5, <1>6

\* What gate_release puts into the pipe.
LEMMA ReleaseAsksAll ==
    ASSUME OrderInv, gate_release
    PROVE  /\ Range(ctrl) \subseteq Range(ctrl')
           /\ \A i \in Named : Request("close", conn[i].id) \in Range(ctrl')
           /\ listen_id # Nil => Request("close", listen_id) \in Range(ctrl')
           /\ \A r \in Range(ctrl') : sock[r.id] # "none"
<1> DEFINE last == IF listen_id = Nil THEN <<>> ELSE <<Request("close", listen_id)>>
<1>n. PICK n \in 0 .. Cap : \E q \in [1 .. n -> Named] :
         /\ \A i \in Named : \E k \in 1 .. n : q[k] = i
         /\ ctrl' = ctrl \o [k \in 1 .. n |-> Request("close", conn[q[k]].id)] \o last
  BY DEF gate_release
<1>q. PICK q \in [1 .. n -> Named] :
         /\ \A i \in Named : \E k \in 1 .. n : q[k] = i
         /\ ctrl' = ctrl \o [k \in 1 .. n |-> Request("close", conn[q[k]].id)] \o last
  BY <1>n
<1> DEFINE mid == [k \in 1 .. n |-> Request("close", conn[q[k]].id)]
<1>1. /\ \A i \in Named : i \in Slots /\ conn[i].id \in Ids /\ sock[conn[i].id] # "none"
      /\ listen_id # Nil => listen_id \in Ids /\ sock[listen_id] # "none"
  <2>1. ASSUME NEW i \in Named
        PROVE  i \in Slots /\ conn[i].id \in Ids /\ sock[conn[i].id] # "none"
    <3>1. i \in Slots /\ conn[i].id # Nil /\ conn[i].id \in Ids \cup {Nil}
      <4>1. i \in Slots /\ conn[i].id >= 0
        BY DEF Named
      <4>2. conn[i] \in ConnType
        BY <4>1 DEF OrderInv, GateInv, TypeOK
      <4>3. conn[i].id \in Ids \cup {Nil}
        BY <4>2 DEF ConnType
      <4>. QED  BY <4>1, <4>3 DEF Nil
    <3>2. conn[i].id = slot[i] /\ sock[slot[i]] # "none"
      BY <3>1 DEF OrderInv, GateInv, ConnMatchesTable, KnownSockets
    <3>. QED  BY <3>1, <3>2
  <2>2. listen_id # Nil => listen_id \in Ids /\ sock[listen_id] # "none"
    BY DEF OrderInv, GateInv, TypeOK, ThreadInv, ListenerKnown
  <2>. QED  BY <2>1, <2>2
<1>2. ctrl \in Seq(RequestType)
  BY DEF OrderInv, GateInv, TypeOK
<1>3. /\ mid \in Seq(RequestType)
      /\ Range(mid) = {Request("close", conn[i].id) : i \in Named}
  <2>1. n \in Nat /\ \A k \in 1 .. n : q[k] \in Named
    BY <1>q, CapAssumption
  <2>2. \A i \in Named : Request("close", conn[i].id) \in RequestType
    BY <1>1 DEF Request, RequestType
  <2>3. mid \in Seq(RequestType)
    BY <2>1, <2>2
  <2>4. DOMAIN mid = 1 .. n /\ \A k \in 1 .. n : mid[k] = Request("close", conn[q[k]].id)
    OBVIOUS
  <2> HIDE DEF mid
  <2>5. Range(mid) \subseteq {Request("close", conn[i].id) : i \in Named}
    BY <2>1, <2>4 DEF Range
  <2>6. ASSUME NEW i \in Named  PROVE Request("close", conn[i].id) \in Range(mid)
    <3>1. PICK k \in 1 .. n : q[k] = i
      BY <1>q
    <3>2. mid[k] = Request("close", conn[i].id)
      BY <2>4, <3>1
    <3>. QED  BY <2>4, <3>2 DEF Range
  <2>. QED  BY <2>3, <2>5, <2>6
<1>4. /\ last \in Seq(RequestType)
      /\ Range(last) = IF listen_id = Nil THEN {} ELSE {Request("close", listen_id)}
  <2>1. CASE listen_id = Nil
    BY <2>1, RangeEmpty
  <2>2. CASE listen_id # Nil
    <3> DEFINE r == Request("close", listen_id)
    <3>1. r \in RequestType
      BY <1>1, <2>2 DEF Request, RequestType
    <3>2. last = <<r>>
      BY <2>2
    <3> HIDE DEF r, last
    <3>3. last \in Seq(RequestType) /\ Range(last) = {r}
      BY <3>1, <3>2 DEF Range
    <3>. QED  BY <2>2, <3>3 DEF r
  <2>. QED  BY <2>1, <2>2
<1>5. ctrl' = ctrl \o mid \o last
  BY <1>q
<1> HIDE DEF mid, last
<1>6. Range(ctrl') = Range(ctrl) \cup Range(mid) \cup Range(last)
  <2> DEFINE first == ctrl \o mid
  <2>1. first \in Seq(RequestType) /\ Range(first) = Range(ctrl) \cup Range(mid)
    BY <1>2, <1>3, ConcatInSeq, RangeConcat
  <2>2. ctrl' = first \o last
    BY <1>5
  <2> HIDE DEF first
  <2>3. Range(first \o last) = Range(first) \cup Range(last)
    BY <1>4, <2>1, RangeConcat
  <2>. QED  BY <2>1, <2>2, <2>3
<1>7. \A j : Request("close", j).id = j
  BY DEF Request
<1>8. \A r \in Range(ctrl) : sock[r.id] # "none"
  BY DEF OrderInv, ThreadInv, RequestsKnown
<1>. QED  BY <1>1, <1>3, <1>4, <1>6, <1>7, <1>8

LEMMA ReleaseKeeps ==
    ASSUME OrderInv, gate_release
    PROVE  ThreadInv' /\ EntryInv' /\ LogInv'
<1>1. /\ status \in {"running", "failed"} /\ status' = "released" /\ mail' = <<>>
      /\ UNCHANGED <<listen_id, sock, log, assigned>> /\ ClearIds
      /\ buf' = [i \in Slots |-> BlankFrame]
  BY DEF gate_release, histVars
<1>2. \A i \in Slots : slot'[i] = Nil
  BY <1>1 DEF ClearIds, EmptyTable
<1>3. Range(mail') = {} /\ \A j \in Ids : ~Held(j)'
  BY <1>1, <1>2, RangeEmpty, IdsAssumption DEF Held, Nil
<1>4. \A j : \A w : Noted(j, w)' <=> Noted(j, w)
  BY <1>1 DEF Noted
<1>5. ThreadInv'
  <2>1. Unused' /\ EventsPosted' /\ AcceptsQuiet' /\ ListenerKnown'
    BY <1>1, <1>3 DEF Unused, EventsPosted, AcceptsQuiet, OrderInv, ThreadInv, ListenerKnown
  <2>2. RequestsKnown'
    BY <1>1, ReleaseAsksAll DEF RequestsKnown
  <2>3. DataFirst'
    <3>1. 1 .. Len(mail') = {}
      BY <1>1
    <3>. QED  BY <3>1, Zenon DEF DataFirst
  <2>. QED  BY <2>1, <2>2, <2>3 DEF ThreadInv
<1>6. EntryInv'
  BY <1>1, <1>2, <1>3 DEF EntryInv, OpenHeld, EndOnTheWay, HeldStatus
<1>7. LogInv'
  <2>1. HistoryTypes'
    <3>1. BlankFrame \in FrameType
      BY DEF BlankFrame, FrameType
    <3>. QED  BY <1>1, <3>1 DEF OrderInv, LogInv, HistoryTypes
  <2>2. LogOrder' /\ AcceptedHeld' /\ ConnNamed'
    BY <1>1, <1>2 DEF OrderInv, LogInv, LogOrder, AcceptedHeld, ConnNamed
  <2>3. CloseIsTrue'
    BY <1>1, <1>3, <1>4 DEF OrderInv, LogInv, CloseIsTrue
  <2>4. NothingEarly'
    <3>1. \A j \in Ids : Unheard(j)' => Unheard(j)
      BY <1>1, <1>3 DEF Unheard
    <3>. QED  BY <1>1, <3>1 DEF OrderInv, LogInv, NothingEarly
  <2>5. ReleaseAsks'
    <3> SUFFICES ASSUME NEW j \in Ids, Noted(j, "accept") \/ j = listen_id
                 PROVE  sock[j] = "closed" \/ Request("close", j) \in Range(ctrl')
      BY <1>1, <1>4 DEF ReleaseAsks
    <3>1. j # Nil /\ j >= 0
      BY IdsAssumption DEF Nil
    <3>2. CASE j = listen_id
      BY <3>1, <3>2, ReleaseAsksAll
    <3>3. CASE Noted(j, "accept")
      <4>1. status = "running"
        <5>1. status = "failed" => log[j] = <<>>
          BY DEF OrderInv, LogInv, NothingEarly
        <5>. QED  BY <1>1, <3>3, <5>1 DEF Noted
      <4>2. CASE Noted(j, "close")
        BY <4>2 DEF OrderInv, LogInv, CloseIsTrue
      <4>3. CASE ~Noted(j, "close")
        <5>1. PICK i \in Slots : slot[i] = j
          BY <3>3, <4>1, <4>3 DEF OrderInv, LogInv, AcceptedHeld, Held
        <5>2. conn[i].id = j
          BY <3>1, <3>3, <5>1 DEF OrderInv, LogInv, ConnNamed
        <5>3. i \in Named
          BY <3>1, <5>1, <5>2 DEF Named
        <5>. QED  BY <5>2, <5>3, ReleaseAsksAll
      <4>. QED  BY <4>2, <4>3
    <3>. QED  BY <3>2, <3>3
  <2>. QED  BY <2>1, <2>2, <2>3, <2>4, <2>5 DEF LogInv
<1>. QED  BY <1>5, <1>6, <1>7

-----------------------------------------------------------------------------
(* The invariant, and what follows from it.                                 *)

LEMMA InitialOrder == Init => OrderInv
<1> SUFFICES ASSUME Init  PROVE OrderInv
  OBVIOUS
<1>1. GateInv
  BY InitialGateInv
<1>2. /\ status = "created" /\ listen_id = Nil /\ mail = <<>> /\ ctrl = <<>>
      /\ sock = [id \in Ids |-> "none"] /\ log = [id \in Ids |-> <<>>]
      /\ assigned = [id \in Ids |-> 0] /\ \A i \in Slots : slot[i] = Nil
      /\ buf = [i \in Slots |-> BlankFrame]
  BY DEF Init, TableInit, EmptyTable
<1>3. Range(mail) = {} /\ Range(ctrl) = {}
  BY <1>2, RangeEmpty
<1>4. ThreadInv
  <2>1. 1 .. Len(mail) = {}
    BY <1>2
  <2>2. DataFirst
    BY <2>1, Zenon DEF DataFirst
  <2>. QED
    BY <1>2, <1>3, <2>2
    DEF ThreadInv, Unused, EventsPosted, RequestsKnown, ListenerKnown, AcceptsQuiet
<1>5. \A j \in Ids : ~Held(j)
  BY <1>2, IdsAssumption DEF Held, Nil
<1>6. EntryInv
  BY <1>2, <1>5 DEF EntryInv, OpenHeld, EndOnTheWay, HeldStatus
<1>7. LogInv
  <2>1. \A j \in Ids : log[j] = <<>> /\ \A w : ~Noted(j, w)
    BY <1>2 DEF Noted
  <2>2. HistoryTypes
    <3>1. BlankFrame \in FrameType
      BY DEF BlankFrame, FrameType
    <3>2. <<>> \in Seq(NoteType)
      BY EmptyInSeq
    <3>. QED  BY <1>2, <3>1, <3>2 DEF HistoryTypes
  <2>3. LogOrder
    <3>1. \A j \in Ids : 1 .. Len(log[j]) = {}
      BY <2>1
    <3>. QED  BY <3>1, Zenon DEF LogOrder
  <2>4. AcceptedHeld /\ NothingEarly /\ CloseIsTrue /\ ConnNamed /\ ReleaseAsks
    BY <1>2, <2>1 DEF AcceptedHeld, NothingEarly, CloseIsTrue, ConnNamed, ReleaseAsks
  <2>. QED  BY <2>2, <2>3, <2>4 DEF LogInv
<1>. QED  BY <1>1, <1>4, <1>6, <1>7 DEF OrderInv

LEMMA NextKeepsOrder == OrderInv /\ [Next]_vars => OrderInv'
<1> SUFFICES ASSUME OrderInv, [Next]_vars  PROVE OrderInv'
  OBVIOUS
<1>1. GateInv'
  BY NextPreserves DEF OrderInv
<1>2. ASSUME NEW id \in Ids, NetEffect(id)  PROVE OrderInv'
  BY <1>1, <1>2, NetKeepsThread, NetKeepsEntries, NetKeepsLog DEF OrderInv
<1>3. CASE status # "assert" /\ SockStep
  BY <1>2, <1>3, SockStartEffect, SockCloseEffect, SockSendEffect DEF SockStep
<1>4. CASE status # "assert" /\ Peer
  BY <1>1, <1>2, <1>4, NewPeerKeeps, PeerSendsEffect, PeerClosesEffect DEF Peer, OrderInv
<1>5. CASE status # "assert" /\ \E id \in Ids : Dialled(id)
  BY <1>2, <1>5, DialledEffect
<1>6. CASE GateStep
  BY <1>1, <1>6, OnDataKeeps, OnConnectKeeps, OnCloseKeeps, OnAcceptKeeps DEF GateStep, OrderInv
<1>7. CASE TextCommand
  BY <1>1, <1>7, AskKeeps, ForwardKeeps, BrokerKeeps, ConnectKeeps, CloseListenKeeps,
     ListenKeeps
  DEF TextCommand, OrderInv
<1>8. CASE \E parm \in BindParms : gate_init(parm)
  BY <1>1, <1>8, InitKeeps DEF OrderInv
<1>9. CASE gate_release
  BY <1>1, <1>9, ReleaseKeeps DEF OrderInv
<1>10. CASE UNCHANGED vars
  <2>1. UNCHANGED <<slot, status, listen_id, conn, buf, mail, ctrl, sock, log, assigned>>
    BY <1>10 DEF vars, tableVars, gateVars, netVars, histVars
  <2>2. ThreadInv'
    BY <2>1 DEF OrderInv, ThreadInv, Unused, EventsPosted, Posted, RequestsKnown,
                ListenerKnown, DataFirst, AcceptsQuiet
  <2>3. EntryInv'
    BY <2>1 DEF OrderInv, EntryInv, OpenHeld, EndOnTheWay, HeldStatus, Held
  <2>4. LogInv'
    BY <2>1 DEF OrderInv, LogInv, HistoryTypes, LogOrder, AcceptedHeld, NothingEarly,
                CloseIsTrue, ConnNamed, ReleaseAsks, Noted, Unheard, Held
  <2>. QED  BY <1>1, <2>2, <2>3, <2>4 DEF OrderInv
<1>. QED
  BY <1>3, <1>4, <1>5, <1>6, <1>7, <1>8, <1>9, <1>10 DEF Next

(* Events, requests, entries and what was told of them stay in step, in     *)
(* whatever order the gate and the socket thread run.                       *)
THEOREM GateOrdered == Spec => []OrderInv
BY InitialOrder, NextKeepsOrder, PTL DEF Spec

(* Data never arrives for a socket without an entry: OnData never closes an *)
(* unknown socket, although other events of the same mailbox remove entries.*)
THEOREM GateNoUnknownData == Spec => []NoUnknownData
<1>1. OrderInv => NoUnknownData
  <2> SUFFICES ASSUME OrderInv, NEW k \in 1 .. Len(mail), mail[k].type = "data",
                      status = "running"
               PROVE  Lookup(mail[k].id) # Nil
    BY DEF NoUnknownData
  <2>1. mail \in Seq(EventType)
    BY DEF OrderInv, GateInv, TypeOK
  <2>2. mail[k] \in EventType /\ mail[k] \in Range(mail)
    BY <2>1 DEF Range
  <2>3. mail[k].id \in Ids /\ Held(mail[k].id)
    BY <2>2 DEF EventType, OrderInv, EntryInv, OpenHeld
  <2>. QED  BY <2>3, LookupHeld DEF OrderInv
<1>. QED  BY <1>1, GateOrdered, PTL

(* An entry whose socket is gone has its close or error event on the way:   *)
(* no slot of the table is lost, whoever closed the socket.                 *)
THEOREM GateDeadEntriesLeave == Spec => []DeadEntriesLeave
<1>1. OrderInv => DeadEntriesLeave
  <2> SUFFICES ASSUME OrderInv, NEW id \in LiveIds, sock[id] = "closed"
               PROVE  \E k \in 1 .. Len(mail) : mail[k].type \in Ends /\ mail[k].id = id
    BY DEF DeadEntriesLeave, Ends
  <2>1. id \in Ids
    BY DEF LiveIds, UsedSlots, OrderInv, GateInv, TypeOK, TableTypeOK
  <2>2. Held(id)
    BY <2>1, LookupHeld DEF OrderInv
  <2>3. PICK e \in Range(mail) : e.type \in Ends /\ e.id = id
    BY <2>1, <2>2 DEF OrderInv, EntryInv, EndOnTheWay
  <2>4. mail \in Seq(EventType)
    BY DEF OrderInv, GateInv, TypeOK
  <2>5. PICK k \in 1 .. Len(mail) : e = mail[k]
    BY <2>4 DEF Range
  <2>. QED  BY <2>3, <2>5
<1>. QED  BY <1>1, GateOrdered, PTL

(* Of every accepted socket the watchdog hears "accept" first and "close"   *)
(* last and once, and a socket it believes open has an entry.               *)
THEOREM GateWatchdogView == Spec => []WatchdogView
<1>1. OrderInv => WatchdogView
  <2> SUFFICES ASSUME OrderInv, NEW id \in Ids
               PROVE  /\ \A k \in 1 .. Len(log[id]) :
                           /\ log[id][k].what = "accept" => k = 1
                           /\ log[id][k].what = "close"  => k = Len(log[id])
                      /\ status = "running" /\ Noted(id, "accept") /\ ~Noted(id, "close")
                           => id \in LiveIds
    BY DEF WatchdogView
  <2>1. \A k \in 1 .. Len(log[id]) : /\ log[id][k].what = "accept" => k = 1
                                     /\ log[id][k].what = "close"  => k = Len(log[id])
    BY DEF OrderInv, LogInv, LogOrder
  <2>2. status = "running" /\ Noted(id, "accept") /\ ~Noted(id, "close") => id \in LiveIds
    BY LookupHeld DEF OrderInv, LogInv, AcceptedHeld
  <2>. QED  BY <2>1, <2>2
<1>. QED  BY <1>1, GateOrdered, PTL

(* After gate_release, once the socket thread has served its pipe, every    *)
(* socket whose accept the gate handled is closed, and so is its listener.  *)
THEOREM GateReleaseCloses == Spec => []ReleaseCloses
<1>1. OrderInv => ReleaseCloses
  <2> SUFFICES ASSUME OrderInv, status = "released", ctrl = <<>>, NEW id \in Ids,
                      Noted(id, "accept") \/ id = listen_id
               PROVE  sock[id] = "closed"
    BY DEF ReleaseCloses
  <2>1. Range(ctrl) = {}
    BY RangeEmpty
  <2>. QED  BY <2>1 DEF OrderInv, LogInv, ReleaseAsks
<1>. QED  BY <1>1, GateOrdered, PTL

\* Where the frames of one step go.
LEMMA StepRoutes ==
    ASSUME OrderInv, Next
    PROVE  \A id \in Ids : \A k \in Len(log[id]) + 1 .. Len(log'[id]) :
             log'[id][k].what = "data" =>
               log'[id][k].to = IF broker # 0 THEN broker
                                ELSE IF assigned[id] # 0 THEN assigned[id]
                                ELSE Watchdog
<1>t. log \in [Ids -> Seq(NoteType)]
  BY DEF OrderInv, LogInv, HistoryTypes
<1> DEFINE Routes == \A id \in Ids : \A k \in Len(log[id]) + 1 .. Len(log'[id]) :
             log'[id][k].what = "data" =>
               log'[id][k].to = IF broker # 0 THEN broker
                                ELSE IF assigned[id] # 0 THEN assigned[id]
                                ELSE Watchdog
<1>1. CASE UNCHANGED log
  <2>1. \A id \in Ids : Len(log[id]) \in Nat
    BY <1>t
  <2>2. \A id \in Ids : Len(log[id]) + 1 .. Len(log'[id]) = {}
    BY <1>1, <2>1
  <2>. QED  BY <2>2
<1>2. ASSUME NEW id \in Ids, NEW n \in NoteType, n.what # "data", Tell(id, n)
      PROVE  Routes
  <2>1. /\ \A j \in Ids : j # id => log'[j] = log[j]
        /\ Len(log[id]) \in Nat /\ Len(log'[id]) = Len(log[id]) + 1
        /\ log'[id][Len(log[id]) + 1] = n
    BY <1>t, <1>2, LogAppends
  <2>2. \A j \in Ids : Len(log[j]) \in Nat
    BY <1>t
  <2>3. SUFFICES ASSUME NEW j \in Ids, NEW k \in Len(log[j]) + 1 .. Len(log'[j]),
                        log'[j][k].what = "data"
                 PROVE  FALSE
    OBVIOUS
  <2>4. j = id
    BY <2>1, <2>2
  <2>5. k = Len(log[id]) + 1
    BY <2>1, <2>4
  <2>. QED  BY <1>2, <2>1, <2>3, <2>4, <2>5
<1>3. CASE OnData
  <2>0. PICK id \in Ids : id = Head(mail).id
    BY <1>3, FirstEvent DEF OnData
  <2> DEFINE m == Head(mail)
             i == Lookup(id)
             f == [buf[i] EXCEPT !.bytes = @ \o m.bytes]
             d == Drain(conn[i], f)
  <2>1. /\ status = "running" /\ m \in EventType /\ m.type = "data" /\ m \in Range(mail)
    BY <1>3, FirstEvent DEF OnData
  <2>2. i \in Slots /\ slot[i] = id /\ i # Nil /\ slot[i] # Nil
    <3>1. Held(id)
      BY <2>0, <2>1 DEF OrderInv, EntryInv, OpenHeld
    <3>. QED  BY <3>1, LookupHeld, IdsAssumption DEF OrderInv, Nil
  <2>3. log' = [log EXCEPT ![id] = @ \o d.notes]
    BY <1>3, <2>0, <2>2 DEF OnData
  <2>4. d \in DrainType(conn[i])
    <3>1. conn[i] \in ConnType /\ buf[i] \in FrameType
      BY <2>2 DEF OrderInv, GateInv, TypeOK, LogInv, HistoryTypes
    <3>2. m.bytes \in Seq(Int)
      <4>1. m.bytes \in Chunks
        BY <2>1 DEF EventType
      <4>2. m.bytes \in Seq(0 .. Base - 1)
        BY <4>1, ChunksAssumption
      <4>. QED  BY <4>2, BaseAssumption
    <3>3. f \in FrameType
      <4> HIDE DEF i, m
      <4>. QED  BY <3>1, <3>2, Received
    <3> HIDE DEF f
    <3>. QED  BY <3>1, <3>3, DrainResult
  <2>5. conn[i].agent = assigned[id]
    BY <2>2 DEF OrderInv, LogInv, ConnNamed
  <2> HIDE DEF d, i
  <2>6. /\ d.notes \in Seq(NotesTo(Reader(conn[i])))
        /\ \A n \in NotesTo(Reader(conn[i])) : n.to = Reader(conn[i])
    BY <2>4 DEF DrainType, NotesTo
  <2>7. \A k \in 1 .. Len(d.notes) : d.notes[k].to = Reader(conn[i])
    BY <2>6
  <2>8. log[id] \in Seq(NoteType) /\ log'[id] = log[id] \o d.notes
        /\ \A j \in Ids : j # id => log'[j] = log[j]
    BY <1>t, <2>3
  <2> DEFINE p == log[id]
             q == d.notes
  <2>9. /\ Len(p) \in Nat /\ Len(q) \in Nat /\ Len(p \o q) = Len(p) + Len(q)
        /\ \A k \in 1 .. Len(q) : (p \o q)[Len(p) + k] = q[k]
    <3>1. p \in Seq(NoteType) /\ q \in Seq(NotesTo(Reader(conn[i])))
      BY <2>6, <2>8
    <3> HIDE DEF p, q
    <3>. QED  BY <3>1
  <2>10. SUFFICES ASSUME NEW j \in Ids, NEW k \in Len(log[j]) + 1 .. Len(log'[j])
                  PROVE  log'[j][k].to = IF broker # 0 THEN broker
                                ELSE IF assigned[j] # 0 THEN assigned[j]
                                ELSE Watchdog
    OBVIOUS
  <2>11. j = id
    <3>1. Len(log[j]) \in Nat
      BY <1>t
    <3>. QED  BY <2>8, <3>1
  <2>12. k - Len(p) \in 1 .. Len(q) /\ k = Len(p) + (k - Len(p))
    <3>1. k \in Len(p) + 1 .. Len(p \o q)
      BY <2>8, <2>11
    <3> HIDE DEF p, q
    <3>. QED  BY <2>9, <3>1
  <2>13. log'[j][k] = q[k - Len(p)]
    BY <2>8, <2>9, <2>11, <2>12
  <2>14. log'[j][k].to = Reader(conn[i])
    BY <2>7, <2>12, <2>13
  <2>. QED  BY <2>5, <2>11, <2>14 DEF Reader
<1>4. CASE OnConnect
  <2>0. PICK id \in Ids : id = Head(mail).id
    BY <1>4, FirstEvent DEF OnConnect
  <2> DEFINE n == [what |-> "connected", to |-> conn[Lookup(id)].agent]
  <2>1. UNCHANGED log \/ (Lookup(id) # Nil /\ Tell(id, n))
    BY <1>4, <2>0 DEF OnConnect
  <2>2. Lookup(id) # Nil => n \in NoteType /\ n.what # "data"
    <3> SUFFICES ASSUME Lookup(id) # Nil  PROVE n \in NoteType /\ n.what # "data"
      OBVIOUS
    <3>1. Lookup(id) \in Slots
      BY LookupHeld DEF OrderInv
    <3>2. conn[Lookup(id)].agent \in Handles \cup {0}
      BY <3>1 DEF OrderInv, GateInv, TypeOK, ConnType
    <3>3. Handles \cup {0} \subseteq Nat
      BY HandlesAssumption
    <3>4. conn[Lookup(id)].agent \in Nat
      BY <3>2, <3>3, Zenon
    <3>. QED  BY <3>4 DEF NoteType
  <2> HIDE DEF n, Routes
  <2>3. Routes
    BY <1>1, <1>2, <2>1, <2>2 DEF Routes
  <2>. QED  BY <2>3 DEF Routes
<1>5. CASE OnClose \/ OnAccept
  <2>1. UNCHANGED log \/ \E id \in Ids, w \in {"close", "accept"} :
                           Tell(id, [what |-> w, to |-> Watchdog])
    <3>1. CASE OnClose
      <4>1. Head(mail).id \in Ids
        BY <3>1, FirstEvent DEF OnClose
      <4>. QED  BY <3>1, <4>1 DEF OnClose, Forget, Report
    <3>2. CASE OnAccept
      <4>1. Head(mail).ud \in Ids
        BY <3>2, FirstEvent DEF OnAccept
      <4>. QED  BY <3>2, <4>1 DEF OnAccept, Report
    <3>. QED  BY <1>5, <3>1, <3>2
  <2>2. ASSUME NEW id \in Ids, NEW w \in {"close", "accept"},
               Tell(id, [what |-> w, to |-> Watchdog])
        PROVE  Routes
    <3> DEFINE n == [what |-> w, to |-> Watchdog]
    <3>1. n \in NoteType /\ n.what # "data" /\ Tell(id, n)
      BY <2>2, HandlesAssumption DEF NoteType
    <3> HIDE DEF n, Routes
    <3>. QED  BY <1>2, <3>1
  <2>. QED  BY <1>1, <2>1, <2>2
<1>6. CASE ~(OnData \/ OnConnect \/ OnClose \/ OnAccept)
  <2>1. UNCHANGED log
    BY <1>6
    DEF Next, SockStep, SockStart, SockClose, SockSend, Peer, NewPeer, PeerSends, PeerCloses,
        Dialled, SockUnchanged, histVars, GateStep, TextCommand, Kick, Start, ClientMessage,
        Forward, Broker, Connect, CloseListen, Listen, gate_init, gate_release
  <2>. QED  BY <1>1, <2>1
<1>. QED  BY <1>3, <1>4, <1>5, <1>6

(* A frame goes to the broker, else to the agent last named for this very   *)
(* socket, else to the watchdog; never to the agent of an earlier user of   *)
(* the slot.                                                                *)
THEOREM GateRouted == Spec => RoutedToAssigned
<1>1. OrderInv /\ Next =>
        \A id \in Ids : \A k \in Len(log[id]) + 1 .. Len(log'[id]) :
          log'[id][k].what = "data" =>
            log'[id][k].to = IF broker # 0 THEN broker
                             ELSE IF assigned[id] # 0 THEN assigned[id]
                             ELSE Watchdog
  BY StepRoutes
<1>. QED  BY <1>1, GateOrdered, PTL DEF Spec, RoutedToAssigned

-----------------------------------------------------------------------------
(* The frames that the gate hands on are those of the client's byte stream, *)
(* however the stream was cut into socket events and whoever received them: *)
(* for every header size, base, set of chunks and length limit.             *)

-----------------------------------------------------------------------------
(* The bodies among notes.                                                  *)

\* b collects them.
Collects(b, l) ==
    /\ b[0] = <<>>
    /\ \A k \in 1 .. Len(l) :
         b[k] = IF l[k].what = "data" THEN Append(b[k - 1], l[k].body) ELSE b[k - 1]
    /\ \A k \in 0 .. Len(l) : b[k] \in Seq(Seq(Int))

LEMMA BodiesCollected ==
    ASSUME NEW l \in Seq(NoteType)
    PROVE  \E b : Collects(b, l) /\ BodiesOf(l) = b[Len(l)]
<1> DEFINE D == 0 .. Len(l)
           R == Seq(Seq(Int))
           base == {0}
           B == [k \in D |-> <<>>]
           N == [k \in D |-> k - 1]
           E == [p \in D \X R |-> IF l[p[1]].what = "data" THEN Append(p[2], l[p[1]].body) ELSE p[2]]
           mu == [k \in D |-> k]
           Eqn(g) == g = [k \in 0 .. Len(l) |->
                            IF k = 0 THEN <<>>
                            ELSE IF l[k].what = "data" THEN Append(g[k - 1], l[k].body) ELSE g[k - 1]]
<1>0. Len(l) \in Nat
  OBVIOUS
<1>1. ASSUME NEW k \in 1 .. Len(l)
      PROVE  k - 1 \in D /\ k \in D /\ k # 0 /\ (l[k].what = "data" => l[k].body \in Seq(Int))
  <2>1. l[k] \in NoteType
    OBVIOUS
  <2>. QED  BY <1>0, <2>1 DEF NoteType
<1>2. \A k \in D : mu[k] \in Nat
  BY <1>0
<1>3. \A k \in D : k \in base => B[k] \in R
  BY EmptyInSeq
<1>4. ASSUME NEW k \in D, k \notin base
      PROVE  N[k] \in D /\ mu[N[k]] < mu[k] /\ k \in 1 .. Len(l) /\ N[k] = k - 1
  BY <1>0, <1>4
<1>5. ASSUME NEW k \in D, NEW r \in R, k \notin base
      PROVE  /\ E[<<k, r>>] \in R
             /\ E[<<k, r>>] = IF l[k].what = "data" THEN Append(r, l[k].body) ELSE r
  <2>1. l[k].what = "data" => Append(r, l[k].body) \in R
    BY <1>1, <1>4, <1>5
  <2>2. E[<<k, r>>] = IF l[k].what = "data" THEN Append(r, l[k].body) ELSE r
    OBVIOUS
  <2> HIDE DEF E, R
  <2>. QED  BY <2>1, <2>2
<1>6. PICK h \in [D -> R] : Solves(h, D, base, B, N, E)
  <2> HIDE DEF D, base, B, N, E, mu, R
  <2>. QED  BY <1>2, <1>3, <1>4, <1>5, RecursionExists
<1>7. ASSUME NEW k \in D
      PROVE  h[k] = IF k = 0 THEN <<>>
                    ELSE IF l[k].what = "data" THEN Append(h[k - 1], l[k].body) ELSE h[k - 1]
  <2>1. CASE k = 0
    BY <1>6, <2>1 DEF Solves
  <2>2. CASE k # 0
    <3>1. h[k] = E[<<k, h[N[k]]>>] /\ h[N[k]] \in R
      BY <1>4, <1>6, <2>2 DEF Solves
    <3>2. k \notin base
      BY <2>2
    <3>3. N[k] = k - 1
      BY <1>4, <3>2
    <3>4. \A r \in R : E[<<k, r>>] = IF l[k].what = "data" THEN Append(r, l[k].body) ELSE r
      BY <1>5, <3>2
    <3> HIDE DEF E, N, R
    <3>. QED  BY <2>2, <3>1, <3>3, <3>4
  <2>. QED  BY <2>1, <2>2
<1>8. Eqn(h)
  <2>1. h = [k \in D |-> h[k]]
    BY <1>6
  <2>. QED  BY <1>7, <2>1
<1> DEFINE go == CHOOSE g : Eqn(g)
<1>9. Eqn(go)
  <2> HIDE DEF Eqn
  <2>. QED  BY <1>8, Zenon
<1>10. BodiesOf(l) = go[Len(l)]
  BY DEF BodiesOf
<1> HIDE DEF go
<1>11. ASSUME NEW k \in D
       PROVE  go[k] = IF k = 0 THEN <<>>
                      ELSE IF l[k].what = "data" THEN Append(go[k - 1], l[k].body) ELSE go[k - 1]
  BY <1>9
<1>12. \A k \in D : go[k] = h[k]
  <2> DEFINE T == {k \in Nat : k \in D => go[k] = h[k]}
  <2>1. 0 \in T
    BY <1>7, <1>11
  <2>2. ASSUME NEW k \in Nat, k \in T  PROVE k + 1 \in T
    <3>1. SUFFICES ASSUME k + 1 \in D  PROVE go[k + 1] = h[k + 1]
      OBVIOUS
    <3>2. k \in D /\ (k + 1) - 1 = k /\ k + 1 # 0
      BY <1>0, <3>1
    <3>3. go[k] = h[k]
      BY <2>2, <3>2
    <3> HIDE DEF D
    <3>. QED  BY <1>7, <1>11, <3>1, <3>2, <3>3
  <2> HIDE DEF T
  <2>3. Nat \subseteq T
    BY <2>1, <2>2, SetInduction
  <2>. QED  BY <1>0, <2>3 DEF T
<1>13. Collects(h, l)
  <2>1. h[0] = <<>>
    BY <1>0, <1>7
  <2>2. \A k \in 1 .. Len(l) :
         h[k] = IF l[k].what = "data" THEN Append(h[k - 1], l[k].body) ELSE h[k - 1]
    BY <1>1, <1>7
  <2>3. \A k \in 0 .. Len(l) : h[k] \in Seq(Seq(Int))
    BY <1>6
  <2>. QED  BY <2>1, <2>2, <2>3 DEF Collects
<1>14. Len(l) \in D
  BY <1>0
<1>. QED  BY <1>10, <1>12, <1>13, <1>14

\* Adding a body to a part adds it to the whole.
AddsLast(x, y, e) == Append(x \o y, e) = x \o Append(y, e)

LEMMA BodyLast ==
    ASSUME NEW x, NEW y, NEW e, x \in Seq(Seq(Int)), y \in Seq(Seq(Int)), e \in Seq(Int)
    PROVE  AddsLast(x, y, e)
<1>1. PICK X : X = Seq(Int)
  OBVIOUS
<1>2. x \in Seq(X) /\ y \in Seq(X) /\ e \in X
  BY <1>1, Zenon
<1>. QED  BY ONLY <1>2 DEF AddsLast

LEMMA BodiesType ==
    ASSUME NEW l \in Seq(NoteType)
    PROVE  BodiesOf(l) \in Seq(Seq(Int))
<1>1. PICK b : Collects(b, l) /\ BodiesOf(l) = b[Len(l)]
  BY BodiesCollected
<1>2. Len(l) \in 0 .. Len(l)
  OBVIOUS
<1>. QED  BY <1>1, <1>2 DEF Collects

LEMMA BodiesConcat ==
    ASSUME NEW l \in Seq(NoteType), NEW m \in Seq(NoteType)
    PROVE  BodiesOf(l \o m) = BodiesOf(l) \o BodiesOf(m)
<1>a. l \o m \in Seq(NoteType)
  OBVIOUS
<1>1. PICK lm \in Seq(NoteType) : lm = l \o m
  BY <1>a, Zenon
<1>2. /\ Len(l) \in Nat /\ Len(m) \in Nat /\ Len(lm) = Len(l) + Len(m)
      /\ \A k \in 1 .. Len(l) : lm[k] = l[k]
      /\ \A k \in 1 .. Len(m) : lm[Len(l) + k] = m[k]
  <2>1. /\ Len(l) \in Nat /\ Len(m) \in Nat /\ Len(l \o m) = Len(l) + Len(m)
        /\ \A k \in 1 .. Len(l) : (l \o m)[k] = l[k]
        /\ \A k \in 1 .. Len(m) : (l \o m)[Len(l) + k] = m[k]
    OBVIOUS
  <2>. QED  BY ONLY <1>1, <2>1, Zenon
<1>3. PICK bl : Collects(bl, l) /\ BodiesOf(l) = bl[Len(l)]
  BY BodiesCollected
<1>4. PICK bm : Collects(bm, m) /\ BodiesOf(m) = bm[Len(m)]
  BY BodiesCollected
<1>5. PICK b : Collects(b, lm) /\ BodiesOf(lm) = b[Len(lm)]
  BY BodiesCollected
<1>6. b[Len(l)] = bl[Len(l)]
  <2> DEFINE T == {k \in Nat : k <= Len(l) => b[k] = bl[k]}
  <2>1. 0 \in T
    BY <1>3, <1>5 DEF Collects
  <2>2. ASSUME NEW k \in Nat, k \in T  PROVE k + 1 \in T
    <3>1. SUFFICES ASSUME k + 1 <= Len(l)  PROVE b[k + 1] = bl[k + 1]
      OBVIOUS
    <3>2. k + 1 \in 1 .. Len(l) /\ k + 1 \in 1 .. Len(lm) /\ (k + 1) - 1 = k /\ k <= Len(l)
      BY <1>2, <3>1
    <3>3. b[k] = bl[k]
      BY <2>2, <3>2
    <3>4. b[k + 1] = IF lm[k + 1].what = "data" THEN Append(b[k], lm[k + 1].body) ELSE b[k]
      BY <1>5, <3>2 DEF Collects
    <3>5. bl[k + 1] = IF l[k + 1].what = "data" THEN Append(bl[k], l[k + 1].body) ELSE bl[k]
      BY <1>3, <3>2 DEF Collects
    <3>6. lm[k + 1] = l[k + 1]
      BY <1>2, <3>2
    <3>. QED  BY ONLY <3>3, <3>4, <3>5, <3>6, Zenon
  <2> HIDE DEF T
  <2>3. Nat \subseteq T
    BY <2>1, <2>2, SetInduction
  <2>. QED  BY <1>2, <2>3 DEF T
<1>7. PICK x \in Seq(Seq(Int)) : x = bl[Len(l)]
  <2>1. Len(l) \in 0 .. Len(l)
    BY <1>2
  <2>. QED  BY <1>3, <2>1 DEF Collects
<1>8. b[Len(l) + Len(m)] = x \o bm[Len(m)]
  <2> DEFINE T == {k \in Nat : k <= Len(m) => b[Len(l) + k] = x \o bm[k]}
  <2>1. 0 \in T
    <3>1. x \o <<>> = x /\ Len(l) + 0 = Len(l)
      BY <1>2
    <3>. QED  BY <1>4, <1>6, <1>7, <3>1 DEF Collects
  <2>2. ASSUME NEW k \in Nat, k \in T  PROVE k + 1 \in T
    <3>1. SUFFICES ASSUME k + 1 <= Len(m)  PROVE b[Len(l) + (k + 1)] = x \o bm[k + 1]
      OBVIOUS
    <3>2. /\ k + 1 \in 1 .. Len(m) /\ Len(l) + (k + 1) \in 1 .. Len(lm)
          /\ (k + 1) - 1 = k /\ k <= Len(m) /\ k \in 0 .. Len(m)
          /\ (Len(l) + (k + 1)) - 1 = Len(l) + k
      BY <1>2, <3>1
    <3>3. b[Len(l) + k] = x \o bm[k]
      BY <2>2, <3>2
    <3>4. LET e == lm[Len(l) + (k + 1)] IN
          b[Len(l) + (k + 1)] = IF e.what = "data" THEN Append(b[Len(l) + k], e.body)
                                ELSE b[Len(l) + k]
      BY <1>5, <3>2 DEF Collects
    <3>5. bm[k + 1] = IF m[k + 1].what = "data" THEN Append(bm[k], m[k + 1].body) ELSE bm[k]
      BY <1>4, <3>2 DEF Collects
    <3>6. lm[Len(l) + (k + 1)] = m[k + 1]
      BY <1>2, <3>2
    <3>7. CASE m[k + 1].what = "data"
      <4>1. PICK y \in Seq(Seq(Int)) : y = bm[k]
        BY <1>4, <3>2 DEF Collects
      <4>2. m[k + 1].body \in Seq(Int)
        <5>1. m[k + 1] \in NoteType
          BY <3>2
        <5>. QED  BY <3>7, <5>1 DEF NoteType
      <4>3. PICK e \in Seq(Int) : e = m[k + 1].body
        BY <4>2
      <4>4. Append(x \o y, e) = x \o Append(y, e)
        <5>1. AddsLast(x, y, e)
          BY BodyLast, Zenon
        <5>. QED  BY ONLY <5>1 DEF AddsLast
      <4>5. b[Len(l) + (k + 1)] = Append(x \o y, e) /\ bm[k + 1] = Append(y, e)
        BY ONLY <3>3, <3>4, <3>5, <3>6, <3>7, <4>1, <4>3, Zenon
      <4>. QED  BY ONLY <4>4, <4>5, Zenon
    <3>8. CASE m[k + 1].what # "data"
      BY ONLY <3>3, <3>4, <3>5, <3>6, <3>8, Zenon
    <3>. QED  BY <3>7, <3>8
  <2> HIDE DEF T
  <2>3. Nat \subseteq T
    BY <2>1, <2>2, SetInduction
  <2>. QED  BY <1>2, <2>3 DEF T
<1>. QED  BY ONLY <1>1, <1>2, <1>3, <1>4, <1>5, <1>7, <1>8, Zenon

LEMMA BodiesOfOne ==
    ASSUME NEW e \in NoteType
    PROVE  BodiesOf(<<e>>) = IF e.what = "data" THEN <<e.body>> ELSE <<>>
<1>a. <<e>> \in Seq(NoteType)
  OBVIOUS
<1>1. PICK l \in Seq(NoteType) : l = <<e>>
  BY <1>a, Zenon
<1>2. Len(l) = 1 /\ l[1] = e
  BY <1>1
<1>3. PICK b : Collects(b, l) /\ BodiesOf(l) = b[Len(l)]
  BY BodiesCollected
<1>4. 1 \in 1 .. Len(l) /\ 1 - 1 = 0
  BY <1>2
<1>5. b[1] = IF e.what = "data" THEN Append(<<>>, e.body) ELSE <<>>
  <2>1. b[1] = IF l[1].what = "data" THEN Append(b[1 - 1], l[1].body) ELSE b[1 - 1]
    BY <1>3, <1>4 DEF Collects
  <2>. QED  BY <1>2, <1>3, <1>4, <2>1 DEF Collects
<1>6. Append(<<>>, e.body) = <<e.body>>
  OBVIOUS
<1>. QED  BY <1>1, <1>2, <1>3, <1>5, <1>6, Zenon

LEMMA BodiesOfNone == BodiesOf(<<>>) = <<>>
<1>1. <<>> \in Seq(NoteType) /\ Len(<<>>) = 0
  BY EmptyInSeq
<1>2. PICK l \in Seq(NoteType) : l = <<>>
  BY <1>1
<1>3. PICK b : Collects(b, l) /\ BodiesOf(l) = b[Len(l)]
  BY BodiesCollected
<1>. QED  BY <1>1, <1>2, <1>3 DEF Collects

-----------------------------------------------------------------------------
(* The loop of dispatch_message cuts the frames off the stream.             *)

Small(bs) == \A k \in 1 .. Len(bs) : Len(bs[k]) < BigFrame

\* The frames up to n, bodies bs, are off, and the next is too long.
StoppedAt(s, n, bs) ==
    /\ Cut(s, n, bs) /\ Small(bs)
    /\ Whole(s, n) /\ HeaderAt(s, n) >= BigFrame /\ HeaderAt(s, n) # 0

\* The frames up to n, bodies bs, are off, and there is no further one.
CaughtUp(s, n, bs) == Cut(s, n, bs) /\ Small(bs) /\ ~Whole(s, n)

\* What the loop has to leave when the bodies bs were handed on before it.
DrainsTo(s, bs, r) ==
    \E n : IF r.big THEN StoppedAt(s, n, bs \o BodiesOf(r.notes))
           ELSE CaughtUp(s, n, bs \o BodiesOf(r.notes)) /\ Matches(r.buf, s, n)

LEMMA ReaderNumber ==
    ASSUME NEW c \in ConnType, broker \in Handles \cup {0}
    PROVE  Reader(c) \in Nat
<1>1. c.agent \in Handles \cup {0}
  BY DEF ConnType
<1>2. Handles \cup {0} \subseteq Nat /\ Watchdog \in Nat
  BY HandlesAssumption
<1>3. c.agent \in Nat /\ broker \in Nat
  BY <1>1, <1>2, Zenon
<1>. QED  BY <1>2, <1>3 DEF Reader

LEMMA SmallMore ==
    ASSUME NEW bs \in Seq(Seq(Int)), NEW b \in Seq(Int), Small(bs), Len(b) < BigFrame
    PROVE  bs \o <<b>> \in Seq(Seq(Int)) /\ Small(bs \o <<b>>)
<1>1. PICK X : X = Seq(Int)
  OBVIOUS
<1>2. bs \in Seq(X) /\ b \in X
  BY <1>1, Zenon
<1>3. /\ bs \o <<b>> \in Seq(X) /\ Len(bs) \in Nat /\ Len(bs \o <<b>>) = Len(bs) + 1
      /\ \A k \in 1 .. Len(bs) : (bs \o <<b>>)[k] = bs[k]
      /\ (bs \o <<b>>)[Len(bs) + 1] = b
  BY <1>2
<1>4. \A k \in 1 .. Len(bs) + 1 : k \in 1 .. Len(bs) \/ k = Len(bs) + 1
  BY <1>3
<1>5. ASSUME NEW k \in 1 .. Len(bs \o <<b>>)
      PROVE  Len((bs \o <<b>>)[k]) < BigFrame
  <2>1. CASE k \in 1 .. Len(bs)
    <3>1. (bs \o <<b>>)[k] = bs[k] /\ Len(bs[k]) < BigFrame
      BY <1>3, <2>1, Zenon DEF Small
    <3>. QED  BY <3>1, Zenon
  <2>2. CASE k = Len(bs) + 1
    <3>1. (bs \o <<b>>)[k] = b
      BY <1>3, <2>2, Zenon
    <3>. QED  BY <3>1, Zenon
  <2>. QED  BY <1>3, <1>4, <2>1, <2>2, Zenon
<1>6. Small(bs \o <<b>>)
  BY <1>5, Zenon DEF Small
<1>. QED  BY <1>1, <1>3, <1>6, Zenon

LEMMA NothingMore ==
    ASSUME NEW bs \in Seq(Seq(Int))
    PROVE  bs \o <<>> = bs /\ bs \o BodiesOf(<<>>) = bs
<1>1. bs \o <<>> = bs
  OBVIOUS
<1>. QED  BY <1>1, BodiesOfNone, Zenon

\* One turn that takes a frame off: it goes on behind the frame.
LEMMA TurnMatches ==
    ASSUME NEW s \in Seq(Int), NEW n, NEW f, Matches(f, s, n), HeaderResult(f) >= 0
    PROVE  /\ Whole(s, n) /\ n \in Nat /\ NextAt(s, n) \in 0 .. Len(s) /\ NextAt(s, n) > n
           /\ HeaderResult(f) = HeaderAt(s, n)
           /\ HeaderResult(f) = 0 =>
                Matches(AfterHeader(f), s, NextAt(s, n)) /\ BodyAt(s, n) = <<>>
           /\ HeaderResult(f) # 0 =>
                LET b == Take(AfterHeader(f).bytes, HeaderResult(f))
                IN  /\ Matches([header |-> 0, bytes |-> Drop(AfterHeader(f).bytes, HeaderResult(f))],
                               s, NextAt(s, n))
                    /\ b \in Seq(Int) /\ Len(b) = HeaderResult(f) /\ BodyAt(s, n) = <<b>>
<1>0. f \in FrameType /\ n \in Nat /\ Len(s) \in Nat /\ HeaderSize \in Nat \ {0}
  BY HeaderSizeAssumption DEF Matches
<1>1. PICK h \in Int : h = HeaderResult(f)
  BY HeaderMatch
<1>2. PICK a \in FrameType : a = AfterHeader(f)
  BY <1>0, HeaderStep
<1>3. /\ Whole(s, n) /\ h = HeaderAt(s, n) /\ h >= 0
      /\ a.header = h /\ a.bytes = Drop(s, n + HeaderSize)
  BY <1>1, <1>2, HeaderMatch
<1>4. n + HeaderSize + h <= Len(s) /\ n + HeaderSize <= Len(s)
  BY <1>3 DEF Whole
<1>5. NextAt(s, n) = (n + HeaderSize) + h
  BY <1>3 DEF NextAt
<1>6. n + HeaderSize \in Nat /\ h \in Nat /\ (n + HeaderSize) + h \in 0 .. Len(s)
      /\ (n + HeaderSize) + h > n
  BY <1>0, <1>3, <1>4
<1>7. CASE h = 0
  <2>1. NextAt(s, n) = n + HeaderSize
    BY <1>5, <1>6, <1>7
  <2>2. Matches(a, s, NextAt(s, n))
    BY <1>3, <1>5, <1>6, <1>7, <2>1 DEF Matches
  <2>3. BodyAt(s, n) = <<>>
    BY <1>3, <1>7 DEF BodyAt
  <2>. QED  BY <1>0, <1>1, <1>2, <1>3, <1>5, <1>6, <1>7, <2>2, <2>3
<1>8. CASE h # 0
  <2>1. /\ Drop(a.bytes, h) = Drop(s, (n + HeaderSize) + h)
        /\ Take(a.bytes, h) = SubSeq(s, n + HeaderSize + 1, n + HeaderSize + h)
    <3>1. (n + HeaderSize) + h <= Len(s)
      BY <1>6
    <3>. QED  BY <1>3, <1>6, <3>1, RestFacts, ZenonT(90)
  <2>2. PICK b : b = Take(a.bytes, h)
    OBVIOUS
  <2>3. b \in Seq(Int) /\ Len(b) = h
    <3>1. a.bytes \in Seq(Int) /\ Len(a.bytes) = Len(s) - (n + HeaderSize)
      <4>1. n + HeaderSize \in 0 .. Len(s)
        BY <1>0, <1>4
      <4>. QED  BY <1>3, <4>1, DropIs
    <3>2. h \in 0 .. Len(a.bytes)
      BY <1>0, <1>4, <1>6, <3>1
    <3>. QED  BY <2>2, <3>1, <3>2, SubSeqFacts
  <2>4. BodyAt(s, n) = <<b>>
    BY <1>3, <1>8, <2>1, <2>2 DEF BodyAt
  <2>5. PICK g : g = [header |-> 0, bytes |-> Drop(a.bytes, h)]
    OBVIOUS
  <2>6. g.header = 0 /\ g.bytes = Drop(s, NextAt(s, n))
    BY <1>5, <2>1, <2>5
  <2>7. Drop(s, NextAt(s, n)) \in Seq(Int)
    BY <1>5, <1>6, DropIs
  <2>8. g \in FrameType
    BY <2>5, <2>6, <2>7 DEF FrameType
  <2>9. Matches(g, s, NextAt(s, n))
    BY <1>5, <1>6, <2>6, <2>8 DEF Matches
  <2>10. NextAt(s, n) \in 0 .. Len(s) /\ NextAt(s, n) > n
    BY <1>5, <1>6
  <2>. QED
    BY ONLY <1>0, <1>1, <1>2, <1>3, <1>8, <2>2, <2>3, <2>4, <2>5, <2>9, <2>10, Zenon
<1>. QED  BY <1>7, <1>8

LEMMA DrainCuts ==
    ASSUME NEW c \in ConnType, Watchdog # 0, broker \in Handles \cup {0},
           NEW s \in Seq(Int), NEW n0, NEW bs0, NEW f0,
           Cut(s, n0, bs0), Small(bs0), Matches(f0, s, n0)
    PROVE  DrainsTo(s, bs0, Drain(c, f0))
<1> DEFINE D == 0 .. Len(s)
           mu == [n \in D |-> Len(s) - n]
           T == {n \in D : \A bs, f : Cut(s, n, bs) /\ Small(bs) /\ Matches(f, s, n)
                                         => DrainsTo(s, bs, Drain(c, f))}
<1>0. Len(s) \in Nat /\ HasReader(c)
  BY DEF HasReader
<1>1. ASSUME NEW n \in D, \A m \in D : mu[m] < mu[n] => m \in T
      PROVE  n \in T
  <2> SUFFICES ASSUME NEW bs, NEW f, Cut(s, n, bs), Small(bs), Matches(f, s, n)
               PROVE  DrainsTo(s, bs, Drain(c, f))
    OBVIOUS
  <2>0. f \in FrameType /\ bs \in Seq(Seq(Int)) /\ n \in Nat
    BY CutType DEF Matches
  <2>1. PICK h \in Int : h = HeaderResult(f)
    BY HeaderMatch
  <2>2. PICK a \in FrameType : a = AfterHeader(f)
    BY <2>0, HeaderStep
  <2> DEFINE rest == [header |-> 0, bytes |-> Drop(a.bytes, h)]
             note == DataNote(c, Take(a.bytes, h))
  <2>3. Drain(c, f) =
          IF h < 0 THEN [buf |-> a, notes |-> <<>>, big |-> FALSE]
          ELSE IF h = 0 THEN Drain(c, a)
          ELSE IF h >= BigFrame THEN [buf |-> BlankFrame, notes |-> <<>>, big |-> TRUE]
          ELSE [Drain(c, rest) EXCEPT !.notes = <<note>> \o @]
    BY <1>0, <2>0, <2>1, <2>2, DrainUnfolds, Zenon
  <2> HIDE DEF rest, note, T, D
  \* The rest does not hold a whole frame.
  <2>4. CASE h < 0
    <3>1. ~Whole(s, n) /\ Matches(a, s, n)
      BY <2>1, <2>2, <2>4, HeaderMatch
    <3>2. PICK r : r = Drain(c, f)
      OBVIOUS
    <3>3. r.buf = a /\ r.notes = <<>> /\ r.big = FALSE
      BY <2>3, <2>4, <3>2
    <3>4. bs \o BodiesOf(r.notes) = bs
      BY <2>0, <3>3, NothingMore
    <3>5. CaughtUp(s, n, bs)
      BY <3>1 DEF CaughtUp
    <3>. QED  BY ONLY <3>1, <3>2, <3>3, <3>4, <3>5 DEF DrainsTo
  <2>5. CASE h >= 0
    <3>1. /\ Whole(s, n) /\ NextAt(s, n) \in D /\ NextAt(s, n) > n /\ h = HeaderAt(s, n)
          /\ h = 0 => Matches(a, s, NextAt(s, n)) /\ BodyAt(s, n) = <<>>
          /\ h # 0 => /\ Matches(rest, s, NextAt(s, n))
                      /\ Take(a.bytes, h) \in Seq(Int) /\ Len(Take(a.bytes, h)) = h
                      /\ BodyAt(s, n) = <<Take(a.bytes, h)>>
      BY <2>1, <2>2, <2>5, TurnMatches DEF rest, D
    <3>2. NextAt(s, n) \in T
      BY <1>0, <1>1, <2>0, <3>1 DEF D
    <3>3. Cut(s, NextAt(s, n), bs \o BodyAt(s, n))
      BY <2>0, <3>1, CutStep
    <3>4. CASE h = 0
      <4>1. Cut(s, NextAt(s, n), bs)
        BY <2>0, <3>1, <3>3, <3>4, NothingMore
      <4>2. DrainsTo(s, bs, Drain(c, a))
        BY <3>1, <3>2, <3>4, <4>1 DEF T
      <4>. QED  BY <2>3, <3>4, <4>2
    \* The next frame is too long.
    <3>5. CASE h # 0 /\ h >= BigFrame
      <4>1. PICK r : r = Drain(c, f)
        OBVIOUS
      <4>2. r.notes = <<>> /\ r.big = TRUE
        BY <2>3, <2>5, <3>5, <4>1
      <4>3. bs \o BodiesOf(r.notes) = bs
        BY <2>0, <4>2, NothingMore
      <4>4. StoppedAt(s, n, bs)
        BY <3>1, <3>5 DEF StoppedAt
      <4>. QED  BY ONLY <4>1, <4>2, <4>3, <4>4 DEF DrainsTo
    \* A frame goes to its reader.
    <3>6. CASE h # 0 /\ ~(h >= BigFrame)
      <4>1. PICK b \in Seq(Int) : b = Take(a.bytes, h)
        BY <3>1, <3>6
      <4>2. Len(b) < BigFrame
        BY <3>1, <3>6, <4>1, BigFrameAssumption
      <4>3. PICK cs \in Seq(Seq(Int)) : cs = bs \o <<b>> /\ Small(cs)
        BY <2>0, <4>2, SmallMore
      <4>4. Cut(s, NextAt(s, n), cs)
        BY <3>1, <3>3, <3>6, <4>1, <4>3
      <4>5. PICK r : r = Drain(c, rest)
        OBVIOUS
      <4>6. DrainsTo(s, cs, r)
        BY <3>1, <3>2, <3>6, <4>3, <4>4, <4>5 DEF T
      <4>7. r \in DrainType(c)
        <5>1. rest \in FrameType
          BY <3>1, <3>6 DEF Matches
        <5>. QED  BY <4>5, <5>1, DrainResult
      <4>8. Reader(c) \in Nat /\ NotesTo(Reader(c)) \subseteq NoteType
        <5>1. Reader(c) \in Nat
          BY ReaderNumber
        <5>. QED  BY <5>1 DEF NotesTo, NoteType
      <4>9. PICK l \in Seq(NoteType) : l = r.notes
        <5>1. r.notes \in Seq(NotesTo(Reader(c)))
          BY <4>7 DEF DrainType
        <5>2. r.notes \in Seq(NoteType)
          <6> HIDE DEF NotesTo, NoteType
          <6>. QED  BY <4>8, <5>1
        <5>. QED  BY <5>2, Zenon
      <4>10. note \in NoteType /\ note.what = "data" /\ note.body = b
        <5>1. c.client \in Nat
          <6>1. c.client \in Clients \cup {0}
            BY DEF ConnType
          <6>2. Clients \cup {0} \subseteq Nat
            BY HandlesAssumption
          <6>. QED  BY <6>1, <6>2, Zenon
        <5>2. (IF broker = 0 /\ c.agent # 0 THEN c.client ELSE 0) \in Nat
          BY <5>1
        <5>. QED  BY <4>1, <4>8, <5>2 DEF note, DataNote, NoteType
      <4>11. BodiesOf(<<note>> \o l) = <<b>> \o BodiesOf(l)
        <5>1. PICK e \in NoteType : e = note
          BY <4>10
        <5>2. <<e>> \in Seq(NoteType)
          OBVIOUS
        <5>3. BodiesOf(<<e>> \o l) = BodiesOf(<<e>>) \o BodiesOf(l)
          BY <5>2, BodiesConcat
        <5>4. BodiesOf(<<e>>) = <<b>>
          BY <4>10, <5>1, BodiesOfOne
        <5>. QED  BY <5>1, <5>3, <5>4, Zenon
      <4>12. PICK q \in Seq(Seq(Int)) : q = BodiesOf(l)
        BY BodiesType
      <4>13. bs \o (<<b>> \o q) = cs \o q
        <5>1. <<b>> \in Seq(Seq(Int))
          OBVIOUS
        <5>2. PICK bb \in Seq(Seq(Int)) : bb = <<b>>
          BY <5>1, Zenon
        <5>3. PICK b0 \in Seq(Seq(Int)) : b0 = bs
          BY <2>0
        <5>4. b0 \o (bb \o q) = (b0 \o bb) \o q
          BY BodiesJoin
        <5>. QED  BY ONLY <4>3, <5>2, <5>3, <5>4, Zenon
      <4>14. PICK r2 : r2 = Drain(c, f)
        OBVIOUS
      <4>15. r2.buf = r.buf /\ r2.big = r.big /\ r2.notes = <<note>> \o l
        <5>1. r2 = [r EXCEPT !.notes = <<note>> \o @]
          BY <2>3, <2>5, <3>6, <4>5, <4>14
        <5>. QED  BY <4>7, <4>9, <5>1 DEF DrainType
      <4>16. bs \o BodiesOf(r2.notes) = cs \o BodiesOf(r.notes)
        BY ONLY <4>9, <4>11, <4>12, <4>13, <4>15, Zenon
      <4>17. DrainsTo(s, bs, r2)
        BY ONLY <4>6, <4>15, <4>16, Zenon DEF DrainsTo
      <4>. QED  BY <4>14, <4>17
    <3>. QED  BY <3>4, <3>5, <3>6
  <2>. QED  BY <2>4, <2>5
<1>2. \A n \in D : mu[n] \in Nat
  BY <1>0
<1>3. D \subseteq T
  <2> HIDE DEF D, mu, T
  <2>. QED  BY <1>1, <1>2, MeasureInduction
<1>4. n0 \in D
  BY DEF Matches
<1> HIDE DEF D
<1>. QED  BY <1>3, <1>4

-----------------------------------------------------------------------------
(* The inductive invariant: what was handed on of a stream.                 *)

(* Of stream s, whose connection has the buffers F, the bodies b were       *)
(* handed on: all up to a frame that is too long and maybe more, or all     *)
(* there are, and the buffers hold the rest.                                *)
HandedOn(s, b, F) ==
    \E n, bs :
      \/ StoppedAt(s, n, bs) /\ \E u \in Seq(Seq(Int)) : b = bs \o u
      \/ CaughtUp(s, n, bs) /\ b = bs /\ \A f \in F : Matches(f, s, n)

Buffers(id) == {buf[i] : i \in {j \in Slots : slot[j] = id}}

FrameInv ==
    /\ stream \in [Ids -> Seq(Int)]
    /\ \A id \in Ids : /\ HandedOn(stream[id], Bodies(id), Buffers(id))
                       /\ Unheard(id) => stream[id] = <<>>

LEMMA NothingYet == HandedOn(<<>>, <<>>, {BlankFrame})
<1>1. <<>> \in Seq(Int) /\ Len(<<>>) = 0 /\ <<>> \in Seq(Seq(Int))
  BY EmptyInSeq
<1>2. ~Whole(<<>>, 0)
  BY <1>1, HeaderSizeAssumption DEF Whole
<1>3. Cut(<<>>, 0, <<>>)
  BY CutStart
<1>4. Small(<<>>)
  BY <1>1 DEF Small
<1>5. Matches(BlankFrame, <<>>, 0)
  <2>1. BlankFrame \in FrameType /\ BlankFrame.header = 0 /\ BlankFrame.bytes = <<>>
    BY <1>1 DEF BlankFrame, FrameType
  <2>2. Drop(<<>>, 0) = <<>>
    BY DEF Drop
  <2>3. 0 \in 0 .. Len(<<>>)
    BY <1>1
  <2>. QED  BY <2>1, <2>2, <2>3 DEF Matches
<1>6. CaughtUp(<<>>, 0, <<>>)
  BY <1>2, <1>3, <1>4 DEF CaughtUp
<1>. QED  BY <1>5, <1>6 DEF HandedOn

LEMMA FewerBuffers ==
    ASSUME NEW s, NEW b, NEW F, NEW G, HandedOn(s, b, F), G \subseteq F
    PROVE  HandedOn(s, b, G)
BY Zenon DEF HandedOn

\* One chunk c more, from which the loop made r.
LEMMA ChunkHanded ==
    ASSUME NEW s \in Seq(Int), NEW c \in Seq(Int), NEW b \in Seq(Seq(Int)), NEW f,
           HandedOn(s, b, {f}),
           NEW k \in ConnType, Watchdog # 0, broker \in Handles \cup {0},
           NEW r, r = Drain(k, [f EXCEPT !.bytes = @ \o c]),
           r.big \in BOOLEAN, BodiesOf(r.notes) \in Seq(Seq(Int))
    PROVE  HandedOn(s \o c, b \o BodiesOf(r.notes), {r.buf})
<1>0. s \o c \in Seq(Int)
  OBVIOUS
<1>1. PICK t \in Seq(Int) : t = s \o c
  BY <1>0, Zenon
<1>2. PICK v \in Seq(Seq(Int)) : v = BodiesOf(r.notes)
  BY Zenon
<1>3. ASSUME NEW n, NEW bs, NEW u \in Seq(Seq(Int)), StoppedAt(s, n, bs), b = bs \o u
      PROVE  HandedOn(t, b \o v, {r.buf})
  <2>1. n \in Nat /\ n + HeaderSize <= Len(s) /\ bs \in Seq(Seq(Int))
    BY <1>3, CutType DEF StoppedAt, Whole
  <2>2. Whole(t, n) /\ HeaderAt(t, n) = HeaderAt(s, n)
    BY <1>1, <1>3, <2>1, HeaderStays DEF StoppedAt
  <2>3. Cut(t, n, bs)
    BY <1>1, <1>3, CutStays DEF StoppedAt
  <2>4. StoppedAt(t, n, bs)
    BY <1>3, <2>2, <2>3 DEF StoppedAt
  <2>5. PICK b0 \in Seq(Seq(Int)) : b0 = bs
    BY <2>1
  <2>6. b0 \o (u \o v) = (b0 \o u) \o v /\ u \o v \in Seq(Seq(Int))
    BY BodiesJoin, ZenonT(90)
  <2>7. b \o v = bs \o (u \o v)
    BY ONLY <1>3, <2>5, <2>6, Zenon
  <2>. QED  BY <2>4, <2>6, <2>7, Zenon DEF HandedOn
<1>4. ASSUME NEW n, CaughtUp(s, n, b), Matches(f, s, n)
      PROVE  HandedOn(t, b \o v, {r.buf})
  <2>1. Cut(t, n, b) /\ Small(b)
    BY <1>1, <1>4, CutStays DEF CaughtUp
  <2>2. Matches([f EXCEPT !.bytes = @ \o c], t, n)
    BY <1>1, <1>4, MatchGrows
  <2>3. DrainsTo(t, b, r)
    BY <2>1, <2>2, DrainCuts
  <2>4. PICK m : IF r.big THEN StoppedAt(t, m, b \o v)
                 ELSE CaughtUp(t, m, b \o v) /\ Matches(r.buf, t, m)
    BY <1>2, <2>3, Zenon DEF DrainsTo
  <2>5. CASE r.big
    <3>1. StoppedAt(t, m, b \o v)
      BY <2>4, <2>5
    <3>2. PICK w \in Seq(Seq(Int)) : w = b \o v
      <4>1. b \o v \in Seq(Seq(Int))
        BY BodiesJoin
      <4>. QED  BY <4>1, Zenon
    <3>3. w \o <<>> = w /\ <<>> \in Seq(Seq(Int))
      BY NothingMore, EmptyInSeq
    <3>. QED  BY <3>1, <3>2, <3>3, Zenon DEF HandedOn
  <2>6. CASE ~r.big
    <3>1. CaughtUp(t, m, b \o v) /\ Matches(r.buf, t, m)
      BY <2>4, <2>6
    <3>. QED  BY <3>1, Zenon DEF HandedOn
  <2>. QED  BY <2>5, <2>6
<1>5. HandedOn(t, b \o v, {r.buf})
  BY <1>3, <1>4, Zenon DEF HandedOn
<1>. QED  BY <1>1, <1>2, <1>5, Zenon

LEMMA OnDataHands ==
    ASSUME OrderInv, FrameInv, Watchdog # 0, OnData
    PROVE  FrameInv'
<1>0. PICK id \in Ids : id = Head(mail).id
  BY FirstEvent DEF OnData
<1> DEFINE m == Head(mail)
           i == Lookup(id)
           f == [buf[i] EXCEPT !.bytes = @ \o m.bytes]
           d == Drain(conn[i], f)
<1>1. /\ status = "running" /\ UNCHANGED sock
      /\ m \in EventType /\ m.type = "data" /\ m \in Range(mail)
      /\ Range(mail) = Range(mail') \cup {m}
  BY <1>0, FirstEvent DEF OnData
<1>2. Held(id) /\ i \in Slots /\ slot[i] = id /\ i # Nil /\ \A j \in Slots : slot[j] = id => j = i
  <2>1. Held(id)
    BY <1>0, <1>1 DEF OrderInv, EntryInv, OpenHeld
  <2>. QED  BY <2>1, LookupHeld DEF OrderInv
<1>3. /\ buf' = [buf EXCEPT ![i] = d.buf]
      /\ log' = [log EXCEPT ![id] = @ \o d.notes]
      /\ stream' = [stream EXCEPT ![id] = @ \o m.bytes]
      /\ UNCHANGED slot
  BY <1>0, <1>2 DEF OnData, tableVars
<1>4. conn[i] \in ConnType /\ buf[i] \in FrameType /\ broker \in Handles \cup {0}
  BY <1>2 DEF OrderInv, GateInv, TypeOK, LogInv, HistoryTypes
<1>5. m.bytes \in Seq(Int)
  <2>1. m.bytes \in Chunks
    BY <1>1 DEF EventType
  <2>2. m.bytes \in Seq(0 .. Base - 1)
    BY <2>1, ChunksAssumption
  <2>. QED  BY <2>2, BaseAssumption
<1> HIDE DEF m, i
<1>6. d \in DrainType(conn[i])
  <2>1. f \in FrameType
    BY <1>4, <1>5, Received
  <2> HIDE DEF f
  <2>. QED  BY <1>4, <2>1, DrainResult
<1>7. d.notes \in Seq(NoteType) /\ d.big \in BOOLEAN
  <2>1. d.notes \in Seq(NotesTo(Reader(conn[i]))) /\ d.big \in BOOLEAN
    <3> HIDE DEF d
    <3>. QED  BY <1>6 DEF DrainType
  <2>2. Reader(conn[i]) \in Nat
    BY <1>4, ReaderNumber
  <2>3. NotesTo(Reader(conn[i])) \subseteq NoteType
    BY <2>2 DEF NotesTo, NoteType
  <2> HIDE DEF NotesTo, NoteType, d
  <2>. QED  BY <2>1, <2>3
<1>8. PICK r : r = Drain(conn[i], [buf[i] EXCEPT !.bytes = @ \o m.bytes])
  OBVIOUS
<1>9. d = r
  BY <1>8
<1> HIDE DEF d
<1>10. log \in [Ids -> Seq(NoteType)] /\ stream \in [Ids -> Seq(Int)] /\ buf \in [Slots -> FrameType]
  BY DEF OrderInv, LogInv, HistoryTypes, FrameInv
<1>11. PICK l \in Seq(NoteType) : l = log[id]
  BY <1>10
<1>12. PICK q \in Seq(NoteType) : q = r.notes
  BY <1>7, <1>9
<1>13. /\ Bodies(id) = BodiesOf(l) /\ Bodies(id)' = BodiesOf(l \o q)
       /\ \A j \in Ids : j # id => Bodies(j)' = Bodies(j)
  <2>1. log'[id] = l \o q /\ \A j \in Ids : j # id => log'[j] = log[j]
    BY <1>3, <1>9, <1>10, <1>11, <1>12
  <2>. QED  BY <1>11, <2>1, Zenon DEF Bodies
<1>14. Bodies(id)' = Bodies(id) \o BodiesOf(r.notes)
  BY <1>12, <1>13, BodiesConcat
<1>15. /\ stream'[id] = stream[id] \o m.bytes
       /\ \A j \in Ids : j # id => stream'[j] = stream[j]
       /\ stream' \in [Ids -> Seq(Int)]
  <2>1. stream[id] \in Seq(Int)
    BY <1>10
  <2>2. PICK t : t = stream[id] \o m.bytes
    OBVIOUS
  <2>3. t \in Seq(Int)
    BY <1>5, <2>1, <2>2, ConcatInSeq
  <2>4. stream' = [stream EXCEPT ![id] = t]
    BY <1>3, <2>2
  <2>. QED  BY <1>10, <2>2, <2>3, <2>4
<1>16. Buffers(id) = {buf[i]} /\ Buffers(id)' = {r.buf}
       /\ \A j \in Ids : j # id => Buffers(j)' = Buffers(j)
  <2>1. buf'[i] = r.buf /\ \A k \in Slots : k # i => buf'[k] = buf[k]
    BY <1>2, <1>3, <1>9, <1>10
  <2>2. Buffers(id) = {buf[i]} /\ Buffers(id)' = {r.buf}
    BY <1>2, <1>3, <2>1 DEF Buffers
  <2>3. \A j \in Ids : j # id => Buffers(j)' = Buffers(j)
    BY <1>2, <1>3, <2>1 DEF Buffers
  <2>. QED  BY <2>2, <2>3
<1>17. HandedOn(stream[id] \o m.bytes, Bodies(id) \o BodiesOf(r.notes), {r.buf})
  <2>1. stream[id] \in Seq(Int) /\ Bodies(id) \in Seq(Seq(Int)) /\ BodiesOf(r.notes) \in Seq(Seq(Int))
        /\ r.big \in BOOLEAN
    BY <1>7, <1>9, <1>10, <1>12, <1>13, BodiesType
  <2>2. HandedOn(stream[id], Bodies(id), {buf[i]})
    BY <1>16 DEF FrameInv
  <2>. QED  BY <1>4, <1>5, <1>8, <2>1, <2>2, ChunkHanded
<1>18. \A j \in Ids : HandedOn(stream'[j], Bodies(j)', Buffers(j)')
  <2>1. HandedOn(stream'[id], Bodies(id)', Buffers(id)')
    BY <1>14, <1>15, <1>16, <1>17, Zenon
  <2>2. ASSUME NEW j \in Ids, j # id
        PROVE  HandedOn(stream'[j], Bodies(j)', Buffers(j)')
    <3>1. HandedOn(stream[j], Bodies(j), Buffers(j))
      BY DEF FrameInv
    <3>. QED  BY <1>13, <1>15, <1>16, <2>2, <3>1, Zenon
  <2>. QED  BY <2>1, <2>2
<1>19. \A j \in Ids : Unheard(j)' => stream'[j] = <<>>
  <2>1. \A j \in Ids : Unheard(j)' => Unheard(j)
    BY <1>1 DEF Unheard
  <2>2. ~Unheard(id)
    BY <1>2, HeldKnown DEF Unheard
  <2>. QED  BY <1>15, <2>1, <2>2 DEF FrameInv
<1>. QED  BY <1>15, <1>18, <1>19 DEF FrameInv

-----------------------------------------------------------------------------
(* The steps that receive nothing.                                          *)

\* Notes that are no frames leave the bodies alone.
LEMMA TellsNoFrame ==
    ASSUME log \in [Ids -> Seq(NoteType)], NEW id \in Ids, NEW e \in NoteType, e.what # "data",
           Tell(id, e)
    PROVE  \A j \in Ids : Bodies(j)' = Bodies(j)
<1>1. PICK l \in Seq(NoteType) : l = log[id]
  OBVIOUS
<1>2. log'[id] = l \o <<e>> /\ \A j \in Ids : j # id => log'[j] = log[j]
  <2>1. log'[id] = Append(l, e) /\ \A j \in Ids : j # id => log'[j] = log[j]
    BY <1>1 DEF Tell
  <2>2. Append(l, e) = l \o <<e>>
    OBVIOUS
  <2>. QED  BY <2>1, <2>2, Zenon
<1>3. <<e>> \in Seq(NoteType)
  OBVIOUS
<1>4. BodiesOf(l \o <<e>>) = BodiesOf(l) \o BodiesOf(<<e>>)
  BY <1>3, BodiesConcat
<1>5. BodiesOf(<<e>>) = <<>> /\ BodiesOf(l) \in Seq(Seq(Int))
  BY BodiesOfOne, BodiesType
<1>6. BodiesOf(l) \o <<>> = BodiesOf(l)
  BY <1>5, NothingMore
<1>7. BodiesOf(l \o <<e>>) = BodiesOf(l)
  BY <1>4, <1>5, <1>6, Zenon
<1>. QED  BY <1>1, <1>2, <1>7, Zenon DEF Bodies

LEMMA StepTells ==
    ASSUME OrderInv, Next, ~OnData
    PROVE  \A j \in Ids : Bodies(j)' = Bodies(j)
<1>t. log \in [Ids -> Seq(NoteType)]
  BY DEF OrderInv, LogInv, HistoryTypes
<1>1. CASE UNCHANGED log
  BY <1>1 DEF Bodies
<1>2. CASE OnConnect
  <2>0. PICK id \in Ids : id = Head(mail).id
    BY <1>2, FirstEvent DEF OnConnect
  <2> DEFINE n == [what |-> "connected", to |-> conn[Lookup(id)].agent]
  <2>1. UNCHANGED log \/ (Lookup(id) # Nil /\ Tell(id, n))
    BY <1>2, <2>0 DEF OnConnect
  <2>2. ASSUME Lookup(id) # Nil  PROVE n \in NoteType /\ n.what # "data"
    <3>1. Lookup(id) \in Slots
      BY <2>2, LookupHeld DEF OrderInv
    <3>2. conn[Lookup(id)].agent \in Handles \cup {0}
      BY <3>1 DEF OrderInv, GateInv, TypeOK, ConnType
    <3>3. Handles \cup {0} \subseteq Nat
      BY HandlesAssumption
    <3>4. conn[Lookup(id)].agent \in Nat
      BY <3>2, <3>3, Zenon
    <3>. QED  BY <3>4 DEF NoteType
  <2> HIDE DEF n
  <2>. QED  BY <1>t, <1>1, <2>1, <2>2, TellsNoFrame
<1>3. CASE OnClose \/ OnAccept
  <2>1. UNCHANGED log \/ \E id \in Ids, w \in {"close", "accept"} :
                           Tell(id, [what |-> w, to |-> Watchdog])
    <3>1. CASE OnClose
      <4>1. Head(mail).id \in Ids
        BY <3>1, FirstEvent DEF OnClose
      <4>. QED  BY <3>1, <4>1 DEF OnClose, Forget, Report
    <3>2. CASE OnAccept
      <4>1. Head(mail).ud \in Ids
        BY <3>2, FirstEvent DEF OnAccept
      <4>. QED  BY <3>2, <4>1 DEF OnAccept, Report
    <3>. QED  BY <1>3, <3>1, <3>2
  <2>2. ASSUME NEW id \in Ids, NEW w \in {"close", "accept"},
               Tell(id, [what |-> w, to |-> Watchdog])
        PROVE  \A j \in Ids : Bodies(j)' = Bodies(j)
    <3> DEFINE n == [what |-> w, to |-> Watchdog]
    <3>1. n \in NoteType /\ n.what # "data" /\ Tell(id, n)
      BY <2>2, HandlesAssumption DEF NoteType
    <3> HIDE DEF n
    <3>. QED  BY <1>t, <3>1, TellsNoFrame
  <2>. QED  BY <1>1, <2>1, <2>2
<1>4. CASE ~(OnData \/ OnConnect \/ OnClose \/ OnAccept)
  <2>1. UNCHANGED log
    BY <1>4
    DEF Next, SockStep, SockStart, SockClose, SockSend, Peer, NewPeer, PeerSends, PeerCloses,
        Dialled, SockUnchanged, histVars, GateStep, TextCommand, Kick, Start, ClientMessage,
        Forward, Broker, Connect, CloseListen, Listen, gate_init, gate_release
  <2>. QED  BY <1>1, <2>1
<1>. QED  BY <1>2, <1>3, <1>4

\* A socket that was heard of stays so.
LEMMA StepHears ==
    ASSUME OrderInv, Next
    PROVE  \A j \in Ids : Unheard(j)' => Unheard(j)
<1>s. sock \in [Ids -> SockStates]
  BY DEF OrderInv, GateInv, TypeOK
<1>1. ASSUME \A j \in Ids : sock'[j] = "none" => sock[j] = "none",
             \A e \in Range(mail') : e.type = "accept" =>
                e \in Range(mail) \/ sock[e.ud] = "none"
      PROVE  \A j \in Ids : Unheard(j)' => Unheard(j)
  BY <1>1 DEF Unheard
<1>2. ASSUME NEW id \in Ids, NEW x, x # "none", Become(id, x)
      PROVE  \A j \in Ids : sock'[j] = "none" => sock[j] = "none"
  BY <1>s, <1>2 DEF Become
<1>3. ASSUME NEW id \in Ids, NetEffect(id)  PROVE \A j \in Ids : Unheard(j)' => Unheard(j)
  <2>1. MailGains(id) /\ GateInv
    BY <1>3 DEF NetEffect, OrderInv
  <2>2. \A e \in Range(mail') : e.type = "accept" => e \in Range(mail)
    BY <2>1, NetMail
  <2>3. \A j \in Ids : sock'[j] = "none" => sock[j] = "none"
    BY <1>3 DEF NetEffect
  <2>. QED  BY <1>1, <2>2, <2>3
<1>4. CASE status # "assert" /\ SockStep
  BY <1>3, <1>4, SockStartEffect, SockCloseEffect, SockSendEffect DEF SockStep
<1>5. ASSUME NEW lid \in Ids, NEW id \in Ids, NewPeer(lid, id)
      PROVE  \A j \in Ids : Unheard(j)' => Unheard(j)
  <2>1. PICK e : e = [type |-> "accept", id |-> lid, ud |-> id]
    OBVIOUS
  <2>2. e \in EventType /\ e.ud = id
    BY <2>1 DEF EventType
  <2>3. sock[id] = "none" /\ Become(id, "accepted") /\ Post(e)
    BY <1>5, <2>1 DEF NewPeer, Fresh
  <2>4. \A y \in Range(mail') : y \in Range(mail) \/ y = e
    <3>1. mail \in Seq(EventType)
      BY DEF OrderInv, GateInv, TypeOK
    <3>. QED  BY <2>2, <2>3, <3>1, RangeAppend DEF Post
  <2>5. \A j \in Ids : sock'[j] = "none" => sock[j] = "none"
    BY <1>2, <2>3
  <2>. QED  BY <1>1, <2>2, <2>3, <2>4, <2>5
<1>6. CASE status # "assert" /\ Peer
  BY <1>3, <1>5, <1>6, PeerSendsEffect, PeerClosesEffect DEF Peer
<1>7. CASE status # "assert" /\ \E id \in Ids : Dialled(id)
  BY <1>3, <1>7, DialledEffect
<1>8. CASE GateStep
  <2>1. \E t : Handle(t)
    BY <1>8 DEF GateStep, OnData, OnConnect, OnClose, OnAccept
  <2>2. UNCHANGED sock /\ Range(mail') \subseteq Range(mail)
    BY <2>1, FirstEvent
  <2>. QED  BY <1>1, <2>2
<1>9. CASE TextCommand \/ \E parm \in BindParms : gate_init(parm)
  <2>1. UNCHANGED mail
    BY <1>9 DEF TextCommand, Kick, Start, ClientMessage, Forward, Broker, Connect, CloseListen,
                Listen, Command, gate_init
  <2>2. UNCHANGED sock \/ \E id \in Ids, x \in {"bound", "connecting"} : Become(id, x)
    BY <1>9 DEF TextCommand, Kick, Start, ClientMessage, Forward, Broker, Connect, CloseListen,
                Listen, gate_init, start_listen
  <2>3. \A j \in Ids : sock'[j] = "none" => sock[j] = "none"
    BY <1>2, <2>2
  <2>. QED  BY <1>1, <2>1, <2>3
<1>10. CASE gate_release
  <2>1. UNCHANGED sock /\ mail' = <<>>
    BY <1>10 DEF gate_release
  <2>. QED  BY <1>1, <2>1, RangeEmpty
<1>. QED  BY <1>4, <1>6, <1>7, <1>8, <1>9, <1>10 DEF Next

\* A buffer belongs to the socket it had, or to a new one and is blank.
LEMMA StepBuffers ==
    ASSUME OrderInv, Next, ~OnData
    PROVE  /\ stream' = stream
           /\ \A j \in Ids : \/ Buffers(j)' \subseteq Buffers(j)
                             \/ Unheard(j) /\ Buffers(j)' \subseteq {BlankFrame}
<1>0. stream' = stream
  BY DEF Next, SockStep, SockStart, SockClose, SockSend, Peer, NewPeer, PeerSends, PeerCloses,
         Dialled, SockUnchanged, histVars, GateStep, OnConnect, OnClose, OnAccept, TextCommand,
         Kick, Start, ClientMessage, Forward, Broker, Connect, CloseListen, Listen, Command,
         gate_init, gate_release
<1>1. CASE UNCHANGED <<slot, buf>>
  <2>1. \A j \in Ids : Buffers(j)' = Buffers(j)
    BY <1>1 DEF Buffers
  <2>. QED  BY <1>0, <2>1
<1>2. ASSUME NEW id \in Ids, ~Full, InsertId(id), Unheard(id), UNCHANGED buf
      PROVE  \A j \in Ids : \/ Buffers(j)' \subseteq Buffers(j)
                            \/ Unheard(j) /\ Buffers(j)' \subseteq {BlankFrame}
  <2>1. ~Held(id)
    BY <1>2, HeldKnown DEF Unheard
  <2>2. PICK c : c = FirstFree(id)
    OBVIOUS
  <2>3. /\ c \in Slots /\ \A s \in Slots : slot'[s] = IF s = c THEN id ELSE slot[s]
        /\ buf[c] = BlankFrame
    BY <1>2, <2>1, <2>2, InsertEffect DEF OrderInv, Held
  <2>4. \A s \in Slots : slot[s] # id
    BY <2>1 DEF Held
  <2>5. Buffers(id)' \subseteq {BlankFrame}
    BY <1>2, <2>3, <2>4 DEF Buffers
  <2>6. \A j \in Ids : j # id => Buffers(j)' \subseteq Buffers(j)
    BY <1>2, <2>3 DEF Buffers
  <2>. QED  BY <1>2, <2>5, <2>6
<1>3. CASE OnClose
  <2>0. PICK id \in Ids : id = Head(mail).id
    BY <1>3, FirstEvent DEF OnClose
  <2>1. RemoveId(id) /\ Forget(id)
    BY <1>3, <2>0 DEF OnClose
  <2>2. CASE Lookup(id) = Nil
    <3>1. UNCHANGED <<slot, buf>>
      BY <2>1, <2>2 DEF RemoveId, Forget, tableVars
    <3>. QED  BY <1>1, <3>1
  <2>3. CASE Lookup(id) # Nil
    <3>1. PICK i : i = Lookup(id)
      OBVIOUS
    <3>2. i \in Slots /\ slot' = [slot EXCEPT ![i] = Nil] /\ buf' = [buf EXCEPT ![i] = BlankFrame]
      BY <2>1, <2>3, <3>1, LookupHeld DEF RemoveId, Forget, OrderInv
    <3>3. slot \in [Slots -> Ids \cup {Nil}] /\ buf \in [Slots -> FrameType]
      BY DEF OrderInv, GateInv, TypeOK, TableTypeOK, LogInv, HistoryTypes
    <3>4. slot'[i] = Nil /\ \A s \in Slots : s # i => slot'[s] = slot[s] /\ buf'[s] = buf[s]
      BY <3>2, <3>3
    <3>5. \A j \in Ids : j # Nil
      BY IdsAssumption DEF Nil
    <3>6. \A j \in Ids : Buffers(j)' \subseteq Buffers(j)
      BY <3>2, <3>4, <3>5 DEF Buffers
    <3>. QED  BY <1>0, <3>6
  <2>. QED  BY <2>2, <2>3
<1>4. CASE OnAccept
  <2>0. PICK id \in Ids : id = Head(mail).ud
    BY <1>4, FirstEvent DEF OnAccept
  <2>1. Unheard(id)
    BY <1>4, <2>0, FirstEvent DEF OnAccept, Unheard
  <2>2. UNCHANGED buf /\ (UNCHANGED slot \/ (~Full /\ InsertId(id)))
    BY <1>4, <2>0 DEF OnAccept, tableVars
  <2>. QED  BY <1>0, <1>1, <1>2, <2>1, <2>2
<1>5. ASSUME NEW source \in Handles, NEW id \in Ids, Connect(source, id)
      PROVE  \A j \in Ids : \/ Buffers(j)' \subseteq Buffers(j)
                            \/ Unheard(j) /\ Buffers(j)' \subseteq {BlankFrame}
  <2>1. ~Full /\ InsertId(id) /\ Unheard(id) /\ UNCHANGED buf
    BY <1>5 DEF Connect, Command, Fresh, Unheard
  <2>. QED  BY <1>2, <2>1
<1>6. CASE gate_release
  <2>1. \A s \in Slots : slot'[s] = Nil
    BY <1>6 DEF gate_release, ClearIds, EmptyTable
  <2>2. \A j \in Ids : j # Nil
    BY IdsAssumption DEF Nil
  <2>3. \A j \in Ids : Buffers(j)' = {}
    BY <2>1, <2>2 DEF Buffers
  <2>. QED  BY <1>0, <2>3
<1>7. CASE ~(OnClose \/ OnAccept \/ gate_release
              \/ \E source \in Handles, id \in Ids : Connect(source, id))
  <2>1. UNCHANGED <<slot, buf>>
    BY <1>7
    DEF Next, SockStep, SockStart, SockClose, SockSend, Peer, NewPeer, PeerSends, PeerCloses,
        Dialled, SockUnchanged, tableVars, gateVars, GateStep, OnConnect, TextCommand,
        Kick, Start, ClientMessage, Forward, Broker, CloseListen, Listen, Command, gate_init
  <2>. QED  BY <1>1, <2>1
<1>. QED  BY <1>0, <1>3, <1>4, <1>5, <1>6, <1>7

LEMMA StepHands ==
    ASSUME OrderInv, FrameInv, Next, ~OnData
    PROVE  FrameInv'
<1>1. stream' = stream /\ stream \in [Ids -> Seq(Int)]
  BY StepBuffers DEF FrameInv
<1>2. ASSUME NEW j \in Ids
      PROVE  HandedOn(stream'[j], Bodies(j)', Buffers(j)')
  <2>1. Bodies(j)' = Bodies(j)
    BY StepTells
  <2>2. HandedOn(stream[j], Bodies(j), Buffers(j))
    BY DEF FrameInv
  <2>3. CASE Buffers(j)' \subseteq Buffers(j)
    <3>1. HandedOn(stream[j], Bodies(j), Buffers(j)')
      BY <2>2, <2>3, FewerBuffers
    <3>. QED  BY <1>1, <2>1, <3>1, Zenon
  <2>4. CASE Unheard(j) /\ Buffers(j)' \subseteq {BlankFrame}
    <3>1. stream[j] = <<>>
      BY <2>4 DEF FrameInv
    <3>2. Bodies(j) = <<>>
      <4>1. log[j] = <<>>
        BY <2>4 DEF OrderInv, LogInv, NothingEarly
      <4>. QED  BY <4>1, BodiesOfNone DEF Bodies
    <3>3. HandedOn(<<>>, <<>>, Buffers(j)')
      BY <2>4, NothingYet, FewerBuffers
    <3>. QED  BY <1>1, <2>1, <3>1, <3>2, <3>3, Zenon
  <2>. QED  BY <2>3, <2>4, StepBuffers
<1>3. \A j \in Ids : Unheard(j)' => stream'[j] = <<>>
  BY <1>1, StepHears DEF FrameInv
<1>. QED  BY <1>1, <1>2, <1>3 DEF FrameInv

LEMMA InitialFrames == Init => FrameInv
<1> SUFFICES ASSUME Init  PROVE FrameInv
  OBVIOUS
<1>1. /\ stream = [id \in Ids |-> <<>>] /\ log = [id \in Ids |-> <<>>]
      /\ buf = [i \in Slots |-> BlankFrame]
  BY DEF Init
<1>2. stream \in [Ids -> Seq(Int)]
  BY <1>1, EmptyInSeq
<1>3. ASSUME NEW j \in Ids  PROVE HandedOn(stream[j], Bodies(j), Buffers(j))
  <2>1. Bodies(j) = <<>>
    BY <1>1, BodiesOfNone DEF Bodies
  <2>2. Buffers(j) \subseteq {BlankFrame}
    BY <1>1 DEF Buffers
  <2>3. HandedOn(<<>>, <<>>, Buffers(j))
    BY <2>2, NothingYet, FewerBuffers
  <2>4. stream[j] = <<>>
    BY <1>1
  <2>. QED  BY <2>1, <2>3, <2>4, Zenon
<1>. QED  BY <1>1, <1>2, <1>3 DEF FrameInv

LEMMA NextKeepsFrames ==
    ASSUME Watchdog # 0, OrderInv, FrameInv, [Next]_vars
    PROVE  FrameInv'
<1>1. CASE Next
  BY <1>1, OnDataHands, StepHands
<1>2. CASE UNCHANGED vars
  <2>1. UNCHANGED <<stream, log, slot, buf, sock, mail>>
    BY <1>2 DEF vars, tableVars, gateVars, netVars, histVars
  <2>2. \A j \in Ids : Bodies(j)' = Bodies(j) /\ Buffers(j)' = Buffers(j) /\ (Unheard(j)' => Unheard(j))
    BY <2>1 DEF Bodies, Buffers, Unheard
  <2>. QED  BY <2>1, <2>2 DEF FrameInv
<1>. QED  BY <1>1, <1>2

-----------------------------------------------------------------------------
(* What the invariant says of the frames.                                   *)

\* bs comes first in b.
LEMMA ComesFirst ==
    ASSUME NEW bs, NEW u, bs \in Seq(Seq(Int)), u \in Seq(Seq(Int))
    PROVE  IsPrefix(bs, bs \o u) /\ Take(bs \o u, Len(bs)) = bs
<1>1. PICK X : X = Seq(Int)
  OBVIOUS
<1>2. bs \in Seq(X) /\ u \in Seq(X)
  BY <1>1, Zenon
<1>3. /\ Len(bs) \in Nat /\ Len(bs) <= Len(bs \o u)
      /\ \A k \in 1 .. Len(bs) : (bs \o u)[k] = bs[k]
  BY ONLY <1>2
<1>4. SubSeq(bs \o u, 1, Len(bs)) = bs
  BY ONLY <1>2, <1>3
<1>5. SubSeq(bs, 1, Len(bs)) = bs
  BY ONLY <1>2
<1>. QED  BY ONLY <1>3, <1>4, <1>5 DEF IsPrefix, Take

LEMMA CaughtUpIntact ==
    ASSUME NEW s \in Seq(Int), NEW n, NEW bs, CaughtUp(s, n, bs)
    PROVE  Frames(s) = bs /\ Acceptable(s) = bs /\ IsPrefix(bs, bs)
<1>1. n \in Nat /\ bs \in Seq(Seq(Int))
  BY CutType DEF CaughtUp
<1>2. Frames(s) = bs
  <2>1. ParseFrom(s, n) = <<>>
    BY <1>1, ParseUnfolds DEF CaughtUp
  <2>2. Frames(s) = bs \o ParseFrom(s, n)
    BY CutFrames DEF CaughtUp
  <2>. QED  BY <1>1, <2>1, <2>2, NothingMore, Zenon
<1>3. {k \in 1 .. Len(bs) : Len(bs[k]) >= BigFrame} = {}
  <2>1. \A k \in 1 .. Len(bs) : Len(bs[k]) < BigFrame /\ Len(bs[k]) \in Nat
    <3>1. \A k \in 1 .. Len(bs) : bs[k] \in Seq(Int)
      BY <1>1
    <3>2. \A x \in Seq(Int) : Len(x) \in Nat
      OBVIOUS
    <3>. QED  BY <3>1, <3>2, Zenon DEF CaughtUp, Small
  <2>2. \A x \in Nat : ~(x < BigFrame /\ x >= BigFrame)
    BY BigFrameAssumption
  <2>. QED  BY <2>1, <2>2, Zenon
<1>4. Acceptable(s) = bs
  BY <1>2, <1>3, Zenon DEF Acceptable
<1>5. IsPrefix(bs, bs)
  <2>1. <<>> \in Seq(Seq(Int)) /\ bs \o <<>> = bs
    BY <1>1, NothingMore, EmptyInSeq
  <2>2. IsPrefix(bs, bs \o <<>>)
    BY <1>1, <2>1, ComesFirst
  <2>. QED  BY <2>1, <2>2, Zenon
<1>. QED  BY <1>2, <1>4, <1>5

LEMMA StoppedIntact ==
    ASSUME NEW s \in Seq(Int), NEW n, NEW bs, StoppedAt(s, n, bs)
    PROVE  Acceptable(s) = bs /\ Frames(s) # bs
<1>1. n \in Nat /\ n + HeaderSize <= Len(s) /\ bs \in Seq(Seq(Int)) /\ HeaderSize \in Nat \ {0}
  BY CutType, HeaderSizeAssumption DEF StoppedAt, Whole
<1>2. PICK h \in Int : h = HeaderAt(s, n)
  BY <1>1, FrameAt
<1>3. h >= BigFrame /\ h # 0 /\ h >= 0 /\ n + HeaderSize + h <= Len(s)
  BY <1>2 DEF StoppedAt, Whole
<1>4. PICK b : b = SubSeq(s, n + HeaderSize + 1, n + HeaderSize + h)
  OBVIOUS
<1>5. b \in Seq(Int) /\ Len(b) = h
  <2>1. SubSeq(s, n + HeaderSize + 1, n + HeaderSize + h) \in Seq(Int)
        /\ Len(SubSeq(s, n + HeaderSize + 1, n + HeaderSize + h)) = h
    BY <1>1, <1>3
  <2>. QED  BY <1>4, <2>1, Zenon
<1>6. BodyAt(s, n) = <<b>>
  BY <1>2, <1>3, <1>4 DEF BodyAt
<1>7. PICK q \in Seq(Seq(Int)) : q = ParseFrom(s, NextAt(s, n))
  <2>1. NextAt(s, n) \in Nat
    BY <1>1, FrameAt DEF StoppedAt
  <2>. QED  BY <2>1, ParseUnfolds
<1>8. Frames(s) = bs \o (<<b>> \o q)
  <2>1. ParseFrom(s, n) = <<b>> \o q
    BY <1>1, <1>6, <1>7, ParseUnfolds DEF StoppedAt
  <2>2. Frames(s) = bs \o ParseFrom(s, n)
    BY CutFrames DEF StoppedAt
  <2>. QED  BY <2>1, <2>2, Zenon
<1>9. PICK X : X = Seq(Int)
  OBVIOUS
<1>10. bs \in Seq(X) /\ b \in X /\ q \in Seq(X)
  BY <1>1, <1>5, <1>9, Zenon
<1>11. PICK u : u = <<b>> \o q
  OBVIOUS
<1>12. u \in Seq(X) /\ Len(u) >= 1 /\ Len(u) \in Nat /\ u[1] = b
  <2>1. <<b>> \o q \in Seq(X) /\ Len(<<b>> \o q) >= 1 /\ Len(<<b>> \o q) \in Nat /\ (<<b>> \o q)[1] = b
    BY ONLY <1>10
  <2>. QED  BY <1>11, <2>1, Zenon
<1>13. PICK fs : fs = bs \o u
  OBVIOUS
<1>14. /\ Len(bs) \in Nat /\ Len(fs) = Len(bs) + Len(u)
       /\ \A k \in 1 .. Len(bs) : fs[k] = bs[k]
       /\ \A k \in 1 .. Len(u) : fs[Len(bs) + k] = u[k]
  <2>1. /\ Len(bs) \in Nat /\ Len(bs \o u) = Len(bs) + Len(u)
        /\ \A k \in 1 .. Len(bs) : (bs \o u)[k] = bs[k]
        /\ \A k \in 1 .. Len(u) : (bs \o u)[Len(bs) + k] = u[k]
    BY ONLY <1>10, <1>12
  <2>. QED  BY <1>13, <2>1, Zenon
<1>15. Frames(s) = fs
  BY <1>8, <1>11, <1>13, Zenon
<1>16. fs # bs
  BY ONLY <1>12, <1>14
<1> DEFINE big == {k \in 1 .. Len(fs) : Len(fs[k]) >= BigFrame}
<1>17. Len(bs) + 1 \in big
  <2>1. Len(bs) + 1 \in 1 .. Len(fs) /\ 1 \in 1 .. Len(u)
    BY ONLY <1>12, <1>14
  <2>2. fs[Len(bs) + 1] = b
    BY <1>12, <1>14, <2>1, Zenon
  <2>. QED  BY <1>3, <1>5, <2>1, <2>2
<1>18. ASSUME NEW k \in big  PROVE Len(bs) + 1 <= k
  <2>1. SUFFICES ASSUME ~(Len(bs) + 1 <= k)  PROVE FALSE
    OBVIOUS
  <2>2. k \in 1 .. Len(bs) /\ Len(fs[k]) >= BigFrame
    <3>1. k \in Int /\ k >= 1
      BY <1>12, <1>14
    <3>. QED  BY ONLY <1>14, <1>18, <2>1, <3>1
  <2>3. Len(bs[k]) < BigFrame /\ fs[k] = bs[k]
    BY <1>14, <2>2, Zenon DEF StoppedAt, Small
  <2>4. bs[k] \in Seq(Int)
    BY <1>1, <2>2
  <2>5. PICK x \in Seq(Int) : x = bs[k]
    BY <2>4, Zenon
  <2>6. Len(x) \in Nat /\ Len(x) < BigFrame /\ Len(x) >= BigFrame
    <3>1. Len(x) \in Nat
      OBVIOUS
    <3>. QED  BY <2>2, <2>3, <2>5, <3>1, Zenon
  <2>. QED  BY ONLY <2>6, BigFrameAssumption
<1>19. PICK first : first = (CHOOSE k \in big : \A j \in big : k <= j)
  OBVIOUS
<1>20. first = Len(bs) + 1
  <2>1. \A k \in big : k \in Int
    BY <1>12, <1>14
  <2> HIDE DEF big
  <2>2. first \in big /\ \A j \in big : first <= j
    BY <1>17, <1>18, <1>19, Zenon
  <2>3. first <= Len(bs) + 1 /\ Len(bs) + 1 <= first /\ first \in Int
    BY <1>17, <1>18, <2>1, <2>2
  <2>. QED  BY ONLY <1>14, <2>3
<1>21. Take(fs, first - 1) = bs
  <2>1. first - 1 = Len(bs)
    BY ONLY <1>14, <1>20
  <2>2. u \in Seq(Seq(Int))
    BY <1>9, <1>12, Zenon
  <2>3. Take(bs \o u, Len(bs)) = bs
    BY <1>1, <2>2, ComesFirst, Zenon
  <2>. QED  BY <1>13, <2>1, <2>3, Zenon
<1>22. big # {}
  BY <1>17
<1>23. Acceptable(s) = bs
  BY <1>15, <1>19, <1>21, <1>22, Zenon DEF Acceptable
<1>. QED  BY <1>15, <1>16, <1>23, Zenon

(* With a watchdog, the frames handed on are those of the client's byte     *)
(* stream, complete and in order, however the stream was cut and whoever    *)
(* received them, up to a frame that is too long.  Without one, _forward    *)
(* leaves a body in the buffer when there is no receiver.                   *)
THEOREM GateFramesIntact ==
    ASSUME Watchdog # 0
    PROVE  Spec => []FramesIntact
<1>1. Init => FrameInv
  BY InitialFrames
<1>2. OrderInv /\ FrameInv /\ [Next]_vars => FrameInv'
  BY NextKeepsFrames
<1>3. FrameInv => FramesIntact
  <2> SUFFICES ASSUME FrameInv, NEW id \in Ids
               PROVE  /\ IsPrefix(Acceptable(stream[id]), Bodies(id))
                      /\ Acceptable(stream[id]) = Frames(stream[id])
                           => Bodies(id) = Frames(stream[id])
    BY DEF FramesIntact
  <2>1. PICK s \in Seq(Int) : s = stream[id]
    BY DEF FrameInv
  <2>2. HandedOn(s, Bodies(id), Buffers(id))
    BY <2>1 DEF FrameInv
  <2>3. ASSUME NEW n, NEW bs, NEW u \in Seq(Seq(Int)), StoppedAt(s, n, bs), Bodies(id) = bs \o u
        PROVE  IsPrefix(Acceptable(s), Bodies(id)) /\ Acceptable(s) # Frames(s)
    <3>1. bs \in Seq(Seq(Int))
      BY <2>3, CutType DEF StoppedAt
    <3>2. IsPrefix(bs, bs \o u)
      BY <3>1, ComesFirst, Zenon
    <3>3. Acceptable(s) = bs /\ Frames(s) # bs
      BY <2>3, StoppedIntact
    <3>. QED  BY <2>3, <3>2, <3>3, Zenon
  <2>4. ASSUME NEW n, NEW bs, CaughtUp(s, n, bs), Bodies(id) = bs
        PROVE  IsPrefix(Acceptable(s), Bodies(id)) /\ Bodies(id) = Frames(s)
    BY <2>4, CaughtUpIntact
  <2>. QED  BY <2>1, <2>2, <2>3, <2>4, Zenon DEF HandedOn
<1>. QED  BY <1>1, <1>2, <1>3, GateOrdered, PTL DEF Spec
=============================================================================
