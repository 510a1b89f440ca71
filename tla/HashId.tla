------------------------------- MODULE HashId -------------------------------
(***************************************************************************)
(* gate/hashid.h with its pointers: an array of nodes, bucket heads and    *)
(* next links.  A failed assertion, or a read outside the node array, ends *)
(* the run in the status that names it.                                    *)
(***************************************************************************)
EXTENDS Integers, FiniteSets

CONSTANTS
    Cap,        \* max passed to hashid_init
    Ids,        \* socket ids the callers may insert; -1 is a failed connect
    IntMax      \* largest int (2^31 - 1 in the code)

ASSUME CapAssumption == Cap \in Nat \ {0}
ASSUME IntMaxAssumption == IntMax \in Nat /\ \A id \in Ids : id \in -1 .. IntMax

VARIABLES
    node,       \* hi->id: [id, next] for every slot; next is a slot or Nil
    hash,       \* hi->hash: head slot of every bucket, or Nil
    count,      \* hi->count
    status      \* "live", "freed", or how the process went wrong

vars == <<node, hash, count, status>>

Nil   == -1
Slots == 0 .. Cap - 1

\* hashcap: 16 doubled until it is at least max.
HashCap ==
    LET grow[h \in Nat] == IF h < Cap THEN grow[2 * h] ELSE h IN grow[16]

Bucket(id) == id % HashCap      \* id & hi->hashmod; -1 falls in the last one

BlankNode  == [id |-> Nil, next |-> Nil]
BlankNodes == [i \in Slots |-> BlankNode]
EmptyHash  == [h \in 0 .. HashCap - 1 |-> Nil]

Init ==
    /\ node   = BlankNodes
    /\ hash   = EmptyHash
    /\ count  = 0
    /\ status = "live"

\* The k-th node met when a bucket's chain is followed from its head.
Walk(h) ==
    LET at[k \in Nat] ==
          IF k = 0 THEN hash[h]
          ELSE IF at[k - 1] = Nil THEN Nil ELSE node[at[k - 1]].next
    IN  [k \in 0 .. Cap |-> at[k]]

\* Slip: only the head of the chain is examined.
HitsHeadOnly(id) ==
    {k \in {0} : hash[Bucket(id)] # Nil /\ node[hash[Bucket(id)]].id = id}

\* The steps of the walk that stand on a node holding id; first is the one
\* the loops of hashid_lookup and hashid_remove stop at.
Hits(id) == {k \in 0 .. Cap : LET c == Walk(Bucket(id))[k]
                              IN  c # Nil /\ node[c].id = id}
First(K) == CHOOSE k \in K : \A j \in K : k <= j

hashid_lookup(id) ==
    IF Hits(id) = {} THEN Nil ELSE Walk(Bucket(id))[First(Hits(id))]

\* Slip: off by one, the last slot taken twice.
FullOffByOne == count > Cap

hashid_full == count = Cap

\* C's truncated remainder, and int addition that wraps at IntMax.
CRem(a, b) == IF a < 0 THEN -((-a) % b) ELSE a % b
AddInt(a, b) == IF a + b > IntMax THEN a + b - 2 * (IntMax + 1) ELSE a + b
ProbeIndex(id, i) == CRem(AddInt(i, id), Cap)

\* Probes that end the search: an empty node, or a word outside the array
\* that happens to read as -1 (stray).
Stops(id, stray) ==
    {i \in Slots : IF ProbeIndex(id, i) \in Slots
                   THEN node[ProbeIndex(id, i)].id = Nil
                   ELSE stray}

Fail(s) == status' = s /\ UNCHANGED <<node, hash, count>>

\* Slip: the older nodes of the bucket are forgotten.
LinkDropTail(c, id) ==
    /\ node'  = [node EXCEPT ![c] = [id |-> id, next |-> Nil]]
    /\ hash'  = [hash EXCEPT ![Bucket(id)] = c]
    /\ count' = count + 1
    /\ UNCHANGED status

Link(c, id) ==
    /\ node'  = [node EXCEPT ![c] = [id |-> id, next |-> hash[Bucket(id)]]]
    /\ hash'  = [hash EXCEPT ![Bucket(id)] = c]
    /\ count' = count + 1
    /\ UNCHANGED status

\* hashid_insert as service_gate.c calls it: after hashid_full, with an id
\* that is not in the table, or with the -1 of a connect that failed.
hashid_insert(id) ==
    /\ status = "live"
    /\ ~hashid_full
    /\ id = -1 \/ hashid_lookup(id) = Nil
    /\ \E stray \in BOOLEAN :
         IF Stops(id, stray) = {}
         THEN Fail("assert_c")
         ELSE LET c == ProbeIndex(id, First(Stops(id, stray))) IN
              IF c \notin Slots             THEN Fail("oob")
              ELSE IF node[c].next # Nil    THEN Fail("assert_next")
              ELSE Link(c, id)

\* Slip: the counter is not lowered.
RemoveKeepsCount(id) ==
    /\ status = "live"
    /\ Hits(id) = {0}
    /\ hash' = [hash EXCEPT ![Bucket(id)] = node[hash[Bucket(id)]].next]
    /\ node' = [node EXCEPT ![hash[Bucket(id)]] = BlankNode]
    /\ UNCHANGED <<count, status>>

\* The chain is re-linked around the node found, which is then blanked.
hashid_remove(id) ==
    /\ status = "live"
    /\ Hits(id) # {}                \* otherwise it returns -1 and changes nothing
    /\ LET w == Walk(Bucket(id))
           k == First(Hits(id))
       IN  IF k = 0
           THEN /\ hash' = [hash EXCEPT ![Bucket(id)] = node[w[0]].next]
                /\ node' = [node EXCEPT ![w[0]] = BlankNode]
           ELSE /\ node' = [node EXCEPT ![w[k - 1]].next = node[w[k]].next,
                                        ![w[k]] = BlankNode]
                /\ UNCHANGED hash
    /\ count' = count - 1
    /\ UNCHANGED status

hashid_clear ==
    /\ status = "live"
    /\ node'   = BlankNodes
    /\ hash'   = EmptyHash
    /\ count'  = 0
    /\ status' = "freed"

Next ==
    \/ \E id \in Ids : hashid_insert(id)
    \/ \E id \in Ids : hashid_remove(id)
    \/ hashid_clear

Spec == Init /\ [][Next]_vars

-----------------------------------------------------------------------------

TypeOK ==
    /\ node   \in [Slots -> [id : Ids \cup {Nil}, next : Slots \cup {Nil}]]
    /\ hash   \in [0 .. HashCap - 1 -> Slots \cup {Nil}]
    /\ count  \in 0 .. Cap
    /\ status \in {"live", "freed", "assert_c", "assert_next", "oob"}

(* Following a bucket's links from its head meets every node of that bucket *)
(* exactly once and then ends: nothing is lost behind an unlinked node, no  *)
(* node hangs in two chains, no chain is a cycle that a lookup never leaves.*)
ChainsExact ==
    /\ TypeOK
    /\ \A h \in DOMAIN hash :
         LET w    == Walk(h)
             seen == {k \in 0 .. Cap : w[k] # Nil}
         IN  /\ w[Cap] = Nil
             /\ {w[k] : k \in seen} =
                  {i \in Slots : node[i].id # Nil /\ Bucket(node[i].id) = h}
             /\ \A j, k \in seen : w[j] = w[k] => j = k

(* The two assertions of hashid_insert never fail and its probing never     *)
(* leaves the node array, in any order of insertions and removals a caller  *)
(* that tests hashid_full first can make.                                   *)
InsertSafe == status \in {"live", "freed"}

(* assert(c->next == NULL), hashid.h:105: the node chosen for a new id is   *)
(* never still linked into a chain.                                         *)
FreshNodeUnlinked == status # "assert_next"

(* The pointers implement the abstract table, slot for slot: the same id    *)
(* goes to the same slot, and a removal empties that slot only.             *)
Table == INSTANCE IdTable WITH slot <- [i \in Slots |-> node[i].id]
ImplementsTable == Table!TableSpec

(* Walking the chain finds the slot of every id in the table and of no      *)
(* other: what kick, start, forward and every socket event rely on.         *)
LookupAgrees == \A id \in Ids : hashid_lookup(id) = Table!Lookup(id)
=============================================================================
