------------------------------ MODULE IdTable ------------------------------
(***************************************************************************)
(* What the gate's socket-id table (gate/hashid.h) promises its caller: a  *)
(* fixed array of Cap slots, each empty or holding one socket id.  The     *)
(* bucket chains are left out; module HashId has them and is shown to      *)
(* implement this module.  Module Gate extends this one.                   *)
(***************************************************************************)
EXTENDS Integers, FiniteSets

CONSTANTS
    Cap,    \* hi->cap, the max_online of the configuration
    Ids     \* the socket ids the socket server hands out

ASSUME CapAssumption == Cap \in Nat \ {0}
ASSUME IdsAssumption == Ids \subseteq Nat

VARIABLES
    slot,   \* slot[i] is hi->id[i].id
    count   \* hi->count

tableVars == <<slot, count>>

Nil   == -1
Slots == 0 .. Cap - 1

EmptyTable == [i \in Slots |-> Nil]

TableInit ==
    /\ slot  = EmptyTable
    /\ count = 0

\* The ids now in the table, and the slots that hold one.
UsedSlots == {i \in Slots : slot[i] # Nil}
LiveIds   == {slot[i] : i \in UsedSlots}

\* hashid_lookup: the slot of id, or -1.
Lookup(id) ==
    IF \E i \in UsedSlots : slot[i] = id
    THEN CHOOSE i \in UsedSlots : slot[i] = id
    ELSE Nil

Full == count = Cap

\* The insertion loop probes id % Cap, id % Cap + 1, ... for an empty slot.
Probe(id, i) == (i + id) % Cap
FreeProbes(id) == {i \in Slots : slot[Probe(id, i)] = Nil}

FirstProbe(id) == Probe(id, 0)      \* slip: no probing

FirstFree(id) ==
    Probe(id, CHOOSE i \in FreeProbes(id) : \A j \in FreeProbes(id) : i <= j)

InsertId(id) ==
    /\ FreeProbes(id) # {}
    /\ slot'  = [slot EXCEPT ![FirstFree(id)] = id]
    /\ count' = count + 1

\* The slot that RemoveId(id) empties is Lookup(id) before the step.
RemoveId(id) ==
    IF Lookup(id) = Nil
    THEN UNCHANGED tableVars
    ELSE /\ slot'  = [slot EXCEPT ![Lookup(id)] = Nil]
         /\ count' = count - 1

ClearIds ==
    /\ slot'  = EmptyTable
    /\ count' = 0

\* The caller checks hashid_full first, and socket ids are unique while open.
TableNext ==
    \/ \E id \in Ids : ~Full /\ Lookup(id) = Nil /\ InsertId(id)
    \/ \E id \in Ids : RemoveId(id)
    \/ ClearIds

TableSpec == TableInit /\ [][TableNext]_tableVars

-----------------------------------------------------------------------------

TableTypeOK ==
    /\ slot  \in [Slots -> Ids \cup {Nil}]
    /\ count \in 0 .. Cap

(* hi->count is exactly the number of slots in use.  hashid_full tests the *)
(* counter, the insertion loop tests the slots; when they disagree the     *)
(* loop finds no slot and assert(c) stops the process.                     *)
CountExact == count = Cardinality(UsedSlots)

(* No socket id is in two slots: a second copy would survive the removal   *)
(* of the first and route a dead connection's traffic.                     *)
IdsUnique ==
    \A i, j \in UsedSlots : slot[i] = slot[j] => i = j

TableInv == TableTypeOK /\ CountExact /\ IdsUnique
=============================================================================
