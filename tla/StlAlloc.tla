------------------------------ MODULE StlAlloc ------------------------------
(***************************************************************************)
(* sgi_stl_learn/stl_alloc.h: the two-level allocator.  Requests of up to  *)
(* _MAX_BYTES come from free lists of objects of one size each, refilled   *)
(* from a pool that grows by malloc; larger ones go to malloc.             *)
(*                                                                         *)
(* The file is modelled as it reads, with the three misspelt names that    *)
(* keep it from compiling taken for what they stand for (result,           *)
(* _S_oom_alloc, __M_free_list_link).  malloc and the handler for the case *)
(* that it fails, declared and not defined here, are external.             *)
(***************************************************************************)
EXTENDS Integers, SequencesExt, FiniteSetsExt

CONSTANTS
    ALIGN,          \* _ALIGN
    MAX_BYTES,      \* _MAX_BYTES
    NOBJS,          \* objects asked for by a refill: 20
    HeapPart,       \* a request grows by this part of _S_heap_size: 16
    Sizes,          \* sizes, in bytes, that clients ask for
    MaxMemory,      \* bound: what malloc can give
    MaxLive         \* bound: blocks that clients hold

ASSUME SizesAssumption ==
    /\ ALIGN \in Nat \ {0} /\ MAX_BYTES \in Nat /\ MAX_BYTES % ALIGN = 0
    /\ NOBJS \in Nat \ {0} /\ HeapPart \in Nat \ {0} /\ Sizes \subseteq Nat
    /\ MaxMemory \in Nat /\ ALIGN <= MaxMemory

VARIABLES
    pool,           \* [free, start, end, heap]: _S_free_list, _S_start_free,
                    \* _S_end_free and _S_heap_size
    live,           \* blocks the clients hold: [addr, size]
    brk,            \* external: the first address malloc has not given out
    wild            \* history: where a refill stored the list it made: "no",
                    \* "lost": outside the allocator, "crossed": another list

allocVars == <<pool, live, brk, wild>>

Null      == 0
Lists     == 0 .. MAX_BYTES \div ALIGN - 1      \* _NFREELISTS
Elsewhere == -1

_S_round_up(bytes)       == ((bytes + ALIGN - 1) \div ALIGN) * ALIGN
_S_freelist_index(bytes) == (bytes + ALIGN - 1) \div ALIGN - 1

\* simple_alloc asks for nothing when it is asked for nothing.
Requests == Sizes \ {0}

AllocInit ==
    /\ pool = [free |-> [l \in Lists |-> <<>>], start |-> Null, end |-> Null, heap |-> 0]
    /\ live = {}
    /\ brk  = ALIGN
    /\ wild = "no"

-----------------------------------------------------------------------------
(* _S_chunk_alloc: the ways it can end, for objects of size bytes.          *)

Left(p) == p.end - p.start

\* The pool has room for an object: as many as are wanted or fit.
Carve(p, b, size) ==
    LET n == IF Left(p) >= size * NOBJS THEN NOBJS ELSE Left(p) \div size
    IN  [pool |-> [p EXCEPT !.start = @ + size * n], brk |-> b, addr |-> p.start, nobjs |-> n]

\* What is left of the pool goes to the list of its size; slip: it is dropped.
DropLeft(p) == p
PutLeft(p) ==
    IF Left(p) > 0
    THEN [p EXCEPT !.free[_S_freelist_index(Left(p))] = <<p.start>> \o @]
    ELSE p

\* malloc gives the pool new memory.
Grow(p, size) ==
    LET get == 2 * size * NOBJS + _S_round_up(p.heap \div HeapPart)
        q   == [PutLeft(p) EXCEPT !.start = brk, !.end = brk + get, !.heap = @ + get]
    IN  IF brk + get > MaxMemory THEN {} ELSE {Carve(q, brk + get, size)}

\* The lists that are searched when malloc fails; slip: < for <= in the loop.
LargerButLast(p, size) ==
    {l \in Lists : l >= _S_freelist_index(size) /\ (l + 1) * ALIGN < MAX_BYTES /\ p.free[l] # <<>>}
Larger(p, size) == {l \in Lists : l >= _S_freelist_index(size) /\ p.free[l] # <<>>}

\* malloc fails: an object of the first list that has one becomes the pool.
Scavenge(p, size) ==
    LET l == Min(Larger(p, size))
        a == Head(p.free[l])
    IN  IF Larger(p, size) = {} THEN {}
        ELSE {Carve([p EXCEPT !.free[l] = Tail(@), !.start = a, !.end = a + (l + 1) * ALIGN],
                    brk, size)}

\* There is none, and the handler does not return; slip: the end of the old
\* pool is kept.
GiveUpKeepsEnd(p) == [pool |-> [p EXCEPT !.start = Null], brk |-> brk, addr |-> Null, nobjs |-> 0]
GiveUp(p) ==
    [pool |-> [p EXCEPT !.start = Null, !.end = Null], brk |-> brk, addr |-> Null, nobjs |-> 0]

_S_chunk_alloc(size) ==
    IF Left(pool) >= size THEN {Carve(pool, brk, size)}
    ELSE LET p == PutLeft(pool) IN
         Grow(pool, size) \cup
         (IF Larger(p, size) = {} THEN {GiveUp(p)} ELSE Scavenge(p, size))

-----------------------------------------------------------------------------
(* allocate: the ways it can end, as [pool, brk, addr, wild].               *)

\* _S_refill: the first object is the caller's, the others become a list that
\* is stored through __my_free_list, which was never set: whatever it points
\* to gets the list.
Others(c, size) == [k \in 1 .. c.nobjs - 1 |-> c.addr + k * size]

Stored(c, size, to) ==
    [pool |-> IF to \in Lists THEN [c.pool EXCEPT !.free[to] = Others(c, size)] ELSE c.pool,
     brk  |-> c.brk, addr |-> c.addr,
     wild |-> IF to = _S_freelist_index(size) THEN wild
              ELSE IF to \in Lists THEN "crossed" ELSE "lost"]

_S_refill(size) ==
    UNION { IF c.nobjs <= 1
            THEN {[pool |-> c.pool, brk |-> c.brk, addr |-> c.addr, wild |-> wild]}
            ELSE {Stored(c, size, to) : to \in Lists \cup {Elsewhere}}
            : c \in _S_chunk_alloc(size) }

\* malloc_alloc::allocate: malloc's memory, or the handler's exception.
FromMalloc(n) ==
    {[pool |-> pool, brk |-> b, addr |-> IF b = brk THEN Null ELSE brk, wild |-> wild]
       : b \in {brk} \cup {x \in {brk + _S_round_up(n)} : x <= MaxMemory}}

Popped(l) ==
    [pool |-> [pool EXCEPT !.free[l] = Tail(@)], brk |-> brk, addr |-> Head(pool.free[l]),
     wild |-> wild]

Allocated(n) ==
    LET l == _S_freelist_index(n) IN
    IF n > MAX_BYTES THEN FromMalloc(n)
    ELSE IF pool.free[l] = <<>> THEN _S_refill(_S_round_up(n))
    ELSE {Popped(l)}

\* deallocate: a block of n bytes goes to its list, or to free().
Deallocated(p, b) ==
    IF b.size > MAX_BYTES THEN p
    ELSE [p EXCEPT !.free[_S_freelist_index(b.size)] = <<b.addr>> \o @]

-----------------------------------------------------------------------------
(* The calls.  After a list was stored in another's place anything may      *)
(* happen; no call is modelled from there on.                               *)

allocate(n) ==
    /\ wild # "crossed" /\ Cardinality(live) < MaxLive
    /\ \E o \in Allocated(n) :
         /\ pool' = o.pool /\ brk' = o.brk /\ wild' = o.wild
         /\ live' = IF o.addr = Null THEN live ELSE live \cup {[addr |-> o.addr, size |-> n]}

deallocate(b) ==
    /\ wild # "crossed" /\ b \in live
    /\ pool' = Deallocated(pool, b)
    /\ live' = live \ {b}
    /\ UNCHANGED <<brk, wild>>

\* reallocate: b becomes a block of n bytes.  Two large sizes are realloc's
\* matter, which keeps a block in its place or moves it.
Large(b, n)    == b.size > MAX_BYTES /\ n > MAX_BYTES
SameList(b, n) == _S_round_up(b.size) = _S_round_up(n)

reallocate(b, n) ==
    /\ wild # "crossed" /\ b \in live
    /\ \/ /\ IF Large(b, n) THEN n <= b.size ELSE SameList(b, n)
          /\ live' = (live \ {b}) \cup {[b EXCEPT !.size = n]}
          /\ UNCHANGED <<pool, brk, wild>>
       \/ /\ Large(b, n) \/ ~SameList(b, n)
          /\ \E o \in Allocated(n) :
               /\ brk' = o.brk /\ wild' = o.wild
               /\ IF o.addr = Null
                  THEN pool' = o.pool /\ UNCHANGED live
                  ELSE /\ pool' = Deallocated(o.pool, b)
                       /\ live' = (live \ {b}) \cup {[addr |-> o.addr, size |-> n]}

AllocNext ==
    \/ \E n \in Requests : allocate(n)
    \/ \E b \in live : deallocate(b) \/ \E n \in Requests : reallocate(b, n)

AllocSpec == AllocInit /\ [][AllocNext]_allocVars

-----------------------------------------------------------------------------

AllocTypeOK ==
    /\ pool.free \in [Lists -> Seq(Nat \ {Null})]
    /\ pool.start \in Nat /\ pool.end \in Nat /\ pool.heap \in Nat
    /\ \A b \in live : b.addr \in Nat \ {Null} /\ b.size \in Requests
    /\ brk \in ALIGN .. MaxMemory /\ wild \in {"no", "lost", "crossed"}

Sum(f(_), S) == MapThenSumSet(f, S)
HeldBytes == Sum(LAMBDA b : _S_round_up(b.size), live)
FreeBytes == Sum(LAMBDA l : Len(pool.free[l]) * (l + 1) * ALIGN, Lists)

Bytes(a, n) == a .. a + n - 1
Covered ==
    (UNION {Bytes(b.addr, _S_round_up(b.size)) : b \in live})
      \cup (UNION {UNION {Bytes(a, (l + 1) * ALIGN) : a \in Range(pool.free[l])} : l \in Lists})
      \cup Bytes(pool.start, Left(pool))

(* No byte is in two places: the blocks clients hold, the objects on the    *)
(* free lists, at the size of their list, and the pool are disjoint and     *)
(* were all got from malloc.  It holds through refills that get less than   *)
(* they asked for, rests of the pool that become objects, objects that      *)
(* become the pool, and a failed malloc; until a refill's stray store hits  *)
(* the list of another size.                                                *)
Disjoint ==
    /\ AllocTypeOK
    /\ wild # "crossed" =>
         /\ Left(pool) >= 0
         /\ Covered \subseteq ALIGN .. brk - 1
         /\ Cardinality(Covered) = HeldBytes + FreeBytes + Left(pool)

(* _S_heap_size is accounted for to the last byte: what malloc gave the     *)
(* pool is held in small blocks, on a list or still in the pool.  The only  *)
(* leak is a refill whose list is stored outside the allocator.             *)
Accounted ==
    wild = "no" =>
        pool.heap = Sum(LAMBDA b : _S_round_up(b.size), {b \in live : b.size <= MAX_BYTES})
                      + FreeBytes + Left(pool)

(* A request for n bytes gives up (and leaves an empty pool) only when the  *)
(* pool has less than it needs and no list has an object of that size or a  *)
(* larger one, whichever n is asked for and by whichever call.              *)
GivesUpLast ==
    [][pool.start # Null /\ pool'.start = Null =>
         \A n \in Requests : allocate(n) \/ (\E b \in live : reallocate(b, n)) =>
            /\ Left(pool) < _S_round_up(n)
            /\ \A l \in Lists : l >= _S_freelist_index(n) => pool.free[l] = <<>>]_allocVars
=============================================================================
