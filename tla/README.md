# Verification of myprogram

This directory holds TLA+ models of the programs of the repository that carry
logic of their own, the TLC runs that check them, and TLAPS proofs about them.
`PROJECT.json` is the index: components, runs, the source lines behind every
definition (`map`), the slips that each property is known to catch (`mutants`),
hazards, findings and theorems. Run a model with
`tlc -config <run>.cfg <MC module>`, a proof with `tlapm <module>.tla`.

Paths below are relative to `src/`; `gate/` is `skynet_test/skynet/mytest/gate/`.

## 1. The system

The repository is a collection of server-side programs and studies around
skynet (an actor framework in C and Lua), libevent, redis, epoll, MySQL and the
STL. They are separate programs; what interacts, interacts inside one of them.

### Components

| Component | State it keeps | Operations | Interacts with |
|---|---|---|---|
| gate service (`gate/service_gate.c`) | listener id, broker, bind text, one connection record per slot | text commands kick, forward, broker, start, close, connect, listen; client replies; socket events; init, release | socket thread (requests out, events in), watchdog (reports), agents and broker (frames) |
| socket-id table (`gate/hashid.h`) | node array, bucket chains, count | lookup, insert, remove, full, clear | called by the gate for each event and command |
| receive buffers (`gate/databuffer.h`) | chunk list, offset, size, pending header; node pool of all connections | push, readheader, read, reset, clear | called by the gate's parsing loop |
| watchdog service (`.../service_test/cpp`) | none | starts a gate, parses and prints its reports | receives the gate's reports |
| lists of redis (`redis3.0_learn/adlist`) | nodes, list headers, iterators | create, release, add, insert, delete, iterate, dup, search, index, rotate | its caller |
| tail queues of libevent (`libevent_test/tailqueueTest`) | head and entries | the TAILQ macros | its caller |
| epoll server (`epoll_test/server.cpp`) | descriptors, the kernel's epoll list | wait, accept, read, close | clients, kernel |
| MySQL client (`mysql_api_test`) | one MYSQL structure, results, rows | connect, exec, last_affected_rows, get_insert_id, fetch_row | libmysqlclient, server |
| allocator of the SGI STL (`sgi_stl_learn/stl_alloc.h`) | free lists, pool, heap size | allocate, deallocate, reallocate, refill | malloc; its caller through `simple_alloc` |
| binary search tree (`tree/`) | nodes with parent and child links, root, length | insertNode, deleteNode, search, successor, predecessor, min, max, walk | its caller |
| wire packing, dispatcher, cluster nodes (`skynet_test/testcluster/lua`) | handler tables, log switch | pack, unpack, dispatch | skynet's Lua library |
| skynet's Lua library and services (vendored, two copies) | coroutines, sessions, channels, cluster links | call, wakeup, timeout, connect, ... | all Lua services |

The remaining directories are the declarations of an unfinished study
(`redis3.0_learn/dict`), examples without state (Lua and C interface, sockets,
logging, hotfix), third-party helpers, and deployment files.
Each is listed in `PROJECT.json` with the reason it is not modelled.

### What is hard, and what correctness means

*Gate.* Skynet dispatches one message of the gate at a time, while the socket
thread works beside it: an event describes a socket as it was when the event
was queued, and a command may have been handled in between. Ids are socket ids,
slots are reused, and a slot holds four things (table entry, id, agent, bytes)
that must be taken and left together. Correct means: table, connection array,
mailbox and socket thread agree on which socket lives where; each client's frames
come out whole and in order, at the service named for that very client; the
watchdog hears of each client in a sensible order; nothing is lost for good.

*Table and buffers.* Chains and chunk lists under arbitrary orders of calls;
headers cut anywhere, of zero and negative length; a node pool whose leaks show
only after many messages.

*Lists and queues.* First, last and only elements; a caller that deletes what
its iterator just gave it; memory that runs out half way through a copy.

*epoll server.* Edge-triggered events on blocking sockets: what is not consumed
at its one event is not reported again, and a call without cause blocks all.

*MySQL client.* A connection that breaks between any two exchanges and is
silently replaced: statements must not run twice, and neither rows nor insert
ids may come from another statement or another session.

*Allocator.* Memory moves between clients, lists of one size each, and a pool that
ends in rests of any size; malloc fails at any call. No byte may be in two of these
places or in none.

*Search tree.* Links in both directions under insertions and deletions; what the
functions find in the trees that `insert` really builds.

`PROJECT.json` lists the 40 hazards, each at its line, with the properties that
watch it or a note why none does.

## 2. Modules

| Module | Models | Role |
|---|---|---|
| `IdTable` | `hashid.h` as its caller sees it | abstract; base of `Gate` |
| `HashId` | `hashid.h` with nodes, chains and int arithmetic | implements `IdTable` |
| `Framing` | header value, one header read, reference parse | operators |
| `FrameBuffer` | a receive buffer as bytes in, frames out | abstract |
| `DataBuffer` | `databuffer.h` with chunks, offsets, node pool, and the parsing loop | implements `FrameBuffer` |
| `Gate` | `service_gate.c` composed with table, framing and socket thread | core |
| `SeqLists`, `AdList` | `adlist.c` as sequences; with nodes and pointers | abstract; implements it |
| `TailQueue` | `tailqueue.h` | |
| `EpollServer` | `server.cpp` with clients and the kernel's epoll | |
| `MysqlClient` | `MysqlClient.cpp` with library, server and broken connections | |
| `StlAlloc` | `stl_alloc.h` with an external malloc | |
| `SearchTree` | `searchTree.cpp` on a heap of nodes | |
| `DataLemmas` | | induction, recursion, queues, sums and tables, for the proofs |
| `FramingProofs` | | frames in a byte stream, for the two modules after it |
| `GateProofs` (with `IdTable`), `DataBufferProofs`, `HashIdProofs`, `AdListProofs`, `StructureProofs` (tail queue, allocator and search tree), `NetworkProofs` (epoll server and MySQL client) | | theorems |
| `MC*` | | instances for TLC |

Definitions keep the source's names. Operators whose comment says *slip* are not
part of a model: each is a plausible mistake in the definition after it, and
`PROJECT.json` names the property that notices it.

### Gate

| Model | Code |
|---|---|
| `slot`, `count` | `g->hash` (`hi->id[i].id`, `hi->count`) |
| `conn[i]` | `g->conn[i]` without its buffer: id, agent, client |
| `buf[i]` | `g->conn[i].buffer`, as pending header and unread bytes |
| `listen_id`, `broker`, `bind` | the fields of `struct gate` |
| `mail`, `ctrl` | the gate's mailbox, the socket thread's control pipe |
| `sock` | the socket thread's view of each id (external) |
| `log`, `stream`, `assigned` | history, read by properties only |
| `OnData`, `OnConnect`, `OnClose`, `OnAccept` | the cases of `dispatch_socket_message` |
| `Drain` | the loop of `dispatch_message`, with `_forward` |
| `Kick` ... `Listen`, `ClientMessage` | the branches of `_ctrl`, and `_cb`'s PTYPE_CLIENT case |
| `gate_init`, `gate_release` | the functions of these names |

The socket thread is modelled from what the gate relies on: requests are served
in order; an id is handed out once; starting, closing, peers and refused
connections produce the events the gate handles; closing a socket that is
already closed may or may not be answered. A text command is handled in the step
that sends it, which loses nothing: nobody observes a command that waits, so one
that waits between two events behaves like one that arrives between them.

Left out: matching of the command word and its arguments (commands arrive
resolved), number formatting, WARNING events (they only print), UDP. The bind text is
kept, with what `start_listen` cuts off it (`CutAddress`, `HostNumber`), because a
second listen reads it again and it decides whether and where the gate then listens.
A connect that fails at once (-1) is in `HashId`, where it goes wrong;
`Gate` has the connects that get an id.

### Table and buffers

`HashId` has the bucket heads and `next` links; a failed assertion or a read
outside the node array ends the behaviour in a status of its own. `DataBuffer`
has the chunks as the socket delivered them. Its actions are
`databuffer_push`, `databuffer_readheader`, `ReadBody` and `databuffer_clear`, in
the order in which `dispatch_message` calls them; `messagepool_free` only returns
memory and is left out. Headers are four bytes big-endian read into an `int`: in
the models `HeaderSize` bytes over `Base` values, the upper half negative.

### Lists and queues

`AdList` allocates nodes from a finite set, so memory runs out. `listDup` is one
step per iteration, and each of its allocations may fail; `SearchFails` is a
`listSearchKey` that gets no iterator and reads through the null pointer. A freed node is blanked;
no function of the code reads one. `use` is the caller of a behaviour: which
methods it sets, which values it adds, and whether it iterates or copies.
`TailQueue` names a `tqe_prev` by the owner of the field it points to, so that
`*elm->tqe_prev = x` is `first[last[e]] = x`; `TAILQ_LAST` and `TAILQ_PREV` keep
the cast that reads an entry as a head.

### epoll server

One action per turn of the loop. `ready` is the kernel's list of descriptors that
woke up; `epoll_wait` polls each again, reports at most `MaxEvents` and forgets
what it reported. A read takes bytes (`ReadBytes`), finds the end or a reset and closes
(`ReadEnd`), or fails in another way (`ReadFails`): then the code prints a line, and the
descriptor stays open and registered while its edge is used up. Left out: printing, and the newline stored at `line[n]`, which
for `n = -1` and `n = MAXLINE` is a byte beside the array.

### MySQL client

A call is cut where the server or the library is asked: ping, connect, statement,
fetch. `Breaks` may happen at each cut; the server may have run a statement whose
answer is lost. `link` says of each MYSQL structure whether it is connected, which
result waits on it and what `@@IDENTITY` is in its session. Left out: columns and
their conversions, escaping, and the number of affected rows.

### Allocator

Addresses are numbers; `pool` holds the four static members, a free list being the
sequence of its objects' addresses. Each call is one action that picks one of the
ways it can end: `_S_chunk_alloc` yields the pool's own memory, malloc's, that of an
object of a larger list, or the end in the handler. Two things in the file are not
as their author meant them:

- three names are misspelt and keep it from compiling (`result` at line 15,
  `_S_oom_alloc` at 16, `__M_free_list_link` at 154); they are read as the names they
  stand for. `_S_oom_malloc` and `_S_oom_realloc` are declared and never defined: the
  model takes them to end the call without a block, as an exception does.
- `_S_refill` stores the list it makes through `__my_free_list`, a pointer it never
  set. The model chooses where the store goes: to the right list, to another one, or
  out of the allocator. `wild` remembers which. After a store into another size's
  list the behaviour is not followed any further.

### Search tree

`node` is the heap, `used` what is allocated; nodes that `insert` overwrites or
`deleteNode` takes out stay allocated, as in the code, and addresses are numbered in the
order of allocation. `insert` moves left on both of
its branches and hangs a larger key on the left, so the trees are no search trees,
and `search` finds the root or nothing. The model keeps this, and with it the
functions that work on such trees; the branch of `deleteNode` for a successor that is
no child of the deleted node is translated and never reached. `createNode` has no
return value on its normal path: its caller gets the node or a null pointer.
`minKey`, `maxKey` and the walk end the behaviour where they read through a null
pointer or write past their array.

## 3. Runs

All bounds are constants of the modules and are set in the `.cfg` files.
Deadlock is checked in `mysql_client`, whose caller can always go on; the other programs really stop (the service is released, the process exits
or fails an assertion, the bound on commands or bytes is used up).

| Run | Checks | Shows |
|---|---|---|
| `hashid` | `ChainsExact`, `InsertSafe`, `LookupAgrees`, `ImplementsTable` | under all orders of insertions and removals of colliding ids, every id is on its bucket's chain once, the probe stays inside the array and finds a free node, no assertion fails, and the table `Gate` is built on is implemented |
| `databuffer` | `BuffersExact`, `FramesExact`, `ImplementsFrames`, `LoopEnds` | however streams are cut, `size` and `offset` are exact, the frames are those of the reference parse, none waits for the next message, the loop ends on any header, and no list node is lost or used twice |
| `gate_routing` | `WatchdogView`, `FramesIntact`, `ReleaseCloses`, `RoutedToAssigned` | one slot used by one client after another: frames arrive whole and in order, at the broker or at the agent named for that very client; reports come as accept, data, close; release closes what was accepted |
| `gate_lifecycle` | `GateInv`, `NoUnknownData`, `DeadEntriesLeave`, `ClosedIsForgotten`, `ConnectAnswered` | two slots, accepts and connects and kicks: the parts agree, data always finds its entry, an entry of a dead socket has its end on the way; a connection that is kicked or sends too long a frame leaves the table; a connect that got a socket is answered |
| `adlist` | `ListsExact`, `LookupsAgree`, `IterComplete`, `ImplementsSeq`, `DupCopies` | lists read the same from both ends, own their nodes, and behave as sequences; iterations survive deletion of the current node; copies are complete or gone |
| `epoll_server` | `NeverBlocks`, `LeftBehind`, `FirstAccepted`, `InputRead` | each event still has its cause when its turn comes; where no read failed, an unread byte without an event is behind a read that filled `line`; who finds nobody waiting is accepted; what fits into `line` is read |
| `mysql_client` | `OneSession`, `RunsOnce`, `ResultOfLastExec`, `InsertIdHonest` | a broken connection never makes a statement run twice, and never yields rows or an id of another statement |
| `structures` | `QueueInv`, `ReverseAgrees`, `OneChange` (tail queue) | the two kinds of links match, walking back is walking forward reversed, each macro changes the order at the place its name says |
| | `Disjoint`, `Accounted`, `GivesUpLast` (allocator) | blocks, listed objects and pool never overlap and add up to what malloc gave, whatever fails; a request gives up only when the pool has no room for its size and the lists of that size and all larger ones are empty |
| | `LinksExact`, `Neighbours`, `ChangesOnce` (search tree) | parent and child links always agree and make a tree; each call adds, replaces or removes one node; successor and predecessor of a key that is found are its neighbours |
| `hashid_failed_connect` | `FreshNodeUnlinked` violated | see findings |
| `gate_accept_assert` | `AcceptAssertHolds` violated | see findings |
| `adlist_dup_frees` | `DupLeavesInput` violated | see findings |
| `searchtree_lost_keys` | `Findable` violated | see findings |

### Bounds, and why they are enough

- `hashid`: four slots, five ids of which three share one bucket and two another;
  more ids than slots, so the table fills up, and chains of three, whose head,
  middle and end are removed. `IntMax = 36` is where the probes of the
  largest id, 33, end: a larger id would overflow.
- `databuffer`: two-byte headers over four byte values give lengths 0 to 7 and
  negative ones; chunks of one byte cut a header and a body anywhere, others hold
  an empty frame and half a header, the start of a frame that is too long, or two
  frames; seven bytes in all; blocks
  of three nodes, so that the pool grows and is used again.
- Gate runs: one-byte headers over eight values (4 to 7 stand for negative
  lengths) and `BigFrame = 3`. The chunks are half a frame, its other half with
  the next frame, and a frame that is too long. Three socket ids: a
  listener and clients that follow each other in the slots. Three or four commands
  are enough for one command to overtake, and another to follow, each event.
- `adlist`: four nodes are needed to copy a list of two; three for a middle node
  under the iterator. Two values per key tell copies from shared pointers.
  `adlist_dup_frees` has room to copy one node of two.
- `epoll_server`: two clients and the listener make three sources of events, of
  which one wait reports two; `MAXLINE` 2 with three bytes waiting, so that a read may
  fill `line` and leave a rest. A client whose connection is closed does not come
  back; accept and read may fail at any call, as accept does when descriptors run out. No
  symmetry, since the run checks liveness.
- `mysql_client`: two structures (one lost to a failed connect, one in use) and
  three statements (one nobody fetches, one refused, one after it), one row by
  another client.
- `structures`: the three share nothing, and a behaviour uses one of them (`part`), so the
  run is as large as the three together and not their product. The queue has four
  elements, for a first, a last and neighbours in between; they are symmetric. The
  allocator has three lists, refills of three objects, and 44 bytes, enough for malloc to
  succeed twice and then fail with a rest in the pool and objects on the lists; the
  sizes are the smallest, odd and largest ones of the lists, one above them, and 0.
  The tree has five nodes with four keys: a root with two children, an insertion over
  a child, and equal keys.

### Fairness

Safety properties need none. `gate_lifecycle` assumes weak fairness of the gate's event
handling (skynet's worker threads dispatch every mailbox that is not empty), of
the socket thread serving its pipe, and of the end of each connection attempt
(the operating system makes or refuses it). Commands and peers are not fair.
`databuffer` assumes that a loop that can go on does. `epoll_server` assumes that the
server process is scheduled. Clients need do nothing, and a read may fail at any time:
`InputRead` says of a connection that its input is read, fills `line`, or meets a
failed read.

### Findings

- `hashid_failed_connect`: `_ctrl`'s connect inserts what `skynet_socket_connect`
  returns without testing it. A -1 is also the mark of an empty node: the node is
  linked and reads as free, and a later insertion fails
  `assert(c->next == NULL)`, or the probe `(i + id) % cap` reads `hi->id[-1]`.
- `gate_accept_assert`: close and listen change `listen_id` while accept events of
  the old listener wait in the mailbox; `assert(g->listen_id == message->id)`
  then fails and ends the process.
- `adlist_dup_frees`: a list with a free method and no dup method is copied, and memory
  runs out half way. The copy holds the pointers of the original; releasing it frees
  them, and the original is left with freed values, although the comment above
  `listDup` says that its input is not modified.
- `searchtree_lost_keys`: `insert` goes left whatever the key is and hangs larger keys on
  the left, where `search` does not look for them: after two insertions of different
  keys only the root's is found.

Behaviour met while modelling that the models reproduce and no run singles out:
the probe of `hashid_insert` overflows for ids within `cap` of the largest `int`, misses
slots or leaves the array, and nothing in the gate bounds the ids it is given;
`start_listen` cuts the port off the stored bind text, so a second listen parses
the host; a dialled connection never gets its `conn[i].id`, so `gate_release`
leaves it open; `listDup` returns an indeterminate value when there is no memory
for the header; the epoll server accepts once per edge, so that the second of two
clients that connect together waits for a third, and reads once per edge, so that
the rest of a long input waits for more, and keeps a descriptor open whose read
failed with anything but a reset. The hazards name their lines.

## 4. Proofs

The theorems hold for every value of the constants that satisfies the modules'
`ASSUME`s: a positive capacity, natural ids and handles, NULL values distinct from
elements and clients, finitely many buffers, queue elements and list nodes, non-empty chunks of integers, and
for `Framing` the two equations that define powers of the base up to the header size, which
TLC evaluates and the provers cannot compute. The bounds of the runs are constants too, so they limit
nothing.

**`DataLemmas`.** The library's induction theorems take an operator that none of the
provers can instantiate. Here induction is stated with a set in place of the operator
(`SetInduction`, `MeasureInduction`), and recursion as the existence of a function that
solves an equation (`RecursionExists`, `PairRecursionExists`). A recursive function of a model is a `CHOOSE` of
a solution of its equation: the proofs show that one exists, then reason by induction
about the one chosen. That is how the `Walk` of `AdList` and of `HashId`, the search of
`listSearchKey`, `HeaderValue`, `Missing`, `Drain`, `Keep` and `ForEach` get their values, and how
`MapThenSumSet` and `FlattenSeq` of the library are shown to add up and to join.

**`FramingProofs`.** What a stream of bytes says in frames. `Cut(s, n, bs)` says that the first
`n` bytes of `s` are whole frames with the bodies `bs`; it is the least relation closed under
taking off one frame, so a fact about it is an induction over frames. `CutFrames`: the
reference parse `Frames` begins with what was cut off. `GateProofs` and `DataBufferProofs`
share it.

**`DataBufferProofs`.** A buffer is `Exact` when its chunks are not empty, the offset is inside
the first, `size` is the number of unread bytes, and the pending header is what
`databuffer_readheader` could have left. Its view is the pending header and those bytes
joined. The lemmas follow the code: a read of `n` bytes passes whole chunks and ends in one
that has enough (`UnreadExists`, `MissingIs`, `LastPassIs`), so it takes the first `n` bytes
off the view (`ReadIs`) and gives back as many nodes as chunks it finished. `PushIs`,
`HeaderIs`, `BodyIs` and `BlankIs` say the same of the calls. `DataInv` is that every buffer is
exact, that free and held nodes add up to the blocks allocated, and `Follows`: what was
received is a cut into the frames read so far, followed by the view. `BuffersExact` is not
inductive alone, since it does not say what the bytes are. `DataBuffersExact`,
`DataFramesExact` and `DataImplementsFrames` hold for any number of connections, any
header size, and any chunks.

**`GateProofs`.** `TableCorrect`, of `IdTable`: `count` is the number of used slots and no id
is in two. The argument is cardinality under insertion and removal, and that the
probes `(i + id) % Cap` for `i < Cap` reach every slot (`ProbesCover`): when
`count < Cap`, a free slot exists and is found.

`GateConsistent`: `Spec => []GateInv`. The invariant is the
conjunction of

- `TypeOK` and `TableInv`;
- `SlotsClean`: a free slot carries nothing of its last connection. `OnAccept` and
  `Connect` set only some fields of the slot they take;
- `ConnMatchesTable`: `conn[i].id` is the table's id or -1;
- `AcceptsFresh`: an accept event names a socket that is in no slot and in no other
  accept event. Without it `OnAccept` could make a second entry for an id;
- `KnownSockets`: an id in the table has been handed out, so that the socket
  thread cannot hand it out again. This is what makes `AcceptsFresh` hold for new
  events.

One lemma per action shows that it is preserved; `QuietStep` covers the actions that
leave table and mailbox alone. `GateSlotsClean` follows, and `GateInsertsFind`: when
`hashid_full` says no, `assert(c)` in `hashid_insert` cannot fail.

What the mailbox, the socket thread and the history say of each other is the second part
of the module. `OrderInv` is `GateInv` with

- `ThreadInv`, the order of events: no event or request of a socket that was not handed
  out, no event before its accept is handled, and no data after the end of a socket;
- `EntryInv`: while the gate runs, a socket that is open or connecting, or has data in
  the mailbox, has its entry, and an entry whose socket is closed has the end on its way;
- `LogInv`: accept first, close last; an accepted socket whose close was not reported
  has its entry; nothing is told of a socket the gate has not heard of; the agent in a
  slot is the one named for the socket that is in it.

`GateOrdered` proves it for every action; the loop of `dispatch_message` is handled by an
invariant over its recursion (`Drain` only appends data notes for the right receiver and
asks for at most one close). `GateNoUnknownData`, `GateDeadEntriesLeave`,
`GateWatchdogView`, `GateReleaseCloses` and the action property `GateRouted` follow.

The frames are the third part. `GateFramesIntact`: `FramesIntact` for every header size, every
length limit, and every way to cut the stream into events, by any sequence of receivers.
It rests on `DrainCuts`: one run of the loop
takes frames off until there is no whole one (`CaughtUp`) or until it meets one that is too
long (`StoppedAt`), and the notes it writes carry their bodies; and on `CutFrames`. `FrameInv` says of every socket that the
bodies handed on and the bytes in its buffer come from such a cut, and that nothing was
received from a socket before its accept was handled. `StepBuffers` is where this meets
`OrderInv`: a buffer stays with its socket, and one that changes hands is blank.

The theorem assumes `Watchdog # 0`. Without a watchdog, broker and agent, `_forward` finds
no receiver and returns with the body still in the buffer, where the loop reads it as the
next header: the property is false, and the code does not claim it.

**`HashIdProofs`.** `HashInv` says that the nodes make up a correct `IdTable`, that every
bucket's chain is an acyclic list of exactly its ids, and that an empty node carries no
link, which is what `assert(c->next == NULL)` needs. It is proved under `SafeIds`: ids are
natural and `id + Cap - 1` is an `int`. Without the first part it is false, as the finding
`hashid_failed_connect` shows; without the second `i + id` overflows and
the index may be negative. The theorems are
`HashChains`, `HashInsertSafe`, `HashLookup` and `HashImplements`: the initial state maps to
`IdTable`'s, and each call to one step of `IdTable` or a stutter.

**`AdListProofs`.** `AdInv` says that there is one sequence of distinct nodes per list
such that

- `Shape`: header and links spell the sequence in both directions, the sequences are
  disjoint, and every node outside them is free and blank;
- `IterFits`: the nodes an iterator still has to visit are a part of its list that begins
  at its next node, and the values it has seen, followed by theirs, are the ones the list
  had at the start. This is what lets the caller delete the node it was given last;
- `CopyFits`: a `listDup` in progress has copied a prefix of the original.

`ListsExact` alone is not inductive: it does not say what a free node holds, nor where
the iterator stands. Every operation makes a node join a sequence, leave it or move from
its end to its front, and one lemma for each of the three carries the links over.
`AdListsExact`, `AdIterComplete` and `AdDupCopies` follow. `AdLookupsAgree` needs the
recursions of `listIndex` and `listSearchKey`: the walk reaches the node at each place,
and the distance to the end of the list is the measure that makes the search defined.

`AdImplementsSeq`: the values along the sequences of `AdInv` are the state of `SeqLists`;
each call maps to one action of it or to a stutter, and the iterations of `listDup` to the
steps of its copy.

**`StructureProofs`.** Of the tail queue, `QueueLinked`: `Spec => []QueueInv`. An element that points to
itself satisfies `QueueInv` and breaks under `TAILQ_REPLACE`, so the invariant adds
`Acyclic`: some numbering grows along the queue. `StepsBack`: under `QueueInv` the
casts of `TAILQ_PREV` and `TAILQ_LAST` find the element before, and the last one.
`QueueReverse` and `QueueOneChange` add `Spelled`: some sequence without repetition has
the queued elements as members, and each place points to the next of them. Every macro
edits that sequence at the place it names (`MacroSpells`, `EditStep`); `ForEach` computes it and `ForEachReverse`
its reverse (`ForwardSpells`, `BackwardSpells`, by induction over the walk).

Of the allocator, `AllocDisjoint`, `AllocAccounted` and `AllocGivesUpLast`, for every
alignment, size limit, refill count, set of requests and amount of memory; the
assumption is that a size limit is a whole number of alignments and that memory begins
below its end (`ALIGN <= MaxMemory`). `Disjoint` counts bytes and `Accounted` adds up
sizes, which says nothing of a single piece, so neither is inductive. `AllocInv` says
where each piece is, unless a refill has stored its objects in another size's list:

- `Good`: every address is in one place only, a block, one list, or the pool; the pieces
  lie apart from each other and from the pool (`Apart`, `Clear`), and inside what malloc
  has given (`Inside`); what is left in the pool is a multiple of the alignment, so a
  rest is always an object of some list;
- `KeptMemory`: `Good`, and `_S_heap_size` is the worth of the small blocks, the lists
  and the pool as long as no refill has lost its objects.

A call is two or three moves of memory between these places (a front cut off the pool, a
rest put on a list, an object taken off one, a block released, memory got from malloc),
and a lemma per move shows that it keeps both. At the end `UnionCount`, that pieces
that lie apart cover as many bytes as their sizes add up to, turns `Good` into `Disjoint`.
For `AllocGivesUpLast` the ways a call can end (`Result`) carry the size that was asked
for: one that leaves the allocator without a pool found nothing for that very size
(`NothingFor`).

Of the search tree, `TreeLinksExact`, `TreeNeighbours` and `TreeChangesOnce`, for any
keys and any number of nodes. `LinksExact` is not inductive: what `deleteNode` takes
out and where `insert` ends depend on the keys, and the walks are only defined when
the links of every node, also of those that have left the tree, lead somewhere. `TreeInv`
adds

- `Ordered`: children have larger addresses than their parents, in all nodes, so that
  the walks, the search and the ways up have a measure and their recursive equations a
  solution (`PairRecursionExists`, the case of two recursive calls);
- `Spine`: some sequence of nodes without repetition goes from the root along the left
  links, with keys that grow, and each node of it may have a child on the right, without
  children, with a key that is not larger and an address between its parent's and the
  next on the left.

That is the only shape `insert` and `deleteNode` build: `insert` makes the spine longer at
its end or hangs a node on its last (`SpineGrows`, `SpineHangs`), and `deleteNode` takes
off its first or puts that one's right child in its place (`SpineDrops`, `SpineReplaces`).
Keys that grow to the left are why `search` finds the root or nothing (`SearchFinds`), and
so why `deleteNode` never reaches the branch for a successor further down (`RemovedIs`).
The order from left to right is read off the spine from its end (`OrderTail`).

**`NetworkProofs`.** Of the epoll server, `EpollInv` says that descriptors and open connections correspond
one to one, that the ready list and the batch hold open descriptors once each, that what
is in the batch still has its cause, and what is left without an event where no read
failed. `EpollNeverBlocks`
and `EpollLeftBehind` follow; the edge-triggered list of the kernel is the model's
(`Woken`, `Keep`).

Of the MySQL client, `ClientRunsOnce`, `ClientResults`, `ClientOneSession`,
`ClientInsertId`. The invariant adds to these what is known in the middle of a
call: `Fresher` (a statement being executed has neither run nor been reported),
`Waiting` (what waits on the connection belongs to the last statement, and nothing
waits when one is sent), `OwnIds` (the identity a session knows is this client's) and
`Reported`.

Only model-checked: the liveness properties (fairness is out of the prover's reach).

## 5. Plan

Done: the gate with its table and buffers, the list, queue, epoll, MySQL, allocator and
search tree programs, and the proofs above, of every safety invariant and action
property that a passing run checks.

### Not modelled

- *Skynet's Lua library and services*: vendored, in two copies. The gate under
  `mytest/`, which the repository builds as a service of its own, is modelled.
- *Wire packing* (`protopack.lua`): byte layouts of single calls, without state.
- *Dispatcher* (`dispatcher.lua`) *and cluster nodes*: a table and a context set at
  start; the interleavings of their handlers are those of skynet's scheduler.
- *Watchdog*: keeps no state; what it is told is in `Gate` (`WatchdogView`).
- *redis dict*: structures and the start of one function.
- *Vector of the SGI STL*: constructors only.
- *Logging, Lua and C examples, socket clients, OpenResty servers, deployment files*:
  no state, or unfinished.
