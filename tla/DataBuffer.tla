----------------------------- MODULE DataBuffer -----------------------------
(***************************************************************************)
(* gate/databuffer.h: the receive buffers of the connections, each a list  *)
(* of chunks as the socket delivered them with an offset into the first,   *)
(* and the pool of list nodes that all of them share.  The driver is       *)
(* service_gate.c's dispatch_message: push, then header and body reads     *)
(* until the header read returns a negative number.                        *)
(***************************************************************************)
EXTENDS Framing, FiniteSetsExt

CONSTANTS
    Chunks,         \* byte sequences a socket may deliver at once
    Buffers,        \* the connections that own a buffer
    MaxBytes,       \* bound on the bytes pushed, of a buffer since its clear
    BigFrame,       \* 0x1000000: a frame this long closes the connection
    MESSAGEPOOL,    \* list nodes allocated at a time
    NoBuffer        \* no buffer is being parsed

ASSUME ChunksAssumption == \A c \in Chunks : c \in Seq(0 .. Base - 1) /\ c # <<>>
ASSUME BigFrameAssumption == BigFrame \in Nat
ASSUME PoolAssumption == MESSAGEPOOL \in Nat /\ MESSAGEPOOL > 1
ASSUME BuffersAssumption == IsFiniteSet(Buffers) /\ NoBuffer \notin Buffers

VARIABLES
    db,             \* struct databuffer of every connection; msgs is head..tail
    mp,             \* struct messagepool: free nodes, and blocks allocated
    busy,           \* the buffer dispatch_message is looping on, or NoBuffer
    sent, got       \* history: bytes pushed, frames read since the last clear

vars == <<db, mp, busy, sent, got>>

BlankBuffer == [header |-> 0, offset |-> 0, size |-> 0, msgs |-> <<>>]

Init ==
    /\ db   = [b \in Buffers |-> BlankBuffer]
    /\ mp   = [free |-> 0, blocks |-> 0]
    /\ busy = NoBuffer
    /\ sent = [b \in Buffers |-> <<>>]
    /\ got  = [b \in Buffers |-> <<>>]

\* _return_message n times over: n nodes go back to the free list.
ReturnNodes(n) == mp' = [mp EXCEPT !.free = @ + n]

\* Pass k (from 0) of databuffer_read's loop looks at chunk k + 1, past the
\* offset if it is the first one, with Missing(d, n, k) bytes still to copy.
Part(d, k) == Drop(d.msgs[k + 1], IF k = 0 THEN d.offset ELSE 0)

Missing(d, n, k) ==
    LET m[j \in 0 .. Len(d.msgs) - 1] ==
          IF j = 0 THEN n ELSE m[j - 1] - Len(Part(d, j - 1))
    IN  m[k]

\* The pass in which the loop returns: the chunk holds all that is missing.
LastPass(d, n) ==
    Min({k \in 0 .. Len(d.msgs) - 1 : Len(Part(d, k)) >= Missing(d, n, k)})

\* databuffer_read(n): the bytes copied, the buffer left, the nodes returned.
Read(d, n) ==
    LET k    == LastPass(d, n)
        rest == Missing(d, n, k)
        done == Len(Part(d, k)) = rest      \* the last chunk is used up too
        used == IF done THEN k + 1 ELSE k
    IN  [bytes |-> FlattenSeq([j \in 1 .. k |-> Part(d, j - 1)])
                     \o Take(Part(d, k), rest),
         left  |-> [d EXCEPT !.size   = @ - n,
                             !.offset = IF done THEN 0
                                        ELSE rest + (IF k = 0 THEN @ ELSE 0),
                             !.msgs   = Drop(@, used)],
         nodes |-> used]

\* Slip: the first node of a new block is put on the free list too.
TakeNodeTwice ==
    mp' = IF mp.free > 0
          THEN [mp EXCEPT !.free = @ - 1]
          ELSE [free |-> MESSAGEPOOL, blocks |-> mp.blocks + 1]

\* databuffer_push: a node from the free list, or the first of a new block.
TakeNode ==
    mp' = IF mp.free > 0
          THEN [mp EXCEPT !.free = @ - 1]
          ELSE [free |-> MESSAGEPOOL - 1, blocks |-> mp.blocks + 1]

databuffer_push(b, chunk) ==
    /\ busy = NoBuffer
    /\ MapThenSumSet(LAMBDA c : Len(sent[c]), Buffers) + Len(chunk) <= MaxBytes
    /\ TakeNode
    /\ db'   = [db EXCEPT ![b].size = @ + Len(chunk),
                          ![b].msgs = Append(@, chunk)]
    /\ sent' = [sent EXCEPT ![b] = @ \o chunk]
    /\ busy' = b
    /\ UNCHANGED got

\* databuffer_readheader: reads a header if none is pending; its result is
\* negative, 0 or the length of a frame that is wholly buffered.
NeedsHeaderAlways(d) == d.size >= HeaderSize    \* slip
NeedsHeader(d) == d.header = 0 /\ d.size >= HeaderSize

\* The buffer after the header has been read, and the nodes that freed.
WithHeader(d) ==
    IF NeedsHeader(d)
    THEN LET r == Read(d, HeaderSize)
         IN  [left  |-> [r.left EXCEPT !.header = HeaderValue(r.bytes)],
              nodes |-> r.nodes]
    ELSE [left |-> d, nodes |-> 0]

\* Slips: a frame that just fits is left waiting; no header yet is taken for
\* a header of zero.
ResultStrict(d, after) ==
    IF (d.header = 0 /\ d.size < HeaderSize) \/ after.size <= after.header
    THEN -1
    ELSE after.header
ResultZero(d, after) == IF after.size < after.header THEN -1 ELSE after.header

\* after is the buffer that readheader(d) leaves behind.
Result(d, after) ==
    IF (d.header = 0 /\ d.size < HeaderSize) \/ after.size < after.header
    THEN -1
    ELSE after.header

databuffer_readheader(b) ==
    /\ busy = b
    /\ db[b].header <= 0 \/ db[b].size < db[b].header
    /\ LET h == WithHeader(db[b]) IN
         /\ db'   = [db EXCEPT ![b] = h.left]
         /\ busy' = IF Result(db[b], h.left) < 0 THEN NoBuffer ELSE b
         /\ ReturnNodes(h.nodes)
    /\ UNCHANGED <<sent, got>>

\* _forward reads the body, then dispatch_message calls databuffer_reset.
ReadBody(b) ==
    /\ busy = b
    /\ db[b].header \in 1 .. BigFrame - 1
    /\ db[b].size >= db[b].header
    /\ LET r == Read(db[b], db[b].header) IN
         /\ db'  = [db EXCEPT ![b] = [r.left EXCEPT !.header = 0]]
         /\ got' = [got EXCEPT ![b] = Append(@, r.bytes)]
         /\ ReturnNodes(r.nodes)
    /\ UNCHANGED <<sent, busy>>

\* databuffer_clear: every node back to the pool, every field zero.
databuffer_clear(b) ==
    /\ ReturnNodes(Len(db[b].msgs))
    /\ db'   = [db EXCEPT ![b] = BlankBuffer]
    /\ sent' = [sent EXCEPT ![b] = <<>>]
    /\ got'  = [got EXCEPT ![b] = <<>>]
    /\ busy' = NoBuffer

\* A frame that is too long, once all of it is buffered, ends the loop.
TooLong(b) ==
    /\ busy = b
    /\ db[b].header >= BigFrame
    /\ db[b].size >= db[b].header
    /\ databuffer_clear(b)

\* The socket closed.
Closed(b) == busy = NoBuffer /\ databuffer_clear(b)

LoopStep(b) == databuffer_readheader(b) \/ ReadBody(b) \/ TooLong(b)

Next ==
    \E b \in Buffers :
        \/ \E c \in Chunks : databuffer_push(b, c)
        \/ LoopStep(b)
        \/ Closed(b)

\* A handler, once started, is run to its end.
Spec == Init /\ [][Next]_vars /\ WF_vars(\E b \in Buffers : LoopStep(b))

-----------------------------------------------------------------------------

TypeOK ==
    /\ \A b \in Buffers :
         /\ db[b].header \in -(Base ^ HeaderSize) .. Base ^ HeaderSize
         /\ db[b].offset \in Nat
         /\ db[b].size   \in Nat
         /\ db[b].msgs   \in Seq(Seq(0 .. Base - 1))
    /\ mp.free \in Nat /\ mp.blocks \in Nat
    /\ busy \in Buffers \cup {NoBuffer}

\* The bytes of a buffer that have not been read.
Pending(d) == Drop(FlattenSeq(d.msgs), d.offset)

(* db->size, which every length test uses, is the number of unread bytes,   *)
(* and the offset lies inside the first chunk: databuffer_read never runs   *)
(* off the end of the list.  Nodes are neither lost nor handed out twice:   *)
(* those in the buffers and those on the free list are together all that    *)
(* was ever allocated.                                                      *)
BuffersExact ==
    /\ TypeOK
    /\ \A b \in Buffers :
         /\ db[b].size = Len(Pending(db[b]))
         /\ IF db[b].msgs = <<>> THEN db[b].offset = 0
                                 ELSE db[b].offset < Len(db[b].msgs[1])
    /\ mp.free + MapThenSumSet(LAMBDA b : Len(db[b].msgs), Buffers) = mp.blocks * MESSAGEPOOL

(* The chunks implement the frame buffer: the way a stream is cut into      *)
(* chunks, also inside a header or a body, has no effect on the frames.     *)
Abstract == INSTANCE FrameBuffer WITH
    fbuf <- [b \in Buffers |-> [header |-> db[b].header, bytes |-> Pending(db[b])]]
ImplementsFrames == Abstract!FrameSpec

(* The frames read so far are a prefix of the reference parse of the bytes  *)
(* received, and between two socket messages all of it: no complete frame   *)
(* waits in a buffer for the next message to arrive.                        *)
FramesExact ==
    \A b \in Buffers :
        /\ IsPrefix(got[b], Frames(sent[b]))
        /\ busy # b => got[b] = Frames(sent[b])

(* dispatch_message's loop ends, whatever the stream: headers of zero and   *)
(* negative length included.                                                *)
LoopEnds == (busy # NoBuffer) ~> (busy = NoBuffer)
=============================================================================
