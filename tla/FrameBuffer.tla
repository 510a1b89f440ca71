---------------------------- MODULE FrameBuffer ----------------------------
(***************************************************************************)
(* What a connection's receive buffer (gate/databuffer.h) promises: the    *)
(* bytes pushed come out in order, cut into frames.  The chunk list and    *)
(* the node pool are left out; module DataBuffer has them and is shown to  *)
(* implement this one.                                                     *)
(***************************************************************************)
EXTENDS Framing

CONSTANTS
    Chunks,         \* byte sequences a socket may deliver at once
    Buffers         \* the connections that own a buffer

VARIABLES
    fbuf,           \* fbuf[b] = [header, bytes] of buffer b
    sent,           \* history: every byte pushed into b since its last clear
    got             \* history: the frame bodies read from b since then

frameVars == <<fbuf, sent, got>>

FrameInit ==
    /\ fbuf = [b \in Buffers |-> BlankFrame]
    /\ sent = [b \in Buffers |-> <<>>]
    /\ got  = [b \in Buffers |-> <<>>]

FramePush(b, chunk) ==
    /\ fbuf' = [fbuf EXCEPT ![b].bytes = @ \o chunk]
    /\ sent' = [sent EXCEPT ![b] = @ \o chunk]
    /\ UNCHANGED got

FrameReadHeader(b) ==
    /\ fbuf' = [fbuf EXCEPT ![b] = AfterHeader(@)]
    /\ UNCHANGED <<sent, got>>

FrameReadBody(b) ==
    LET f == fbuf[b] IN
    /\ f.header > 0
    /\ Len(f.bytes) >= f.header
    /\ fbuf' = [fbuf EXCEPT ![b] = [header |-> 0, bytes |-> Drop(f.bytes, f.header)]]
    /\ got'  = [got EXCEPT ![b] = Append(@, Take(f.bytes, f.header))]
    /\ UNCHANGED sent

FrameClear(b) ==
    /\ fbuf' = [fbuf EXCEPT ![b] = BlankFrame]
    /\ sent' = [sent EXCEPT ![b] = <<>>]
    /\ got'  = [got EXCEPT ![b] = <<>>]

FrameNext ==
    \E b \in Buffers :
        \/ \E c \in Chunks : FramePush(b, c)
        \/ FrameReadHeader(b)
        \/ FrameReadBody(b)
        \/ FrameClear(b)

FrameSpec == FrameInit /\ [][FrameNext]_frameVars
=============================================================================
