------------------------------ MODULE Framing ------------------------------
(***************************************************************************)
(* Length-prefixed frames in a byte stream, as the gate reads them: the    *)
(* header value, one step of the header state of a buffer [header, bytes], *)
(* and the reference parse of a whole stream.                              *)
(***************************************************************************)
EXTENDS Integers, SequencesExt

CONSTANTS
    HeaderSize,     \* header_size: bytes in a length prefix (4 in the gate)
    Base            \* number of byte values (256 in the code)

ASSUME HeaderSizeAssumption == HeaderSize \in Nat \ {0}
ASSUME BaseAssumption == Base \in Nat /\ Base > 1
\* What a power is, which the provers lack.
ASSUME PowerAssumption ==
    Base ^ 0 = 1 /\ \A k \in 0 .. HeaderSize - 1 : Base ^ (k + 1) = Base ^ k * Base

Take(s, n) == SubSeq(s, 1, n)
Drop(s, n) == SubSeq(s, n + 1, Len(s))

\* A big-endian header that fills an int: half of the values are negative.
HeaderValue(s) ==
    LET v[k \in 0 .. HeaderSize] == IF k = 0 THEN 0 ELSE v[k - 1] * Base + s[k]
        m == Base ^ HeaderSize
    IN  IF v[HeaderSize] >= m \div 2 THEN v[HeaderSize] - m ELSE v[HeaderSize]

BlankFrame == [header |-> 0, bytes |-> <<>>]

\* The buffer that databuffer_readheader leaves behind, and what it returns.
AfterHeaderPeeks(f) ==          \* slip: the header stays in the buffer
    IF f.header = 0 /\ Len(f.bytes) >= HeaderSize
    THEN [header |-> HeaderValue(Take(f.bytes, HeaderSize)), bytes |-> f.bytes]
    ELSE f

AfterHeader(f) ==
    IF f.header = 0 /\ Len(f.bytes) >= HeaderSize
    THEN [header |-> HeaderValue(Take(f.bytes, HeaderSize)),
          bytes  |-> Drop(f.bytes, HeaderSize)]
    ELSE f

HeaderResult(f) ==
    LET a == AfterHeader(f) IN
    IF \/ f.header = 0 /\ Len(f.bytes) < HeaderSize
       \/ Len(a.bytes) < a.header
    THEN -1
    ELSE a.header

(* Reference: the non-empty frame bodies of a byte stream, in order.  A     *)
(* negative length ends the parse, as it does in dispatch_message.          *)
Frames(s) ==
    LET parse[n \in Nat] ==     \* the bodies found from offset n on
          LET size == HeaderValue(SubSeq(s, n + 1, n + HeaderSize))
              body == n + HeaderSize
          IN  IF body > Len(s) THEN <<>>
              ELSE IF size < 0 \/ body + size > Len(s) THEN <<>>
              ELSE (IF size = 0 THEN <<>> ELSE <<SubSeq(s, body + 1, body + size)>>)
                     \o parse[body + size]
    IN  parse[0]
=============================================================================
