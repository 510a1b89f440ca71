---------------------------- MODULE MCDataBuffer ----------------------------
(* Two-byte headers over four byte values: lengths 0 .. 7 and -8 .. -1.      *)
(* The chunks cut headers and bodies anywhere, and join frames.              *)
EXTENDS DataBuffer

MCChunks ==
    { <<0>>, <<2>>,             \* single bytes: cuts of headers and bodies
      <<0, 0, 0>>,              \* an empty frame and half a header
      <<0, 3, 3>>,              \* the start of a frame that is too long
      <<0, 1, 2, 0, 1, 3>> }    \* two whole frames
=============================================================================
