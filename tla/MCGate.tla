------------------------------- MODULE MCGate -------------------------------
(* Instances of Gate for TLC.  One-byte headers over eight byte values:      *)
(* lengths 0 .. 3, and 4 .. 7 stand for the negative ones.  Socket 1 is the  *)
(* first listener.                                                           *)
EXTENDS Gate

MCIds3 == 1 .. 3

\* Half a frame, its other half with the next frame, a frame that is too long.
MCChunks == { <<2, 5>>, <<6, 1, 7>>, <<3, 1, 1, 1>> }
MCFewChunks == { <<1, 5>> }
MCLongChunks == { <<3, 1, 1, 1>> }

MCRouting   == {"kick", "start", "forward", "broker", "client", "listen"}
MCLifecycle == {"kick", "start", "forward", "connect", "close"}
=============================================================================
