------------------------------ MODULE MCHashId ------------------------------
(* Instances of HashId for TLC: ids that share buckets (1, 17 and 33 are    *)
(* one bucket of 16; 2 and 18 another), and one more id than slots; and the *)
(* -1 of a failed connect.                                                  *)
EXTENDS HashId

MCIds == {1, 2, 17, 18, 33}
MCFailedConnectIds == {-1, 1, 15, 31}
=============================================================================
