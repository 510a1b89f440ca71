--------------------------- MODULE MCEpollServer ---------------------------
(* Instances of EpollServer: two connections at once, or one after the       *)
(* other on the same descriptor.                                             *)
EXTENDS EpollServer

TwoFds == {5, 6}
=============================================================================
