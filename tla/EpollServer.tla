---------------------------- MODULE EpollServer ----------------------------
(***************************************************************************)
(* epoll_test/server.cpp: one thread waits for edge-triggered events and   *)
(* answers each with one accept or one read of at most MAXLINE bytes, on   *)
(* blocking sockets.  The clients and the kernel's sockets and epoll       *)
(* instance are external: what the server's calls rely on.                 *)
(***************************************************************************)
EXTENDS Integers, SequencesExt

CONSTANTS
    Clients,    \* connections that clients make
    Fds,        \* descriptors the process may have for them
    ListenQ,    \* LISTENQ
    MaxEvents,  \* the size of events
    MaxLine,    \* MAXLINE
    Window      \* bound: bytes of a connection that may wait to be read

Listen == -1    \* listenfd
None   == 0     \* no client
Failed == -2    \* a read that failed, with an error other than ECONNRESET

ASSUME FdsAssumption == Fds \subseteq Nat \ {0}
ASSUME ClientsAssumption == None \notin Clients
ASSUME SizesAssumption ==
    /\ ListenQ \in Nat /\ MaxEvents \in Nat \ {0} /\ MaxLine \in Nat \ {0} /\ Window \in Nat

VARIABLES
    status,     \* "starting", "up" or "exit"
    backlog,    \* connections to be accepted
    conn,       \* [at, unread, end, last, alone] of every connection
    fd,         \* the connection of every descriptor, None if it is closed
    ready,      \* epoll's list of descriptors that woke up
    batch       \* events still to be handled in the loop over nfds

vars == <<status, backlog, conn, fd, ready, batch>>

\* end is what the stream ended with; last and alone are history: what the
\* last read returned, -1 before the first, and whether nobody waited to be
\* accepted when the connection was made.
NewConn == [at |-> "new", unread |-> 0, end |-> "no", last |-> -1, alone |-> FALSE]

\* listenfd is registered before listen is called, and wakes up at once.
Init ==
    /\ status  = "starting"
    /\ backlog = <<>>
    /\ conn    = [c \in Clients |-> NewConn]
    /\ fd      = [f \in Fds |-> None]
    /\ ready   = <<Listen>>
    /\ batch   = <<>>

-----------------------------------------------------------------------------
(* The kernel.                                                              *)

Open == {f \in Fds : fd[f] # None}

HasInput(c) == conn[c].unread > 0 \/ conn[c].end # "no"

\* EPOLLIN as epoll_wait finds it when it looks at a descriptor again.
Pending(f) == IF f = Listen THEN backlog # <<>> ELSE HasInput(fd[f])

\* A descriptor that wakes up enters the ready list unless it is there.
Woken(q, f) == IF f \in Range(q) THEN q ELSE Append(q, f)

\* What is left of the list q when only the descriptors of S stay in it.
Keep(q, S) ==
    LET go[i \in 0 .. Len(q)] ==
          IF i = 0 THEN <<>>
          ELSE IF q[i] \in S THEN Append(go[i - 1], q[i]) ELSE go[i - 1]
    IN  go[Len(q)]

-----------------------------------------------------------------------------
(* Clients.                                                                 *)

\* The kernel queues one connection more than listen was told.
Connect(c) ==
    /\ status = "up" /\ conn[c].at = "new" /\ Len(backlog) <= ListenQ
    /\ conn'    = [conn EXCEPT ![c].at = "queued", ![c].alone = (backlog = <<>>)]
    /\ backlog' = Append(backlog, c)
    /\ ready'   = Woken(ready, Listen)
    /\ UNCHANGED <<status, fd, batch>>

\* Something arrives on connection c: its descriptor wakes up, if it has one.
Arrives(c) ==
    /\ status = "up" /\ conn[c].at \in {"queued", "open"} /\ conn[c].end = "no"
    /\ ready' = IF conn[c].at = "queued" THEN ready
                ELSE Woken(ready, CHOOSE f \in Open : fd[f] = c)
    /\ UNCHANGED <<status, backlog, fd, batch>>

Send(c, n) ==
    /\ Arrives(c)
    /\ conn' = [conn EXCEPT ![c].unread = @ + n]

\* The client closes its socket ("fin") or resets the connection ("rst"), or
\* the kernel gives the connection up with another error ("err").
End(c, how) ==
    /\ Arrives(c)
    /\ conn' = [conn EXCEPT ![c].end = how]

-----------------------------------------------------------------------------
(* The server.                                                              *)

\* bind and listen, or exit when one of them fails.
Start ==
    /\ status = "starting"
    /\ status' \in {"up", "exit"}
    /\ UNCHANGED <<backlog, conn, fd, ready, batch>>

\* What has input among the ready is reported, as much as events has room
\* for; an edge that is reported or found stale is gone from the list.
EpollWait ==
    /\ status = "up" /\ batch = <<>>
    /\ LET live == Keep(ready, {f \in Range(ready) : Pending(f)})
           n    == IF Len(live) < MaxEvents THEN Len(live) ELSE MaxEvents
       IN  /\ live # <<>>
           /\ batch' = SubSeq(live, 1, n)
           /\ ready' = SubSeq(live, n + 1, Len(live))
    /\ UNCHANGED <<status, backlog, conn, fd>>

Event(f) == status = "up" /\ batch # <<>> /\ Head(batch) = f

LowestFd == CHOOSE f \in Fds \ Open : \A g \in Fds \ Open : f <= g

\* Slip: the new descriptor is not registered for what it already holds.
AcceptForgetsAdd ==
    /\ Event(Listen) /\ backlog # <<>> /\ Open # Fds
    /\ batch'   = Tail(batch)
    /\ backlog' = Tail(backlog)
    /\ fd'      = [fd EXCEPT ![LowestFd] = Head(backlog)]
    /\ conn'    = [conn EXCEPT ![Head(backlog)].at = "open"]
    /\ UNCHANGED <<status, ready>>

\* Slip: accept is called again as if it returned when nobody waits.
AcceptAgain ==
    /\ Event(Listen) /\ backlog # <<>> /\ Open # Fds
    /\ backlog' = Tail(backlog)
    /\ fd'      = [fd EXCEPT ![LowestFd] = Head(backlog)]
    /\ conn'    = [conn EXCEPT ![Head(backlog)].at = "open"]
    /\ ready'   = IF HasInput(Head(backlog)) THEN Append(ready, LowestFd) ELSE ready
    /\ UNCHANGED <<status, batch>>

\* One accept, and EPOLL_CTL_ADD, which wakes a descriptor that has input.
Accept ==
    /\ Event(Listen) /\ backlog # <<>> /\ Open # Fds
    /\ batch'   = Tail(batch)
    /\ backlog' = Tail(backlog)
    /\ fd'      = [fd EXCEPT ![LowestFd] = Head(backlog)]
    /\ conn'    = [conn EXCEPT ![Head(backlog)].at = "open"]
    /\ ready'   = IF HasInput(Head(backlog)) THEN Append(ready, LowestFd) ELSE ready
    /\ UNCHANGED status

\* accept fails for want of a descriptor, or of memory in the kernel: exit(-1).
AcceptFails ==
    /\ Event(Listen) /\ backlog # <<>>
    /\ status' = "exit"
    /\ UNCHANGED <<backlog, conn, fd, ready, batch>>

\* Slip: a byte of line is kept for the newline.
TakenShort(n) == IF n < MaxLine THEN n ELSE MaxLine - 1

\* What one read takes from n bytes.
Taken(n) == IF n < MaxLine THEN n ELSE MaxLine

\* Slip: a read ends the loop over the events.
ReadBytesBreaks(f) ==
    /\ Event(f) /\ conn[fd[f]].unread > 0
    /\ batch' = <<>>
    /\ LET n == Taken(conn[fd[f]].unread) IN
       conn' = [conn EXCEPT ![fd[f]].unread = @ - n, ![fd[f]].last = n]
    /\ UNCHANGED <<status, backlog, fd, ready>>

\* One read that finds bytes.
ReadBytes(f) ==
    /\ Event(f) /\ conn[fd[f]].unread > 0
    /\ batch' = Tail(batch)
    /\ LET n == Taken(conn[fd[f]].unread) IN
       conn' = [conn EXCEPT ![fd[f]].unread = @ - n, ![fd[f]].last = n]
    /\ UNCHANGED <<status, backlog, fd, ready>>

\* One read that finds the end, or ECONNRESET: the descriptor is closed, and
\* with that leaves epoll.
ReadEnd(f) ==
    /\ Event(f) /\ conn[fd[f]].unread = 0 /\ conn[fd[f]].end \in {"fin", "rst"}
    /\ batch' = Tail(batch)
    /\ conn'  = [conn EXCEPT ![fd[f]].at = "closed", ![fd[f]].last = 0]
    /\ fd'    = [fd EXCEPT ![f] = None]
    /\ ready' = Keep(ready, Range(ready) \ {f})
    /\ UNCHANGED <<status, backlog>>

\* One read that fails otherwise, because the connection did or for a reason
\* of its own: a line is printed, and the descriptor stays open and registered.
ReadFails(f) ==
    /\ Event(f)
    /\ batch' = Tail(batch)
    /\ conn'  = [conn EXCEPT ![fd[f]].last = Failed]
    /\ UNCHANGED <<status, backlog, fd, ready>>

Server ==
    \/ Start \/ EpollWait \/ Accept \/ AcceptFails
    \/ \E f \in Fds : ReadBytes(f) \/ ReadEnd(f) \/ ReadFails(f)

Next ==
    \/ Server
    \/ \E c \in Clients :
         \/ Connect(c)
         \/ \E n \in 1 .. Window - conn[c].unread : Send(c, n)
         \/ \E how \in {"fin", "rst", "err"} : End(c, how)

Spec == Init /\ [][Next]_vars

\* The process is scheduled: the loop goes on whenever it can.
FairSpec == Spec /\ WF_vars(Server)

-----------------------------------------------------------------------------

TypeOK ==
    /\ status \in {"starting", "up", "exit"}
    /\ backlog \in Seq(Clients) /\ Len(backlog) <= ListenQ + 1
    /\ conn \in [Clients -> [at : {"new", "queued", "open", "closed"},
                             unread : 0 .. Window, end : {"no", "fin", "rst", "err"},
                             last : Failed .. MaxLine, alone : BOOLEAN]]
    /\ fd \in [Fds -> Clients \cup {None}]
    /\ ready \in Seq(Fds \cup {Listen}) /\ batch \in Seq(Fds \cup {Listen})

(* The server blocks nowhere but in epoll_wait, though its sockets are      *)
(* blocking: whatever has an event still has, when its turn in the batch    *)
(* comes, a connection to accept or something to read, and is still open.   *)
(* No descriptor is closed and opened again under a pending event.          *)
NeverBlocks ==
    /\ TypeOK
    /\ \A k \in 1 .. Len(batch) :
         /\ batch[k] \in Open \cup {Listen}
         /\ Pending(batch[k])

(* Where no read has failed, the one thing that leaves bytes on a           *)
(* connection without an event for them is a read that filled line, and the *)
(* one thing that leaves an ended connection open is a read that found      *)
(* bytes before the end.  A failed read leaves everything where it is.      *)
(* Bytes that arrive before the accept, between two events or during the    *)
(* loop are reported.                                                       *)
LeftBehind ==
    \A f \in Open :
        f \notin Range(ready) \cup Range(batch) /\ conn[fd[f]].last # Failed =>
            /\ conn[fd[f]].unread > 0 => conn[fd[f]].last = MaxLine
            /\ conn[fd[f]].end # "no" => conn[fd[f]].last > 0

(* A client that finds nobody waiting is accepted, however many events      *)
(* there are beside its own.  (One that finds another waiting may not be:   *)
(* the two make one edge, and the server calls accept once for it.)         *)
FirstAccepted ==
    \A c \in Clients :
        conn[c].at = "queued" /\ conn[c].alone
          ~> conn[c].at # "queued" \/ status = "exit"

(* Whatever a connected client sent is read, however its steps and the loop *)
(* interleave, unless a read fills line and leaves the rest, or fails: see  *)
(* LeftBehind.                                                              *)
InputRead ==
    \A c \in Clients :
        conn[c].at = "open" /\ conn[c].unread > 0 /\ conn[c].last \notin {MaxLine, Failed}
          ~> conn[c].unread = 0 \/ conn[c].last \in {MaxLine, Failed} \/ status = "exit"
=============================================================================
