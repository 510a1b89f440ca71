-------------------------------- MODULE Gate --------------------------------
(***************************************************************************)
(* The gate service (gate/service_gate.c): it owns the sockets of the      *)
(* clients, cuts their bytes into frames and hands the frames to a broker, *)
(* an agent or the watchdog.  It runs one handler at a time.  The skynet   *)
(* socket thread (external) runs beside it: the gate's socket calls reach  *)
(* it through the queue ctrl, its events come back through the queue mail. *)
(*                                                                         *)
(* A text command is handled in the step that sends it: nobody observes it *)
(* in the mailbox, so a command that waits between two events behaves as   *)
(* one that arrives between them.                                          *)
(***************************************************************************)
EXTENDS IdTable, Framing

CONSTANTS
    Chunks,         \* byte sequences a socket may deliver at once
    BigFrame,       \* 0x1000000: a frame this long closes the connection
    Watchdog,       \* handle given to gate_init, 0 for none
    Handles,        \* handles of agents and brokers
    Clients,        \* client handles that a forward command may name
    BindParms,      \* bindings gate_init may be given: "host:port", "port", "!"
    HostNumber,     \* what strtol reads at the start of the host part
    Commands,       \* the text commands that services send in this instance
    MaxCmds,        \* bound on the text commands sent
    MaxData         \* bound on the chunks received

ASSUME HandlesAssumption ==
    Handles \subseteq Nat \ {0} /\ Clients \subseteq Nat /\ Watchdog \in Nat
ASSUME ChunksAssumption == Chunks \subseteq Seq(0 .. Base - 1)
ASSUME BigFrameAssumption == BigFrame \in Nat
ASSUME BindAssumption ==
    BindParms \subseteq {"host:port", "port", "!"} /\ HostNumber \in Nat

VARIABLES
    status,         \* "created", "running", "failed", "released", "assert"
    listen_id,      \* g->listen_id
    broker,         \* g->broker, 0 for none
    bind,           \* g->bind: "" or an address as in BindParms, or "host"
    conn,           \* g->conn: [id, agent, client] of every slot
    buf,            \* g->conn[i].buffer, as in module Framing
    mail,           \* socket events waiting in the gate's mailbox
    ctrl,           \* requests waiting in the socket thread's pipe
    sock,           \* external: state of every socket id
    cmds, chunks,   \* how many commands and chunks there were
    log,            \* history: what the gate told other services of a socket
    stream,         \* history: bytes received from a socket
    assigned        \* history: the agent last named for a socket, 0 for none

gateVars == <<status, listen_id, broker, bind, conn, buf>>
netVars  == <<mail, ctrl, sock>>
histVars == <<log, stream, assigned>>
vars == <<tableVars, gateVars, netVars, histVars, cmds, chunks>>

BlankConn == [id |-> Nil, agent |-> 0, client |-> 0]

Init ==
    /\ TableInit
    /\ status = "created" /\ listen_id = Nil /\ broker = 0 /\ bind = ""
    /\ conn = [i \in Slots |-> BlankConn]
    /\ buf  = [i \in Slots |-> BlankFrame]
    /\ mail = <<>> /\ ctrl = <<>>
    /\ sock = [id \in Ids |-> "none"]
    /\ log = [id \in Ids |-> <<>>]
    /\ stream = [id \in Ids |-> <<>>]
    /\ assigned = [id \in Ids |-> 0]
    /\ cmds = 0 /\ chunks = 0

-----------------------------------------------------------------------------
(* The socket thread, as the gate uses it.  Ids are handed out once.        *)

Fresh(id) == sock[id] = "none" /\ \A j \in Ids : j < id => sock[j] # "none"

Request(op, id) == [op |-> op, id |-> id]
Event(t, id)    == [type |-> t, id |-> id]

\* An event reaches the gate only while it runs.
Post(e) == mail' = IF status = "running" THEN Append(mail, e) ELSE mail
Call(op, id) == ctrl' = Append(ctrl, Request(op, id))
Become(id, s) == sock' = [sock EXCEPT ![id] = s]

SockUnchanged ==
    UNCHANGED <<tableVars, gateVars, histVars, cmds>>

\* skynet_socket_start: opens what was accepted or is to listen; on an open
\* socket it is answered too, on a closed one with an error.
SockStart ==
    /\ ctrl # <<>> /\ Head(ctrl).op = "start"
    /\ ctrl' = Tail(ctrl)
    /\ LET id == Head(ctrl).id IN
       CASE sock[id] = "accepted"  -> Become(id, "open")   /\ Post(Event("connect", id))
         [] sock[id] = "bound"     -> Become(id, "listen") /\ Post(Event("connect", id))
         [] sock[id] = "open"      -> Post(Event("connect", id)) /\ UNCHANGED sock
         [] sock[id] = "closed"    -> Post(Event("error", id))   /\ UNCHANGED sock
         [] OTHER                  -> UNCHANGED <<mail, sock>>
    /\ UNCHANGED chunks /\ SockUnchanged

\* skynet_socket_close: answered with one close event; on a socket that is
\* closed already an answer may or may not come.
SockClose ==
    /\ ctrl # <<>> /\ Head(ctrl).op = "close"
    /\ ctrl' = Tail(ctrl)
    /\ LET id == Head(ctrl).id IN
         /\ Become(id, "closed")
         /\ \/ Post(Event("close", id))
            \/ sock[id] = "closed" /\ UNCHANGED mail
    /\ UNCHANGED chunks /\ SockUnchanged

\* skynet_socket_send: the bytes are queued on the socket, or dropped.
SockSend ==
    /\ ctrl # <<>> /\ Head(ctrl).op = "send"
    /\ ctrl' = Tail(ctrl)
    /\ UNCHANGED <<mail, sock, chunks>> /\ SockUnchanged

\* A client connects to a listening socket.
NewPeer(lid, id) ==
    /\ sock[lid] = "listen" /\ Fresh(id)
    /\ Become(id, "accepted")
    /\ Post([type |-> "accept", id |-> lid, ud |-> id])
    /\ UNCHANGED <<ctrl, chunks>> /\ SockUnchanged

\* A connection the gate asked for is made or refused.
Dialled(id) ==
    /\ sock[id] = "connecting"
    /\ \/ Become(id, "open")   /\ Post(Event("connect", id))
       \/ Become(id, "closed") /\ Post(Event("error", id))
    /\ UNCHANGED <<ctrl, chunks>> /\ SockUnchanged

PeerSends(id, c) ==
    /\ sock[id] = "open" /\ status = "running" /\ chunks < MaxData
    /\ Post([type |-> "data", id |-> id, bytes |-> c])
    /\ chunks' = chunks + 1
    /\ UNCHANGED <<ctrl, sock>> /\ SockUnchanged

PeerCloses(id) ==
    /\ sock[id] = "open"
    /\ Become(id, "closed")
    /\ \E t \in {"close", "error"} : Post(Event(t, id))
    /\ UNCHANGED <<ctrl, chunks>> /\ SockUnchanged

-----------------------------------------------------------------------------
(* What the gate tells other services about socket id.                      *)

Tell(id, note) == log' = [log EXCEPT ![id] = Append(@, note)]

\* _report: text to the watchdog, if there is one.
Report(id, what) ==
    IF Watchdog = 0 THEN UNCHANGED log
    ELSE Tell(id, [what |-> what, to |-> Watchdog])

\* start_listen on an address; portstr[0] = '\0' cuts the text it is given.
ListenPort(a)   == CASE a \in {"host:port", "port"} -> 1
                     [] a = "host" -> HostNumber
                     [] OTHER -> 0
CutAddress(a)   == IF a = "host:port" THEN "host" ELSE a

start_listen(a) ==
    IF ListenPort(a) <= 0
    THEN UNCHANGED <<listen_id, ctrl, sock>>
    ELSE \/ \E id \in Ids :
              /\ Fresh(id)
              /\ listen_id' = id
              /\ Become(id, "bound")
              /\ Call("start", id)
         \/ \* skynet_socket_listen fails
            /\ listen_id' = Nil
            /\ UNCHANGED <<ctrl, sock>>

\* gate_init: a listening failure fails the service.
gate_init(parm) ==
    /\ status = "created"
    /\ \/ /\ parm = "!"
          /\ status' = "running"
          /\ UNCHANGED <<listen_id, bind, ctrl, sock>>
       \/ /\ parm # "!"
          /\ bind' = parm
          /\ start_listen(parm)
          /\ status' = IF listen_id' = Nil THEN "failed" ELSE "running"
    /\ UNCHANGED <<tableVars, broker, conn, buf, mail, histVars, cmds, chunks>>

-----------------------------------------------------------------------------
(* dispatch_message: the frames of one connection.                          *)

HasReader(c) == broker # 0 \/ c.agent # 0 \/ Watchdog # 0

\* _forward's choice of receiver, and the sender it names to an agent.
Reader(c) ==
    IF broker # 0 THEN broker ELSE IF c.agent # 0 THEN c.agent ELSE Watchdog
DataNote(c, body) ==
    [what |-> "data", to |-> Reader(c), body |-> body,
     from |-> IF broker = 0 /\ c.agent # 0 THEN c.client ELSE 0]

\* The loop of dispatch_message from buffer f on: the buffer it leaves, the
\* notes it sends, and whether a frame was too long.  With nobody to send to,
\* _forward leaves the body in the buffer.
Drain(c, f0) ==
    LET go[f \in [header : Int, bytes : Seq(Int)]] ==
          LET size == HeaderResult(f)
              a    == AfterHeader(f)
          IN  IF size < 0 THEN [buf |-> a, notes |-> <<>>, big |-> FALSE]
              ELSE IF size = 0 THEN go[a]
              ELSE IF size >= BigFrame
                   THEN [buf |-> BlankFrame, notes |-> <<>>, big |-> TRUE]
              ELSE IF HasReader(c)
                   THEN LET r == go[[header |-> 0, bytes |-> Drop(a.bytes, size)]]
                        IN  [r EXCEPT !.notes =
                               <<DataNote(c, Take(a.bytes, size))>> \o @]
              ELSE go[[a EXCEPT !.header = 0]]
    IN  go[f0]

-----------------------------------------------------------------------------
(* dispatch_socket_message: one action per kind of event at the head.       *)

Handle(t) ==
    /\ status = "running" /\ mail # <<>> /\ Head(mail).type = t
    /\ mail' = Tail(mail)
    /\ UNCHANGED <<sock, broker, bind, cmds, chunks>>

OnData ==
    /\ Handle("data")
    /\ LET m == Head(mail)
           i == Lookup(m.id)
       IN  IF i = Nil
           THEN Call("close", m.id) /\ UNCHANGED <<buf, log, stream>>
           ELSE LET d == Drain(conn[i], [buf[i] EXCEPT !.bytes = @ \o m.bytes])
                IN  /\ buf' = [buf EXCEPT ![i] = d.buf]
                    /\ log' = [log EXCEPT ![m.id] = @ \o d.notes]
                    /\ stream' = [stream EXCEPT ![m.id] = @ \o m.bytes]
                    /\ IF d.big THEN Call("close", m.id) ELSE UNCHANGED ctrl
    /\ UNCHANGED <<tableVars, status, listen_id, conn, assigned>>

\* Slip: without a listener, every connection is taken for the listener's.
OnConnectSilent ==
    /\ Handle("connect")
    /\ UNCHANGED <<tableVars, status, listen_id, conn, buf, ctrl, histVars>>

OnConnect ==
    /\ Handle("connect")
    /\ LET m == Head(mail)
           i == Lookup(m.id)
       IN  IF m.id = listen_id THEN UNCHANGED <<ctrl, log>>
           ELSE IF i = Nil THEN Call("close", m.id) /\ UNCHANGED log
           ELSE \* a text to agent 0 is refused by skynet_send
                /\ IF conn[i].agent = 0 THEN UNCHANGED log
                   ELSE Tell(m.id, [what |-> "connected", to |-> conn[i].agent])
                /\ UNCHANGED ctrl
    /\ UNCHANGED <<tableVars, status, listen_id, conn, buf, stream, assigned>>

\* Slips: the memset of the slot, or the lookup's test, is missing.
ForgetKeepsAgent(id) ==
    IF Lookup(id) = Nil THEN UNCHANGED <<conn, buf, log>>
    ELSE /\ conn' = [conn EXCEPT ![Lookup(id)] = [@ EXCEPT !.id = Nil]]
         /\ buf'  = [buf EXCEPT ![Lookup(id)] = BlankFrame]
         /\ Report(id, "close")

ForgetReportsAll(id) ==
    /\ Report(id, "close")
    /\ IF Lookup(id) = Nil THEN UNCHANGED <<conn, buf>>
       ELSE /\ conn' = [conn EXCEPT ![Lookup(id)] = BlankConn]
            /\ buf'  = [buf EXCEPT ![Lookup(id)] = BlankFrame]

\* SKYNET_SOCKET_TYPE_CLOSE and SKYNET_SOCKET_TYPE_ERROR share their code.
Forget(id) ==
    IF Lookup(id) = Nil THEN UNCHANGED <<conn, buf, log>>
    ELSE /\ conn' = [conn EXCEPT ![Lookup(id)] = BlankConn]
         /\ buf'  = [buf EXCEPT ![Lookup(id)] = BlankFrame]
         /\ Report(id, "close")

\* Slip: an error event is only reported, not treated as a close.
OnCloseOnly ==
    \/ /\ Handle("error")
       /\ UNCHANGED <<tableVars, status, listen_id, conn, buf, ctrl, histVars>>
    \/ /\ Handle("close")
       /\ RemoveId(Head(mail).id)
       /\ Forget(Head(mail).id)
       /\ UNCHANGED <<status, listen_id, ctrl, stream, assigned>>

OnClose ==
    /\ Handle("close") \/ Handle("error")
    /\ RemoveId(Head(mail).id)
    /\ Forget(Head(mail).id)
    /\ UNCHANGED <<status, listen_id, ctrl, stream, assigned>>

OnAccept ==
    /\ Handle("accept")
    /\ LET m == Head(mail) IN
       IF listen_id # m.id
       THEN \* assert(g->listen_id == message->id)
            /\ status' = "assert"
            /\ UNCHANGED <<tableVars, conn, ctrl, log>>
       ELSE IF Full
       THEN Call("close", m.ud) /\ UNCHANGED <<tableVars, status, conn, log>>
       ELSE /\ InsertId(m.ud)
            /\ conn' = [conn EXCEPT ![FirstFree(m.ud)].id = m.ud]
            /\ Report(m.ud, "accept")
            /\ UNCHANGED <<status, ctrl>>
    /\ UNCHANGED <<listen_id, buf, stream, assigned>>

-----------------------------------------------------------------------------
(* _ctrl: one action per text command.  Ids in commands are arbitrary.      *)

Command(name) ==
    /\ status = "running" /\ name \in Commands /\ cmds < MaxCmds
    /\ cmds' = cmds + 1
    /\ UNCHANGED <<status, buf, mail, chunks, stream>>

\* Slip: the entry is dropped at once, not when the close event comes.
KickForgets(id) ==
    /\ Command("kick") /\ Lookup(id) # Nil
    /\ RemoveId(id)
    /\ conn' = [conn EXCEPT ![Lookup(id)] = BlankConn]
    /\ Call("close", id)
    /\ UNCHANGED <<listen_id, broker, bind, sock, log, assigned>>

Kick(id) ==
    /\ Command("kick") /\ Lookup(id) # Nil
    /\ Call("close", id)
    /\ UNCHANGED <<tableVars, listen_id, broker, bind, conn, sock,
                   log, assigned>>

Start(id) ==
    /\ Command("start") /\ Lookup(id) # Nil
    /\ Call("start", id)
    /\ UNCHANGED <<tableVars, listen_id, broker, bind, conn, sock,
                   log, assigned>>

Forward(id, agent, client) ==
    /\ Command("forward") /\ Lookup(id) # Nil
    /\ conn' = [conn EXCEPT ![Lookup(id)] =
                   [@ EXCEPT !.agent = agent, !.client = client]]
    /\ assigned' = [assigned EXCEPT ![id] = agent]
    /\ UNCHANGED <<tableVars, listen_id, broker, bind, ctrl, sock, log>>

\* skynet_queryname gives a handle, or 0 for a name nobody has.
Broker(h) ==
    /\ Command("broker")
    /\ broker' = h
    /\ UNCHANGED <<tableVars, listen_id, bind, conn, ctrl, sock, log,
                   assigned>>

CloseListen ==
    /\ Command("close") /\ listen_id # Nil
    /\ Call("close", listen_id)
    /\ listen_id' = Nil
    /\ UNCHANGED <<tableVars, broker, bind, conn, sock, log, assigned>>

\* connect: the entry is made at once; c->id is not set.  What hashid_insert
\* does with the -1 of a failed skynet_socket_connect is in module HashId.
Connect(source, id) ==
    /\ Command("connect") /\ ~Full /\ Fresh(id)
    /\ Become(id, "connecting")
    /\ InsertId(id)
    /\ conn' = [conn EXCEPT ![FirstFree(id)] =
                   [@ EXCEPT !.agent = source, !.client = 0]]
    /\ assigned' = [assigned EXCEPT ![id] = source]
    /\ UNCHANGED <<listen_id, broker, bind, ctrl, log>>

Listen ==
    /\ Command("listen")
    /\ start_listen(bind)
    /\ bind' = IF ListenPort(bind) <= 0 THEN bind ELSE CutAddress(bind)
    /\ UNCHANGED <<tableVars, broker, conn, log, assigned>>

\* PTYPE_CLIENT: a service answers the client whose id ends its message.
ClientMessage(id) ==
    /\ Command("client") /\ Lookup(id) # Nil
    /\ Call("send", id)
    /\ UNCHANGED <<tableVars, listen_id, broker, bind, conn, sock,
                   log, assigned>>

\* gate_release: close requests for the connections with an id, in the order
\* of their slots, then for the listener.  The mailbox goes with the service.
NamedButFirst == {i \in Slots : i > 0 /\ conn[i].id >= 0}    \* slip
Named == {i \in Slots : conn[i].id >= 0}

gate_release ==
    /\ status \in {"running", "failed"}
    /\ status' = "released"
    /\ \E n \in 0 .. Cap : \E q \in [1 .. n -> Named] :
         /\ \A i \in Named : \E k \in 1 .. n : q[k] = i
         /\ \A j, k \in 1 .. n : j < k => q[j] < q[k]
         /\ ctrl' = ctrl \o [k \in 1 .. n |-> Request("close", conn[q[k]].id)]
                        \o (IF listen_id = Nil THEN <<>>
                            ELSE <<Request("close", listen_id)>>)
    /\ ClearIds
    /\ conn' = [i \in Slots |-> BlankConn]
    /\ buf'  = [i \in Slots |-> BlankFrame]
    /\ mail' = <<>>
    /\ UNCHANGED <<listen_id, broker, bind, sock, histVars, cmds, chunks>>

-----------------------------------------------------------------------------

GateStep  == OnData \/ OnConnect \/ OnClose \/ OnAccept
SockStep  == SockStart \/ SockClose \/ SockSend

TextCommand ==
    \/ \E id \in Ids : Kick(id) \/ Start(id) \/ ClientMessage(id)
    \/ \E id \in Ids, agent \in Handles \cup {0}, client \in Clients :
         Forward(id, agent, client)
    \/ \E h \in Handles \cup {0} : Broker(h)
    \/ \E source \in Handles, id \in Ids : Connect(source, id)
    \/ CloseListen
    \/ Listen

Peer ==
    \/ \E lid, id \in Ids : NewPeer(lid, id)
    \/ \E id \in Ids, c \in Chunks : PeerSends(id, c)
    \/ \E id \in Ids : PeerCloses(id)

Next ==
    \/ status # "assert" /\ (SockStep \/ Peer \/ \E id \in Ids : Dialled(id))
    \/ GateStep
    \/ TextCommand
    \/ \E parm \in BindParms : gate_init(parm)
    \/ gate_release

Spec == Init /\ [][Next]_vars

\* The worker threads dispatch every mailbox, the socket thread serves its
\* pipe, and a connection attempt ends.
FairSpec ==
    /\ Spec
    /\ WF_vars(GateStep)
    /\ WF_vars(status # "assert" /\ SockStep)
    /\ \A id \in Ids : WF_vars(status # "assert" /\ Dialled(id))

-----------------------------------------------------------------------------

EventType ==
    [type : {"connect", "close", "error"}, id : Ids]
      \cup [type : {"accept"}, id : Ids, ud : Ids]
      \cup [type : {"data"}, id : Ids, bytes : Chunks]

RequestType == [op : {"start", "close", "send"}, id : Ids]
ConnType    == [id : Ids \cup {Nil}, agent : Handles \cup {0},
                client : Clients \cup {0}]
SockStates  == {"none", "bound", "listen", "accepted", "connecting", "open",
                "closed"}

TypeOK ==
    /\ TableTypeOK
    /\ status \in {"created", "running", "failed", "released", "assert"}
    /\ listen_id \in Ids \cup {Nil}
    /\ broker \in Handles \cup {0}
    /\ bind \in {"", "host:port", "port", "host"}
    /\ conn \in [Slots -> ConnType]
    /\ DOMAIN buf = Slots
    /\ mail \in Seq(EventType)
    /\ ctrl \in Seq(RequestType)
    /\ sock \in [Ids -> SockStates]
    /\ assigned \in [Ids -> Handles \cup {0}]

(* A slot that is not in use carries nothing of its last connection: no id, *)
(* no agent, no unread bytes.  OnAccept and Connect set only some fields of *)
(* the slot they take, so what is left there would become the new client's. *)
SlotsClean ==
    \A i \in Slots : slot[i] = Nil => conn[i] = BlankConn /\ buf[i] = BlankFrame

(* conn[i].id, which gate_release closes and the watchdog is told, is the   *)
(* id the table has for slot i, or -1.                                      *)
ConnMatchesTable ==
    \A i \in Slots : conn[i].id # Nil => conn[i].id = slot[i]

(* An accept event names a socket that is not in the table and that no      *)
(* other accept event names: hashid_insert never makes a second entry.      *)
AcceptsFresh ==
    \A j \in 1 .. Len(mail) : mail[j].type = "accept" =>
        /\ sock[mail[j].ud] # "none"
        /\ \A i \in Slots : slot[i] # mail[j].ud
        /\ \A k \in 1 .. Len(mail) :
             mail[k].type = "accept" /\ mail[k].ud = mail[j].ud => k = j

\* A socket with an entry has been opened: no later socket gets its id.
KnownSockets == \A i \in Slots : slot[i] # Nil => sock[slot[i]] # "none"

(* The inductive invariant: the table, the connection array, the mailbox    *)
(* and the socket thread agree on which socket lives in which slot.         *)
GateInv ==
    /\ TypeOK
    /\ TableInv
    /\ SlotsClean
    /\ ConnMatchesTable
    /\ KnownSockets
    /\ AcceptsFresh

(* Data never arrives for a socket without an entry: the branch of OnData   *)
(* that closes unknown sockets is not taken, although entries come and go   *)
(* with other events of the same mailbox.                                   *)
NoUnknownData ==
    \A k \in 1 .. Len(mail) : mail[k].type = "data" =>
        \/ Lookup(mail[k].id) # Nil
        \/ status # "running"

(* An entry whose socket is gone has its close or error event on the way:   *)
(* no slot is lost for good, whoever closed the socket and however often.   *)
DeadEntriesLeave ==
    \A id \in LiveIds : sock[id] = "closed" =>
        \E k \in 1 .. Len(mail) :
            mail[k].type \in {"close", "error"} /\ mail[k].id = id

Noted(id, what) == \E k \in 1 .. Len(log[id]) : log[id][k].what = what

(* Of every accepted socket the watchdog hears "accept" first, then what    *)
(* the socket does, then "close" once and nothing after it; and a socket it *)
(* believes open has an entry.                                              *)
WatchdogView ==
    \A id \in Ids :
        /\ \A k \in 1 .. Len(log[id]) :
             /\ log[id][k].what = "accept" => k = 1
             /\ log[id][k].what = "close"  => k = Len(log[id])
        /\ status = "running" /\ Noted(id, "accept") /\ ~Noted(id, "close")
             => id \in LiveIds

\* The bodies of the frames among notes.
BodiesOf(notes) ==
    LET b[k \in 0 .. Len(notes)] ==
          IF k = 0 THEN <<>>
          ELSE IF notes[k].what = "data" THEN Append(b[k - 1], notes[k].body) ELSE b[k - 1]
    IN  b[Len(notes)]

Bodies(id) == BodiesOf(log[id])

\* The frames before the first one that is too long.
Acceptable(s) ==
    LET fs  == Frames(s)
        big == {k \in 1 .. Len(fs) : Len(fs[k]) >= BigFrame}
    IN  IF big = {} THEN fs
        ELSE Take(fs, (CHOOSE k \in big : \A j \in big : k <= j) - 1)

(* The frames handed on are those of the client's byte stream, complete and *)
(* in order, however the stream was cut and although the receiver may have  *)
(* changed in between, up to a frame that is too long.                      *)
FramesIntact ==
    \A id \in Ids :
        /\ IsPrefix(Acceptable(stream[id]), Bodies(id))
        /\ Acceptable(stream[id]) = Frames(stream[id])
             => Bodies(id) = Frames(stream[id])

(* A frame goes to the broker, else to the agent last named for this very   *)
(* socket, else to the watchdog; never to the agent of an earlier user of   *)
(* the slot.                                                                *)
RoutedToAssigned ==
    [][\A id \in Ids : \A k \in Len(log[id]) + 1 .. Len(log'[id]) :
         log'[id][k].what = "data" =>
           log'[id][k].to = IF broker # 0 THEN broker
                            ELSE IF assigned[id] # 0 THEN assigned[id]
                            ELSE Watchdog]_vars

(* assert(g->listen_id == message->id), service_gate.c:405.                 *)
AcceptAssertHolds == status # "assert"

(* After gate_release, once the socket thread has served its pipe, every    *)
(* socket whose accept the gate handled is closed, and so is its listener.  *)
ReleaseCloses ==
    status = "released" /\ ctrl = <<>> =>
        \A id \in Ids : Noted(id, "accept") \/ id = listen_id => sock[id] = "closed"

Closing(id) == \E k \in 1 .. Len(ctrl) : ctrl[k] = Request("close", id)

(* A connection that is kicked, or sends a frame that is too long, is gone  *)
(* from the table in the end.                                               *)
ClosedIsForgotten ==
    \A id \in Ids : Closing(id) ~> (id \notin LiveIds \/ status # "running")

(* A service that asked for a connection hears "connected", unless it was    *)
(* relieved of the socket, or the entry is gone.                            *)
ConnectAnswered ==
    \A id \in Ids :
        sock[id] = "connecting" /\ status = "running" ~>
            \/ Noted(id, "connected")
            \/ assigned[id] = 0
            \/ id \notin LiveIds
            \/ status # "running"
=============================================================================
