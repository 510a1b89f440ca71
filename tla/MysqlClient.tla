---------------------------- MODULE MysqlClient ----------------------------
(***************************************************************************)
(* mysql_api_test/MysqlClient: a client that pings before every call and   *)
(* opens a new connection when the ping fails.  One thread calls it; the   *)
(* connection may break between any two of its exchanges with the server,  *)
(* so every call is cut at them.  libmysqlclient and the server are        *)
(* external.                                                               *)
(***************************************************************************)
EXTENDS Integers, FiniteSets

CONSTANTS
    Handles,    \* the memory there is for MYSQL structures
    MaxStmts,   \* bound: statements executed
    MaxOthers   \* bound: rows inserted by other clients

Nil == 0

ASSUME HandlesAssumption == Handles \subseteq Nat \ {Nil}
ASSUME BoundsAssumption  == MaxStmts \in Nat /\ MaxOthers \in Nat

VARIABLES
    ctx,        \* m_mysql_ctx
    mem,        \* MYSQL structures not closed
    link,       \* the connection of every structure
    pc,         \* the call under way: [at, call, kind]
    issued,     \* statements so far; a statement is its number
    ran,        \* history: how often the server ran each
    told,       \* history: what mysql_exec returned for each
    result,     \* the caller's MysqlResult
    row,        \* its MysqlRow
    rowId,      \* the table's AUTO_INCREMENT counter
    others,     \* rows other clients inserted
    lastMine,   \* history: id of the last row this client inserted
    answer      \* history: what the last get_insert_id returned

conns  == <<ctx, mem, link>>
reads  == <<result, row>>
table  == <<rowId, others, lastMine>>
record == <<issued, ran, told>>
clientVars == <<conns, pc, record, reads, table, answer>>

\* ready is the statement whose rows mysql_store_result would fetch, or Nil;
\* more, that a further result of the same text follows it; lastId, the
\* server's @@IDENTITY of this session; value, what a select of it gave.
Link(up, ready, more, lastId, value) ==
    [up |-> up, ready |-> ready, more |-> more, lastId |-> lastId, value |-> value]
Broken  == Link(FALSE, Nil, FALSE, 0, 0)
Session == Link(TRUE, Nil, FALSE, 0, 0)

Idle     == [at |-> "idle", call |-> "none", kind |-> "none"]
NoResult == [live |-> FALSE, of |-> Nil, left |-> 0, asked |-> 0]
NoRow    == [ok |-> FALSE, of |-> Nil]

Stmts == 1 .. MaxStmts
Kinds == {"insert", "select", "multi", "bad"}

ClientInit ==
    /\ ctx = Nil /\ mem = {} /\ link = [h \in Handles |-> Broken]
    /\ pc = Idle /\ issued = 0
    /\ ran = [s \in Stmts |-> 0] /\ told = [s \in Stmts |-> "none"]
    /\ result = NoResult /\ row = NoRow
    /\ rowId = 0 /\ others = 0 /\ lastMine = 0 /\ answer = -1

-----------------------------------------------------------------------------
(* libmysqlclient.                                                          *)

\* A command is refused while a result waits: "commands out of sync".
InSync(h) == link[h].ready = Nil /\ ~link[h].more

\* The structures on which mysql_ping returns 0.
Usable == {h \in mem : link[h].up /\ InSync(h)}

\* The connection breaks: the server goes, or a timeout of 20 seconds passes.
\* Rows that arrived before can still be fetched, others are lost.
Breaks(h) ==
    /\ h \in mem /\ link[h].up
    /\ \E kept \in {Broken, Link(FALSE, link[h].ready, link[h].more, 0, link[h].value)} :
         link' = [link EXCEPT ![h] = kept]
    /\ UNCHANGED <<ctx, mem, pc, record, reads, table, answer>>

OtherInserts ==
    /\ others < MaxOthers
    /\ others' = others + 1 /\ rowId' = rowId + 1
    /\ UNCHANGED <<conns, pc, record, reads, lastMine, answer>>

-----------------------------------------------------------------------------
(* mysql_reconnect and what it does before each call.                       *)

MustInitNull == ctx = Nil       \* slip: a connection is taken to last
MustInit == ctx \notin Usable

\* The call under way goes on.
GoOn(place) == [at |-> place, call |-> pc.call, kind |-> pc.kind]

\* mysql_exec and get_insert_id, and the number of the statement they run.
Begin(call, kind) ==
    /\ pc = Idle /\ issued < MaxStmts
    /\ pc' = [at |-> IF MustInit THEN "init" ELSE "run", call |-> call, kind |-> kind]
    /\ issued' = issued + 1
    /\ UNCHANGED <<conns, ran, told, reads, table, answer>>

mysql_exec(kind) == Begin("exec", kind)
get_insert_id    == Begin("id", "identity")

\* mysql_last_affected_rows: the number it returns is the library's.
mysql_last_affected_rows ==
    /\ pc = Idle /\ MustInit
    /\ pc' = [at |-> "init", call |-> "rows", kind |-> "none"]
    /\ UNCHANGED <<conns, record, reads, table, answer>>

\* mysql_connect; an address without a colon changes nothing.
mysql_connect ==
    /\ pc = Idle
    /\ pc' = [at |-> "init", call |-> "connect", kind |-> "none"]
    /\ UNCHANGED <<conns, record, reads, table, answer>>

Fresh == Handles \ (mem \ {ctx})

\* Slip: the old structure is not closed.
InitLeaks ==
    /\ pc.at = "init"
    /\ \E h \in Handles \ mem :
         /\ mem' = mem \cup {h} /\ ctx' = h /\ link' = [link EXCEPT ![h] = Session]
    /\ pc' = IF pc.call \in {"exec", "id"} THEN GoOn("run") ELSE Idle
    /\ UNCHANGED <<record, reads, table, answer>>

\* Close the old structure and connect a new one.  When mysql_real_connect
\* fails its NULL replaces the pointer to the structure, which stays.
init_mysql_ctx ==
    /\ pc.at = "init"
    /\ \/ /\ mem' = mem \ {ctx} /\ ctx' = Nil       \* mysql_init fails
          /\ UNCHANGED link
       \/ \E h \in Fresh :
            /\ mem' = (mem \ {ctx}) \cup {h}
            /\ \/ ctx' = Nil /\ link' = [link EXCEPT ![h] = Broken]
               \/ ctx' = h /\ link' = [link EXCEPT ![h] = Session]
    /\ pc' = IF pc.call \in {"exec", "id"} THEN GoOn("run") ELSE Idle
    /\ UNCHANGED <<record, reads, table, answer>>

-----------------------------------------------------------------------------
(* The second half of mysql_exec.                                           *)

\* mysql_exec returns: to its caller, or to get_insert_id, which does not
\* look at what it returned.
Return(what) ==
    /\ told' = [told EXCEPT ![issued] = what]
    /\ pc' = IF pc.call = "id" THEN GoOn("fetch") ELSE Idle

\* No connection, one that broke or is out of sync, or an error in the
\* statement: the server runs nothing.
QueryFails ==
    /\ pc.at = "run"
    /\ ctx \notin Usable \/ pc.kind = "bad"
    /\ Return("false")
    /\ UNCHANGED <<conns, issued, ran, reads, table, answer>>

\* What running statement issued leaves on the session.
AfterQuery ==
    Link(TRUE,
         IF pc.kind = "insert" THEN Nil ELSE issued,
         pc.kind = "multi",
         IF pc.kind = "insert" THEN rowId + 1 ELSE link[ctx].lastId,
         IF pc.kind = "identity" THEN link[ctx].lastId ELSE 0)

\* Slip: a statement whose answer was lost is sent again.
QueryRetries ==
    /\ pc.at = "run" /\ ctx \in Usable /\ pc.kind # "bad"
    /\ ran' = [ran EXCEPT ![issued] = @ + 2]
    /\ Return("true")
    /\ UNCHANGED <<conns, issued, reads, table, answer>>

\* The server runs the statement; its answer arrives, or the connection
\* breaks first and mysql_exec returns false.
Query ==
    /\ pc.at = "run" /\ ctx \in Usable /\ pc.kind # "bad"
    /\ ran' = [ran EXCEPT ![issued] = @ + 1]
    /\ IF pc.kind = "insert" THEN rowId' = rowId + 1 /\ lastMine' = rowId + 1
                             ELSE UNCHANGED <<rowId, lastMine>>
    /\ \/ link' = [link EXCEPT ![ctx] = AfterQuery] /\ Return("true")
       \/ link' = [link EXCEPT ![ctx] = Broken] /\ Return("false")
    /\ UNCHANGED <<ctx, mem, issued, reads, others, answer>>

-----------------------------------------------------------------------------
(* Results.                                                                 *)

\* The statement whose rows mysql_store_result fetches from handle().
Stored == IF ctx = Nil THEN Nil ELSE link[ctx].ready

AfterFetch ==
    IF ctx = Nil THEN link
    ELSE LET k == link[ctx] IN
         [link EXCEPT ![ctx] = Link(k.up, Nil, k.more, k.lastId, k.value)]

\* Slip: the id is that of the table's newest row, whoever inserted it.
FetchStale ==
    /\ pc.at = "fetch" /\ pc' = Idle
    /\ answer' = rowId
    /\ UNCHANGED <<conns, record, reads, table>>

\* The rest of get_insert_id: a result and a row of its own.
FetchId ==
    /\ pc.at = "fetch" /\ pc' = Idle
    /\ answer' = IF Stored = Nil THEN -1 ELSE link[ctx].value
    /\ link' = AfterFetch
    /\ UNCHANGED <<ctx, mem, record, reads, table>>

MysqlResult ==
    /\ pc = Idle /\ ~result.live
    /\ \E rows \in 0 .. 1 :
         result' = [live |-> TRUE, of |-> Stored, left |-> rows, asked |-> issued]
    /\ link' = AfterFetch
    /\ UNCHANGED <<ctx, mem, pc, record, row, table, answer>>

\* The row is emptied first; it is filled while there are rows.
fetch_row ==
    /\ pc = Idle /\ result.live
    /\ IF result.of # Nil /\ result.left > 0
       THEN /\ row' = [ok |-> TRUE, of |-> result.of]
            /\ result' = [live |-> TRUE, of |-> result.of, left |-> result.left - 1,
                          asked |-> result.asked]
       ELSE row' = NoRow /\ UNCHANGED result
    /\ UNCHANGED <<conns, pc, record, table, answer>>

FreeResult ==
    /\ pc = Idle /\ result.live
    /\ result' = NoResult
    /\ UNCHANGED <<conns, pc, record, row, table, answer>>

\* ~MysqlClient, with a new client in its place.
Destroy ==
    /\ pc = Idle /\ ctx # Nil
    /\ mem' = mem \ {ctx} /\ ctx' = Nil
    /\ UNCHANGED <<link, pc, record, reads, table, answer>>

ClientNext ==
    \/ \E kind \in Kinds : mysql_exec(kind)
    \/ get_insert_id \/ mysql_last_affected_rows \/ mysql_connect
    \/ init_mysql_ctx \/ QueryFails \/ Query \/ FetchId
    \/ MysqlResult \/ fetch_row \/ FreeResult \/ Destroy
    \/ OtherInserts \/ \E h \in Handles : Breaks(h)

ClientSpec == ClientInit /\ [][ClientNext]_clientVars

-----------------------------------------------------------------------------

(* The client never has two sessions: whatever structure it left behind was *)
(* never connected.                                                         *)
OneSession == \A h \in mem \ {ctx} : ~link[h].up

(* Reconnecting repeats no statement: the server runs each at most once,    *)
(* and once if mysql_exec returned true.                                    *)
RunsOnce ==
    \A s \in Stmts : ran[s] <= 1 /\ (told[s] = "true" => ran[s] = 1)

(* A MysqlResult made after mysql_exec has the rows of that statement or    *)
(* none, whether or not the caller looked at what mysql_exec returned; it   *)
(* never has the rows of an earlier statement that nobody fetched.          *)
ResultOfLastExec ==
    /\ result.of # Nil => result.of = result.asked /\ told[result.of] = "true"
    /\ row.ok => told[row.of] = "true"

(* get_insert_id returns the id of the row this client inserted last, or 0  *)
(* or -1 when the session it was inserted in is gone: never the id of       *)
(* another client's row or of an older one.                                 *)
InsertIdHonest ==
    [][pc.at = "fetch" /\ pc'.at = "idle" => answer' \in {-1, 0, lastMine}]_clientVars
=============================================================================
