------------------------------ MODULE ConnPool ------------------------------
(***************************************************************************)
(* The pool of connections to the database. A request takes one when it    *)
(* begins and gives it back when it ends; who asks for one first collects  *)
(* those of requests that have been idle for long. A statement of a request*)
(* whose connection was collected fails, and so does the preparation of a  *)
(* connection while the database does not answer: both leave a connection  *)
(* that nobody gives back. Enough errors restart the pool.                 *)
(*                                                                         *)
(* Between two awaits a coroutine is alone: a scan or a release is one     *)
(* step. Errors older than half an hour, which are forgotten, are left out.*)
(***************************************************************************)
EXTENDS Integers, FiniteSets

CONSTANTS
    Reqs,
    Conns,     \* the connections of a pool: db_pool_size
    Idle,      \* how long a connection is left alone before it is collected: 60 s
    Extra,     \* what extend_conn grants at most
    Errors     \* errors between two restarts: 10

VARIABLES
    pool,      \* the connections in the pool
    conns,     \* by request, [conn, age, extra, old]; conn 0 for none, age since expire_time
    request,   \* by request, [pc, conn, old]
    dberr,     \* errors counted
    young,     \* the pool was started less than 60 s ago
    lost       \* history: connections of this pool that nobody gives back

poolVars == <<pool, conns, request, dberr, young, lost>>

NoConn == [conn |-> 0, age |-> 0, extra |-> 0, old |-> FALSE]
Away == [pc |-> "away", conn |-> 0, old |-> FALSE]

Init ==
    /\ pool = Conns /\ lost = {}
    /\ conns = [r \in Reqs |-> NoConn] /\ request = [r \in Reqs |-> Away]
    /\ dberr = 0 /\ young = TRUE

Has(r) == conns[r].conn # 0
\* A connection of an earlier pool is closed and not given back.
GivenBack(rs) == {conns[r].conn : r \in {q \in rs : Has(q) /\ ~conns[q].old}}

\* The mutant: the entry stays.
CollectKept(rs) == conns
Collect(rs) == [r \in Reqs |-> IF r \in rs THEN NoConn ELSE conns[r]]

release(rs) == pool' = pool \union GivenBack(rs) /\ conns' = Collect(rs)

Garbage == {r \in Reqs : Has(r) /\ conns[r].age >= Idle}

-----------------------------------------------------------------------------
new_conn(r) ==
    /\ request[r].pc = "away"
    /\ release(Garbage)
    /\ request' = [request EXCEPT ![r].pc = "acquire"]
    /\ UNCHANGED <<dberr, young, lost>>

Acquire(r, c) ==
    /\ request[r].pc = "acquire" /\ c \in pool
    /\ pool' = pool \ {c}
    /\ request' = [request EXCEPT ![r] = [pc |-> "prepare", conn |-> c, old |-> FALSE]]
    /\ UNCHANGED <<conns, dberr, young, lost>>

\* Rollback, begin and settings are done before the connection is noted down.
Prepared(r) ==
    /\ request[r].pc = "prepare" /\ ~request[r].old
    /\ conns' = [conns EXCEPT ![r] = [NoConn EXCEPT !.conn = request[r].conn]]
    /\ request' = [request EXCEPT ![r] = [Away EXCEPT !.pc = "run"]]
    /\ UNCHANGED <<pool, dberr, young, lost>>

\* Each statement moves the time of expiry; extend_conn changes what it grants.
refresh_conn(r, extra) ==
    /\ request[r].pc = "run" /\ Has(r) /\ ~conns[r].old
    /\ conns' = [conns EXCEPT ![r].age = -extra, ![r].extra = extra]
    /\ UNCHANGED <<pool, request, dberr, young, lost>>
execute(r) == refresh_conn(r, conns[r].extra)
extend_conn(r) == \E extra \in 0..Extra : refresh_conn(r, extra)

close_conn(r) ==
    /\ request[r].pc = "run"
    /\ release({r})
    /\ request' = [request EXCEPT ![r] = Away]
    /\ UNCHANGED <<dberr, young, lost>>

-----------------------------------------------------------------------------
(* Errors end the request; its connection is given back after they are     *)
(* counted, to the pool there is then.                                     *)

\* The mutant: errors are not counted.
CountedNot == FALSE
Counted == ~young

\* What is lost stays so until the pool is started again.
tracebackHandler(r, taken) ==
    LET restart_pool == Counted /\ dberr + 1 = Errors
        back == GivenBack({r})
        Old(x) == [x EXCEPT !.old = x.conn # 0]
    IN
    /\ dberr' = IF Counted THEN (dberr + 1) % Errors ELSE dberr
    /\ young' = (young \/ restart_pool)
    /\ pool' = IF restart_pool THEN Conns ELSE (pool \ taken) \union back
    /\ lost' = IF restart_pool THEN {} ELSE lost \union taken
    /\ conns' = [q \in Reqs |-> IF q = r THEN NoConn ELSE IF restart_pool THEN Old(conns[q]) ELSE conns[q]]
    /\ request' = [q \in Reqs |-> IF q = r THEN Away ELSE IF restart_pool THEN Old(request[q]) ELSE request[q]]

\* Three times three seconds without a connection.
Timeout(r) == request[r].pc = "acquire" /\ pool = {} /\ tracebackHandler(r, {})

\* The database does not answer; so it is with a connection of a terminated pool.
NotPrepared(r) ==
    /\ request[r].pc = "prepare"
    /\ tracebackHandler(r, IF request[r].old THEN {} ELSE {request[r].conn})

\* The connection was closed when the pool was terminated.
Terminated(r) == request[r].pc = "run" /\ Has(r) /\ conns[r].old /\ tracebackHandler(r, {})

\* A statement after the connection was collected takes another one, looks for the
\* old entry, does not find it, and fails with the new one in its hand.
Late(r) ==
    /\ request[r].pc = "run" /\ ~Has(r)
    /\ \/ \E c \in pool : tracebackHandler(r, {c})
       \/ pool = {} /\ tracebackHandler(r, {})

-----------------------------------------------------------------------------
Tick ==
    /\ conns' = [r \in Reqs |-> IF Has(r) /\ conns[r].age < Idle THEN [conns[r] EXCEPT !.age = @ + 1] ELSE conns[r]]
    /\ conns' # conns
    /\ UNCHANGED <<pool, request, dberr, young, lost>>
Mature == young /\ young' = FALSE /\ UNCHANGED <<pool, conns, request, dberr, lost>>

Work(r) ==
    \/ new_conn(r) \/ Prepared(r) \/ NotPrepared(r) \/ Timeout(r) \/ Terminated(r) \/ Late(r)
    \/ \E c \in Conns : Acquire(r, c)
Next ==
    \/ \E r \in Reqs : Work(r) \/ execute(r) \/ extend_conn(r) \/ close_conn(r)
    \/ Tick \/ Mature

\* Requests come again and again, go on, and end; the clock goes on.
PoolFairness == (\A r \in Reqs : WF_poolVars(Work(r) \/ close_conn(r))) /\ WF_poolVars(Mature)
Spec == Init /\ [][Next]_poolVars /\ PoolFairness

-----------------------------------------------------------------------------
\* Every variable has its type.
PoolTyped ==
    /\ pool \subseteq Conns /\ lost \subseteq Conns /\ dberr \in 0..Errors - 1 /\ young \in BOOLEAN
    /\ conns \in [Reqs -> [conn : Conns \union {0}, age : -Extra..Idle, extra : 0..Extra, old : BOOLEAN]]
    /\ request \in [Reqs -> [pc : {"away", "acquire", "prepare", "run"}, conn : Conns \union {0}, old : BOOLEAN]]

\* A connection, and with it a transaction, is of one request: neither two of them nor
\* a request and the pool have it, also when it was collected from under a request
\* that then goes on, or the pool was started again. (db.py, release and refresh_conn.)
ConnectionsAreOfOne ==
    LET Using(r) == {x \in {conns[r], request[r]} : x.conn # 0 /\ ~x.old}
        Of(r) == {x.conn : x \in Using(r)}
    IN
    /\ \A r \in Reqs : Cardinality(Using(r)) < 2
    /\ \A r, q \in Reqs : r # q => Of(r) \intersect Of(q) = {}
    /\ \A r \in Reqs : Of(r) \intersect (pool \union lost) = {}
    /\ pool \intersect lost = {}

\* If every connection is lost there is a pool again, as long as requests come to
\* fail: their errors start it anew. (api.py, tracebackHandler.)
AllLost == lost = Conns
PoolComesBack == AllLost ~> ~AllLost
=============================================================================
