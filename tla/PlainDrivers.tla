---------------------------- MODULE PlainDrivers ----------------------------
(***************************************************************************)
(* The drivers that do little but call a client library: mysql, postgres,  *)
(* msql, sqlite, sqlite3, odbc, lago and shsql.  All of them connect, send *)
(* the query, pass on the rows and disconnect; they differ in what they do *)
(* when one of these fails.  The client libraries and the server, which    *)
(* accepts a limited number of connections, are external.                  *)
(***************************************************************************)
EXTENDS Integers, Sequences

CONSTANTS
    Drivers,    \* the drivers considered; a behaviour uses one of them
    Queries,    \* the queries the application makes
    Rows,       \* the rows of each query; for one that fails, those before the error
    Failing,    \* the queries that are errors for the database
    NoResult,   \* the statements that have no result, not even an empty one
    MaxConns,   \* how many connections the server accepts
    NULL

ASSUME DriverAssumption ==
    /\ Drivers \subseteq {"mysql", "postgres", "msql", "sqlite", "sqlite3", "odbc", "lago", "shsql"}
    /\ Failing \subseteq Queries
    /\ NoResult \subseteq Queries \ Failing
    /\ \A q \in Queries : Rows[q] \in Seq({Rows[q][i] : i \in 1 .. Len(Rows[q])})
    /\ \A q \in NoResult : Rows[q] = <<>>
    /\ MaxConns \in Nat

VARIABLES
    driver,
    kept,       \* behind the id of sdb_open: "none" for no id, "empty" for a NULL pointer,
                \* "open", or "broken" for a handle that is connected to nothing
    call,       \* the query underway, or NULL
    delivered,  \* what the callback has been given
    conns       \* how many connections have been made and not closed

vars == <<driver, kept, call, delivered, conns>>

\* The drivers that register open and close functions.
Keeping == {"mysql", "postgres", "msql", "sqlite", "sqlite3"}

\* The drivers that run the callback while the query is being executed.
Calling == {"sqlite", "sqlite3"}

\* The drivers that have the whole result before the first row is passed on.
Storing == {"mysql", "postgres", "msql"}

\* The drivers that fetch row by row.
Fetching == {"odbc", "lago", "shsql"}

TypeOK ==
    /\ driver \in Drivers
    /\ kept \in {"none", "empty", "open", "broken"}
    /\ kept \in {"open", "broken"} => driver \in Keeping
    /\ call = NULL \/
          /\ call.q \in Queries /\ call.own \in BOOLEAN
          /\ call.at \in {"connect", "exec", "rows", "finish"}
          /\ call.conn \in {"none", "open", "broken"}
          /\ call.conn = "none" => call.at \in {"connect", "finish"} \/ driver = "shsql"
          /\ call.next \in 1 .. Len(Rows[call.q]) + 1
          /\ call.res \in -1 .. Len(Rows[call.q])
          /\ call.failed \in {"nothing", "query", "rows"}
          /\ call.before \in 0 .. MaxConns
    /\ conns \in 0 .. MaxConns

Init ==
    /\ driver \in Drivers
    /\ kept = "none"
    /\ call = NULL
    /\ delivered = <<>>
    /\ conns = 0

At(step) == call # NULL /\ call.at = step

\* What a handle is for the server.
Counts(conn) == IF conn = "open" THEN 1 ELSE 0

\* What the open functions return.  The handle of sqlite3 is returned even if
\* sqlite3_open has failed; the others return NULL and have freed everything.
Unopened == IF driver = "sqlite3" THEN "broken" ELSE "empty"

Opened == {Unopened} \cup (IF conns < MaxConns THEN {"open"} ELSE {})

---------------------------------------------------------------------------
(* Connections *)

\* sdb_open: for a driver without an open function, there is nothing behind the id.
Open ==
    /\ call = NULL /\ kept = "none"
    /\ kept' \in IF driver \in Keeping THEN Opened ELSE {"empty"}
    /\ conns' = conns + Counts(kept')
    /\ UNCHANGED <<driver, call, delivered>>

\* sdb_close.
Close ==
    /\ call = NULL /\ kept # "none"
    /\ kept' = "none"
    /\ conns' = conns - Counts(kept)
    /\ UNCHANGED <<driver, call, delivered>>

---------------------------------------------------------------------------
(* A query *)

\* Slip: an id is taken for a connection.
OwnIfUrl(byId) == ~byId

\* pdb is NULL for a url, and for an id with nothing behind it.
Own(byId) == ~byId \/ kept = "empty"

\* sdb_query; shsql has no connections.  The record also has what the driver has not:
\* what has failed, and the connections that there were before.
Call(q, byId) ==
    /\ call = NULL
    /\ byId => kept # "none"
    /\ LET own == Own(byId)
       IN  call' = [q |-> q, own |-> own, conn |-> IF own THEN "none" ELSE kept,
                    at |-> IF own /\ driver # "shsql" THEN "connect" ELSE "exec",
                    next |-> 1, res |-> 0, failed |-> "nothing", before |-> conns]
    /\ delivered' = <<>>
    /\ UNCHANGED <<driver, kept, conns>>

\* The query connects for itself.
Connect ==
    /\ At("connect")
    /\ \E conn \in Opened \ {"empty"} :
          /\ call' = [call EXCEPT !.at = "exec", !.conn = conn]
          /\ conns' = conns + Counts(conn)
    /\ UNCHANGED <<driver, kept, delivered>>

\* It cannot, and answers -1.
ConnectFails ==
    /\ At("connect")
    /\ "empty" \in Opened
    /\ call' = [call EXCEPT !.at = "finish", !.res = -1, !.failed = "query"]
    /\ UNCHANGED <<driver, kept, delivered, conns>>

\* The database accepts the query.  msql takes a statement without a result for an
\* error, the others for one without rows.
Exec ==
    /\ At("exec")
    /\ driver \notin Calling
    /\ call.q \notin Failing
    /\ call' = IF driver = "msql" /\ call.q \in NoResult
               THEN [call EXCEPT !.at = "finish", !.res = -1]
               ELSE [call EXCEPT !.at = "rows"]
    /\ UNCHANGED <<driver, kept, delivered, conns>>

\* sqlite_exec starts; on a broken handle it fails before the first row.
ExecCalling ==
    /\ At("exec")
    /\ driver \in Calling
    /\ call' = IF call.conn = "broken" THEN [call EXCEPT !.at = "finish", !.failed = "rows"]
               ELSE [call EXCEPT !.at = "rows"]
    /\ UNCHANGED <<driver, kept, delivered, conns>>

\* Is the connection of a query that fails closed?  mysql returns at once.  odbc frees
\* a connection that it has not disconnected if the query cannot be executed, and
\* disconnects if its columns cannot be counted.  lago deletes its context unless
\* the error comes with a result.
ClosesAfterError ==
    CASE driver = "mysql"            -> {FALSE}
      [] driver \in {"odbc", "lago"} -> {TRUE, FALSE}
      [] OTHER                       -> {TRUE}

\* Slip: the status of the query is not looked at, and there are no rows.
ExecFailsUnseen ==
    /\ At("exec")
    /\ driver \notin Calling
    /\ call' = [call EXCEPT !.at = "finish", !.failed = "query"]
    /\ UNCHANGED <<driver, kept, delivered, conns>>

\* The database refuses the query, or has gone away, and the answer is -1.  A
\* connection that is not closed is forgotten.
ExecFails ==
    /\ At("exec")
    /\ driver \notin Calling
    /\ \E closes \in IF call.own THEN ClosesAfterError ELSE {TRUE} :
          call' = [call EXCEPT !.at = "finish", !.res = -1, !.failed = "query",
                               !.conn = IF closes THEN @ ELSE "none"]
    /\ UNCHANGED <<driver, kept, delivered, conns>>

\* odbc: no statement can be allocated on the connection, which is left behind.
StatementFails ==
    /\ At("exec")
    /\ driver = "odbc"
    /\ call' = [call EXCEPT !.at = "finish", !.res = -1, !.failed = "query", !.conn = "none"]
    /\ UNCHANGED <<driver, kept, delivered, conns>>

\* A row is passed to the callback.
Row ==
    /\ At("rows")
    /\ call.next <= Len(Rows[call.q])
    /\ delivered' = Append(delivered, Rows[call.q][call.next])
    /\ call' = [call EXCEPT !.next = @ + 1, !.res = @ + 1]
    /\ UNCHANGED <<driver, kept, conns>>

\* There are no more rows.
RowsEnd ==
    /\ At("rows")
    /\ call.next > Len(Rows[call.q]) /\ call.q \notin Failing
    /\ call' = [call EXCEPT !.at = "finish"]
    /\ UNCHANGED <<driver, kept, delivered, conns>>

\* An error while the rows are passed on is taken for their end; mysql takes one in
\* storing them for a result without rows.
RowsFail ==
    /\ At("rows")
    /\ driver \in Calling \cup Fetching \/ (driver = "mysql" /\ call.next = 1)
    /\ call' = [call EXCEPT !.at = "finish", !.failed = "rows"]
    /\ UNCHANGED <<driver, kept, delivered, conns>>

\* Slip: what is closed is not asked for who has opened it.
FinishAlways ==
    /\ At("finish")
    /\ call' = NULL
    /\ delivered' = <<>>
    /\ conns' = conns - Counts(call.conn)
    /\ UNCHANGED <<driver, kept>>

\* The connection that the query has opened is closed.
Finish ==
    /\ At("finish")
    /\ call' = NULL
    /\ delivered' = <<>>
    /\ conns' = conns - (IF call.own THEN Counts(call.conn) ELSE 0)
    /\ UNCHANGED <<driver, kept>>

Next ==
    \/ Open \/ Close
    \/ \E q \in Queries, byId \in BOOLEAN : Call(q, byId)
    \/ Connect \/ ConnectFails \/ Exec \/ ExecCalling \/ ExecFails \/ StatementFails
    \/ Row \/ RowsEnd \/ RowsFail
    \/ Finish

Spec == Init /\ [][Next]_vars

---------------------------------------------------------------------------
(* Properties *)

\* What the number that a query returns says.  Where nothing has failed the callback
\* has been given all the rows, and the number is theirs; where the query could not
\* be made it is -1, and no row has been passed on, so that whoever makes it again is
\* given none twice.  That is what the manual says (sdb.3:38-39), and the drivers
\* depart from it in three ways: msql answers -1 to a statement without a result
\* (msql_driver.c:95-99), mysql answers 0 when it cannot store the result
\* (mysql_driver.c:50-61), and an error amid the rows, with the sqlite drivers any
\* error at all, is answered by the number of rows before it (sqlite_driver.c:100-107,
\* odbc_driver.c:43, lago_driver.c:47, shsql_driver.c:85).
QueriesAreAnswered ==
    At("finish") =>
        /\ call.failed = "nothing" =>
              /\ delivered = Rows[call.q] /\ call.q \notin Failing
              /\ \/ call.res = Len(Rows[call.q])
                 \/ driver = "msql" /\ call.q \in NoResult /\ call.res = -1
        /\ call.failed = "query" => call.res = -1 /\ delivered = <<>>
        /\ call.failed = "rows" =>
              /\ call.res = Len(delivered)
              /\ delivered = [i \in 1 .. call.res |-> Rows[call.q][i]]
              /\ driver \in Calling \cup Fetching \/ (driver = "mysql" /\ delivered = <<>>)

\* A query gives back the connection it has made, and leaves that of the id alone.
\* One is left behind only by a query that mysql, odbc or lago could not make on a
\* connection of its own (mysql_driver.c:112-113, odbc_driver.c:106-123,
\* lago_driver.c:83-88): "calling sdb_query directly will simply open and close the
\* connection for each query" (sdb.3:33-34).
QueriesGiveBack ==
    [][At("finish") =>
          \/ conns' = call.before
          \/ /\ conns' = call.before + 1
             /\ call.own /\ call.failed = "query" /\ driver \in {"mysql", "odbc", "lago"}]_vars
=============================================================================
