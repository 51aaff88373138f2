---------------------------- MODULE IngresDriver ----------------------------
(***************************************************************************)
(* ingres_driver.c: a query is sent in a transaction of its own, and its   *)
(* rows are fetched one column at a time, because the types are not known  *)
(* beforehand; the columns are converted and collected until there are as  *)
(* many as the descriptor says.  No step that fails ends the query: to     *)
(* close, commit and disconnect what it has opened is tried in any case,   *)
(* and the answer is the number of rows.  The interface of the database is *)
(* external: a call to it succeeds or fails; what it has refused to close  *)
(* or to commit stays until its connection is gone.                        *)
(***************************************************************************)
EXTENDS Integers, SequencesExt

CONSTANTS
    Depth,     \* bound: queries underway, each but the first made by a callback
    Queries,   \* the queries the application makes
    Columns,   \* the types of the columns of each query; <<>> for one without rows
    Rows,      \* the rows that the database has for each query
    Long,      \* the values that arrive in two segments
    Faults,    \* the calls of the database interface that may fail
    Junk,      \* what the buffer holds before anything has been fetched
    Zero,      \* the number 0, which stands for integers of eight bytes
    Count,     \* a string made of the count in front of a value of varying length
    NULL       \* also the null value of the database

ASSUME IngresAssumption ==
    /\ Depth \in Nat \ {0}
    /\ \A q \in Queries :
          /\ Columns[q] \in Seq(STRING)
          /\ Rows[q] \in Seq({Rows[q][i] : i \in 1 .. Len(Rows[q])})
          /\ \A i \in 1 .. Len(Rows[q]) :
                /\ Rows[q][i] \in Seq({Rows[q][i][k] : k \in 1 .. Len(Rows[q][i])})
                /\ Len(Rows[q][i]) = Len(Columns[q])
          /\ Columns[q] = <<>> => Rows[q] = <<>>

VARIABLES
    kept,      \* behind the id of sdb_open: "none" for no id, "empty" for a NULL
               \* pointer, "open", or "broken" for a handle without a connection
    calls,     \* the queries underway, the callback of each making the next
    held,      \* what the database keeps for the driver: connections, transactions and
               \* statements, each with the level of its query; 0 is that of sdb_open
    left       \* what it has refused to release, with the level of the connection

vars == <<kept, calls, held, left>>

\* The level of a connection that nothing refers to any more.
Gone == -1

\* The types whose values are passed on as they are.
Plain(type) == type \notin {"varying", "integer8"}

\* Of a value with a count of bytes in front of the characters the count is passed on,
\* and 0 for an integer of a size that is not expected.
Converted(type, value) ==
    CASE type = "varying" -> Count
      [] type = "integer8" -> Zero
      [] OTHER -> value

Values == {Junk, Zero, Count} \cup
    UNION {UNION {{Rows[q][i][k] : k \in DOMAIN Rows[q][i]} : i \in DOMAIN Rows[q]} : q \in Queries}

Steps == {"connect", "query", "describe", "fetch", "callback", "close", "commit", "disconnect"}

\* What the next getColumns returns: a segment of a value.
Places == [row : Nat \ {0}, col : Nat \ {0}, seg : {1, 2}]

Start == [row |-> 1, col |-> 1, seg |-> 1]

\* The place after p: the other segment of a long value, the next column or row.
After(q, p) ==
    CASE p.seg = 1 /\ Rows[q][p.row][p.col] \in Long -> [p EXCEPT !.seg = 2]
      [] OTHER -> IF p.col < Len(Columns[q])
                  THEN [row |-> p.row, col |-> p.col + 1, seg |-> 1]
                  ELSE [row |-> p.row + 1, col |-> 1, seg |-> 1]

Calls ==
    [q : Queries, own : BOOLEAN, at : Steps, connected : BOOLEAN, buffer : Values,
     cols : Seq(Values), next : Places, delivered : Seq(Seq(Values)), row : Nat,
     failed : SUBSET Faults]

TypeOK ==
    /\ kept \in {"none", "empty", "open", "broken"}
    /\ calls \in Seq(Calls) /\ Len(calls) <= Depth
    /\ \A l \in DOMAIN calls :
          LET c == calls[l]
          IN  /\ l < Len(calls) => c.at = "callback"
              /\ Len(c.cols) <= Len(Columns[c.q])
              /\ c.at = "fetch" => Len(c.cols) < Len(Columns[c.q])
              /\ c.next = Start \/ (c.next.row <= Len(Rows[c.q]) + 1 /\ c.next.col <= Len(Columns[c.q]))
    /\ held \subseteq {"connection", "transaction", "statement"} \X (0 .. Depth)
    /\ left \subseteq {"connection", "transaction", "statement"} \X (Gone .. Depth)

Init ==
    /\ kept = "none"
    /\ calls = <<>>
    /\ held = {}
    /\ left = {}

MayFail(f) == f \in Faults

\* The innermost query.
Top == Len(calls)

call == calls[Top]

At(step) == calls # <<>> /\ call.at = step

Idle == calls = <<>> \/ At("callback")

Changed(c) == calls' = [calls EXCEPT ![Top] = c]

Goto(step) == Changed([call EXCEPT !.at = step])

\* What has failed is remembered for the properties only.
Failed(f, step) ==
    /\ MayFail(f)
    /\ Changed([call EXCEPT !.at = step, !.failed = @ \cup {f}])

Acquire(kind) == held \cup {<<kind, Top>>}

Release(kind) == held \ {<<kind, Top>>}

\* A release that is refused.
Refused(f, kind) ==
    /\ MayFail(f) /\ call.connected /\ <<kind, Top>> \in held
    /\ held' = Release(kind)
    /\ left' = left \cup {<<kind, IF call.own THEN Top ELSE 0>>}

\* What is left when a connection goes, and when the database keeps it.
Without(level) == {x \in left : x[2] # level}

Orphaned(level) ==
    Without(level) \cup {<<x[1], Gone>> : x \in left \ Without(level)} \cup {<<"connection", Gone>>}

---------------------------------------------------------------------------
(* Connections *)

\* sdb_open: IIapi_connect leaves a handle, with a connection or without, or none;
\* there is none either if the url has no db.
Open ==
    /\ calls = <<>> /\ kept = "none"
    /\ \/ kept' = "open" /\ held' = held \cup {<<"connection", 0>>}
       \/ MayFail("connect") /\ kept' \in {"empty", "broken"} /\ UNCHANGED held
    /\ UNCHANGED <<calls, left>>

\* sdb_close, whether or not the database lets the connection go; the driver is not
\* called for a NULL pointer.
Close ==
    /\ calls = <<>> /\ kept # "none"
    /\ kept' = "none"
    /\ held' = held \ {<<"connection", 0>>}
    /\ \/ left' = Without(0)
       \/ MayFail("disconnect") /\ kept = "open" /\ left' = Orphaned(0)
    /\ UNCHANGED calls

---------------------------------------------------------------------------
(* A query *)

\* sdb_query, from the application or from the callback of another query.
Call(q, byId) ==
    /\ Idle /\ Top < Depth
    /\ byId => kept # "none"
    /\ LET own == ~byId \/ kept = "empty"
       IN  calls' = Append(calls,
              [q |-> q, own |-> own, at |-> IF own THEN "connect" ELSE "query",
               connected |-> ~own /\ kept = "open", buffer |-> Junk, cols |-> <<>>,
               next |-> Start, delivered |-> <<>>, row |-> 0, failed |-> {}])
    /\ UNCHANGED <<kept, held, left>>

\* The query goes on without a connection if it has to.
Connect ==
    /\ At("connect")
    /\ \/ /\ Changed([call EXCEPT !.at = "query", !.connected = TRUE])
          /\ held' = Acquire("connection")
       \/ Failed("connect", "query") /\ UNCHANGED held
    /\ UNCHANGED <<kept, left>>

\* IIapi_query with no transaction begins one.
Query ==
    /\ At("query") /\ call.connected
    /\ Goto("describe")
    /\ held' = Acquire("transaction") \cup Acquire("statement")
    /\ UNCHANGED <<kept, left>>

\* It fails before or after the transaction has begun, or the statement been made;
\* the descriptor is asked for all the same, and there is none.
QueryFails ==
    /\ At("query")
    /\ \/ Failed("query", "describe")
       \/ ~call.connected /\ Goto("describe")
    /\ held' \in IF call.connected
                 THEN {held, Acquire("transaction"), Acquire("transaction") \cup Acquire("statement")}
                 ELSE {held}
    /\ UNCHANGED <<kept, left>>

\* Slip: columns are fetched without looking at the descriptor.
DescribeAlways ==
    /\ At("describe") /\ call.connected /\ "query" \notin call.failed
    /\ Goto("fetch")
    /\ UNCHANGED <<kept, held, left>>

\* There is room for the columns, and the first one is fetched; a statement without
\* rows has no descriptor (IIAPI_ST_NO_DATA).
Describe ==
    /\ At("describe") /\ call.connected /\ "query" \notin call.failed
    /\ Goto(IF Columns[call.q] = <<>> THEN "close" ELSE "fetch")
    /\ UNCHANGED <<kept, held, left>>

DescribeFails ==
    /\ At("describe")
    /\ \/ Failed("describe", "close")
       \/ (~call.connected \/ "query" \in call.failed) /\ Goto("close")
    /\ UNCHANGED <<kept, held, left>>

\* One column has arrived; with the last one, the row is passed on.
Column(arrived, cols) ==
    IF Len(cols) < Len(Columns[call.q])
    THEN Changed([call EXCEPT !.next = After(call.q, @), !.buffer = arrived, !.cols = cols])
    ELSE Changed([call EXCEPT !.next = After(call.q, @), !.buffer = arrived, !.cols = <<>>,
                              !.delivered = Append(@, cols), !.at = "callback"])

\* IIapi_getColumns for one column and the conversion of it.  A null writes nothing
\* to the buffer, which is converted all the same.
Fetch ==
    /\ At("fetch")
    /\ call.next.row <= Len(Rows[call.q])
    /\ LET value   == Rows[call.q][call.next.row][call.next.col]
           arrived == IF value = NULL THEN call.buffer ELSE value
           type    == Columns[call.q][Len(call.cols) + 1]
       IN  Column(arrived, Append(call.cols, Converted(type, arrived)))
    /\ UNCHANGED <<kept, held, left>>

\* Slip: what has been collected is passed on as a row.
FetchEndsWithRow ==
    /\ At("fetch")
    /\ \/ call.next.row > Len(Rows[call.q]) /\ Goto("close")
       \/ /\ MayFail("fetch")
          /\ Changed([call EXCEPT !.at = "close", !.failed = @ \cup {"fetch"}, !.cols = <<>>,
                         !.delivered = IF call.cols = <<>> THEN @ ELSE Append(@, call.cols)])
    /\ UNCHANGED <<kept, held, left>>

\* No more data, or an error, which is taken for that; the columns of a row that is
\* not complete are dropped.
FetchEnds ==
    /\ At("fetch")
    /\ \/ call.next.row > Len(Rows[call.q]) /\ Goto("close")
       \/ Failed("fetch", "close")
    /\ UNCHANGED <<kept, held, left>>

CallbackReturns ==
    /\ At("callback")
    /\ Changed([call EXCEPT !.at = "fetch", !.row = @ + 1])
    /\ UNCHANGED <<kept, held, left>>

\* IIapi_close; an error is only logged.
CloseStatement ==
    /\ At("close")
    /\ Goto("commit")
    /\ \/ held' = Release("statement") /\ UNCHANGED left
       \/ Refused("close", "statement")
    /\ UNCHANGED kept

\* The query returns, its level is free.
Returned == calls' = Front(calls)

\* Slip: a query that has failed is not committed.
CommitIfAnswered ==
    /\ At("commit")
    /\ IF call.failed # {} THEN UNCHANGED <<held, left>>
       ELSE \/ held' = Release("transaction") /\ UNCHANGED left
            \/ Refused("commit", "transaction")
    /\ IF call.own THEN Goto("disconnect") ELSE Returned
    /\ UNCHANGED kept

\* IIapi_commit, whose status is not looked at.
Commit ==
    /\ At("commit")
    /\ \/ held' = Release("transaction") /\ UNCHANGED left
       \/ Refused("commit", "transaction")
    /\ IF call.own THEN Goto("disconnect") ELSE Returned
    /\ UNCHANGED kept

\* IIapi_disconnect, whose status is not looked at.
Disconnect ==
    /\ At("disconnect")
    /\ held' = Release("connection")
    /\ \/ left' = Without(Top)
       \/ MayFail("disconnect") /\ call.connected /\ left' = Orphaned(Top)
    /\ Returned
    /\ UNCHANGED kept

Next ==
    \/ Open \/ Close
    \/ \E q \in Queries, byId \in BOOLEAN : Call(q, byId)
    \/ Connect \/ Query \/ QueryFails \/ Describe \/ DescribeFails
    \/ Fetch \/ FetchEnds \/ CallbackReturns
    \/ CloseStatement \/ Commit \/ Disconnect

Spec == Init /\ [][Next]_vars

---------------------------------------------------------------------------
(* Properties *)

Short(q) == \A i \in DOMAIN Rows[q] : \A k \in DOMAIN Rows[q][i] : Rows[q][i][k] \notin Long

\* A query without long values is answered by its own rows, in order and each with all
\* its columns, although the driver counts single columns and callbacks make queries
\* of their own meanwhile.  The value is the query's own where it is not null and the
\* type is one whose values are passed on as they are: of the others the property says
\* nothing, since what arrives is not the value (ingres_driver.c:105-136, 316-329).  The
\* number returned is that of the rows passed on, and of all rows if nothing has
\* failed; a query that fails is answered by it too, 0 if nothing could be sent, and
\* never by -1, against sdb.3:38-39 (ingres_driver.c:280-341, 367).
RowsAreOwn ==
    \A l \in DOMAIN calls :
        LET c    == calls[l]
            rows == Rows[c.q]
        IN  Short(c.q) =>
               /\ Len(c.delivered) <= Len(rows)
               /\ \A i \in DOMAIN c.delivered :
                     /\ Len(c.delivered[i]) = Len(rows[i])
                     /\ \A k \in DOMAIN rows[i] :
                           rows[i][k] # NULL /\ Plain(Columns[c.q][k]) =>
                               c.delivered[i][k] = rows[i][k]
               /\ c.row = Len(c.delivered) - (IF c.at = "callback" THEN 1 ELSE 0)
               /\ c.at = "close" /\ c.failed = {} /\ c.connected =>
                     Len(c.delivered) = Len(rows)

\* A query that has returned, whatever has failed in it, has left nothing open but what
\* the database has refused to close, to commit or to disconnect; and what was refused
\* on a connection goes with it, or is left behind with a connection that was refused
\* itself (ingres_driver.c:345-362).
NothingLeftOpen ==
    /\ \A x \in held : \/ x[2] \in DOMAIN calls
                       \/ x = <<"connection", 0>> /\ kept = "open"
    /\ \A x \in left : \/ x[2] \in DOMAIN calls /\ calls[x[2]].own
                       \/ x[2] = 0 /\ kept = "open"
                       \/ x[2] = Gone /\ <<"connection", Gone>> \in left
=============================================================================
