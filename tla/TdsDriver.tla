------------------------------ MODULE TdsDriver ------------------------------
(***************************************************************************)
(* tds_driver.c: an application makes queries through a connection that it *)
(* keeps (sdb_open) or with a url, for which the driver connects and       *)
(* disconnects.  The server answers a query with any number of results;    *)
(* the driver converts the values of each row and passes them on, in an    *)
(* array of pointers that it allocates once for each result.  The TDS      *)
(* library is external: it hands out results and rows as the server sends  *)
(* them, a result without rows is never announced as rows, and once        *)
(* tds_process_tokens has failed it fails for the rest of the query.       *)
(***************************************************************************)
EXTENDS Integers, Sequences

CONSTANTS
    Queries,    \* the queries the application makes
    Values,     \* the values of columns that are not null
    Results,    \* the results of each query: sequences of rows
    Refused,    \* the queries that the server does not accept
    NoText,     \* values that tds_convert cannot turn into text
    Complete,   \* may urls name a server, a user and a password, or not: a subset of BOOLEAN
    Reachable,  \* can the server be reached: a subset of BOOLEAN
    Wild,       \* a pointer to nothing, or to memory that is free
    NULL        \* a null pointer, for a null value

Cells == Values \cup {NULL, Wild}

\* What has failed: the start of the query, or tds_process_tokens, amid the rows of a
\* result or between two results.
Failures == {"nothing", "start", "rows", "results"}

Calls ==
    [q : Queries, own : BOOLEAN, at : {"open", "submit", "tokens", "row", "free", "close"},
     result : Nat, next : Nat, p : Seq(Cells), rows : Int, failed : Failures]

\* The rows of a result have the same columns.
ASSUME TdsAssumption ==
    /\ NULL \notin Calls
    /\ \A q \in Queries :
          /\ Results[q] \in Seq(Seq(Seq(Values \cup {NULL})))
          /\ \A j \in DOMAIN Results[q] : \A i \in DOMAIN Results[q][j] :
                Len(Results[q][j][i]) = Len(Results[q][j][1])

VARIABLES
    kept,       \* the connection of sdb_open: "none", "failed" or "open"
    call,       \* the query underway, or NULL
    delivered,  \* what the callback has been given of each result
    returned,   \* what the last query has returned, or NULL
    sockets,    \* the connections to the server: "kept", "own"
    ended       \* how the process has ended, if it has: NULL, "exit", "crash"

vars == <<kept, call, delivered, returned, sockets, ended>>

\* Slip: an id is taken for a connection that is open.
OwnIfUrl(byId) == ~byId

\* pdb is NULL: by url, or by the id of a connection that could not be opened.
Own(byId) == ~byId \/ kept = "failed"

TypeOK ==
    /\ kept \in {"none", "failed", "open"}
    /\ call \in Calls \cup {NULL}
    /\ call # NULL =>
          /\ call.result <= Len(Results[call.q])
          /\ call.at \in {"row", "free"} =>
                /\ call.result > 0 /\ call.next \in 1 .. Len(Results[call.q][call.result]) + 1
                /\ Len(call.p) = Len(Results[call.q][call.result][1])
          /\ call.rows >= -1
    /\ delivered \in Seq(Seq(Seq(Cells)))
    /\ sockets \subseteq {"kept", "own"}
    /\ ended \in {NULL, "exit", "crash"}

Init ==
    /\ kept = "none"
    /\ call = NULL
    /\ delivered = <<>>
    /\ returned = NULL
    /\ sockets = {}
    /\ ended = NULL

At(step) == ended = NULL /\ call # NULL /\ call.at = step

Goto(step) == call' = [call EXCEPT !.at = step]

Fail(what, step) == call' = [call EXCEPT !.failed = what, !.at = step]

Idle == ended = NULL /\ call = NULL

---------------------------------------------------------------------------
(* Connections *)

\* populate_login, for a url with something missing: the process ends (sdb_error).
MissingParameter ==
    /\ FALSE \in Complete
    /\ (Idle /\ kept = "none") \/ At("open")
    /\ ended' = "exit"
    /\ UNCHANGED <<kept, call, delivered, returned, sockets>>

\* sdb_open.
Open ==
    /\ Idle /\ kept = "none" /\ TRUE \in Complete
    /\ \E ok \in Reachable :
          /\ kept' = IF ok THEN "open" ELSE "failed"
          /\ sockets' = IF ok THEN sockets \cup {"kept"} ELSE sockets
    /\ UNCHANGED <<call, delivered, returned, ended>>

\* sdb_close; for a connection that could not be opened there is nothing to close.
Close ==
    /\ Idle /\ kept # "none"
    /\ kept' = "none"
    /\ sockets' = sockets \ {"kept"}
    /\ UNCHANGED <<call, delivered, returned, ended>>

---------------------------------------------------------------------------
(* A query *)

Call(q, byId) ==
    /\ Idle
    /\ byId => kept # "none"
    /\ call' = [q |-> q, own |-> Own(byId), at |-> IF Own(byId) THEN "open" ELSE "submit",
                result |-> 0, next |-> 0, p |-> <<>>, rows |-> -1, failed |-> "nothing"]
    /\ delivered' = <<>>
    /\ UNCHANGED <<kept, returned, sockets, ended>>

\* sdb_tds_open for a query of its own; the driver answers -1 if it fails.
OpenOwn ==
    /\ At("open") /\ TRUE \in Complete
    /\ \E ok \in Reachable :
          /\ IF ok THEN Goto("submit") ELSE Fail("start", "close")
          /\ sockets' = IF ok THEN sockets \cup {"own"} ELSE sockets
    /\ UNCHANGED <<kept, delivered, returned, ended>>

\* tds_submit_query: rows is -1 still.
Submit ==
    /\ At("submit")
    /\ IF call.q \in Refused THEN Fail("start", "close") ELSE Goto("tokens")
    /\ UNCHANGED <<kept, delivered, returned, sockets, ended>>

\* Slip: the array is allocated once for all results.
NextResultKeepsArray ==
    /\ At("tokens") /\ call.failed = "nothing"
    /\ call.result < Len(Results[call.q])
    /\ LET r == Results[call.q][call.result + 1]
       IN  call' = IF r = <<>> THEN [call EXCEPT !.result = @ + 1]
                   ELSE [call EXCEPT !.result = @ + 1, !.at = "row", !.rows = 0,
                                     !.next = 1,
                                     !.p = IF @ = <<>> THEN [i \in DOMAIN r[1] |-> Wild] ELSE @]
    /\ delivered' = Append(delivered, <<>>)
    /\ UNCHANGED <<kept, returned, sockets, ended>>

\* The next result.  For one with rows, rows is set to 0 and the array allocated.
NextResult ==
    /\ At("tokens") /\ call.failed = "nothing"
    /\ call.result < Len(Results[call.q])
    /\ LET r == Results[call.q][call.result + 1]
       IN  call' = IF r = <<>> THEN [call EXCEPT !.result = @ + 1]
                   ELSE [call EXCEPT !.result = @ + 1, !.at = "row", !.next = 1, !.rows = 0,
                                     !.p = [i \in DOMAIN r[1] |-> Wild]]
    /\ delivered' = Append(delivered, <<>>)
    /\ UNCHANGED <<kept, returned, sockets, ended>>

\* Slip: a null value is skipped like one that cannot be converted.
NullSkipped(row, p) == [i \in DOMAIN p |-> IF row[i] \in NoText \cup {NULL} THEN p[i] ELSE row[i]]

\* A value that cannot be converted leaves the pointer in its place as it was.
Converted(row, p) == [i \in DOMAIN p |-> IF row[i] \in NoText THEN p[i] ELSE row[i]]

\* A row is counted, converted and passed to the callback.
CallBack ==
    /\ At("row")
    /\ call.next <= Len(Results[call.q][call.result])
    /\ LET p == Converted(Results[call.q][call.result][call.next], call.p)
       IN  /\ call' = [call EXCEPT !.at = "free", !.rows = @ + 1, !.p = p]
           /\ delivered' = [delivered EXCEPT ![call.result] = Append(@, p)]
    /\ UNCHANGED <<kept, returned, sockets, ended>>

\* Its values are freed; what points to nothing may end the process.
FreeRow ==
    /\ At("free")
    /\ \/ /\ call' = [call EXCEPT !.at = "row", !.next = @ + 1, !.p = [i \in DOMAIN @ |-> IF @[i] = NULL THEN NULL ELSE Wild]]
          /\ UNCHANGED ended
       \/ /\ \E i \in DOMAIN call.p : call.p[i] = Wild
          /\ ended' = "crash"
          /\ UNCHANGED call
    /\ UNCHANGED <<kept, delivered, returned, sockets>>

\* The result is done.
ResultEnds ==
    /\ At("row")
    /\ call.next > Len(Results[call.q][call.result])
    /\ Goto("tokens")
    /\ UNCHANGED <<kept, delivered, returned, sockets, ended>>

\* tds_process_tokens fails amid rows: the loop over them ends as after the last one,
\* and rows stays what it is.
RowsFail ==
    /\ At("row")
    /\ Fail("rows", "tokens")
    /\ UNCHANGED <<kept, delivered, returned, sockets, ended>>

\* It fails between results: the loop over them ends as after the last one.
ResultsFail ==
    /\ At("tokens") /\ call.failed = "nothing"
    /\ Fail("results", "close")
    /\ UNCHANGED <<kept, delivered, returned, sockets, ended>>

\* No more results, or none after an error.
TokensEnd ==
    /\ At("tokens")
    /\ call.failed = "nothing" => call.result = Len(Results[call.q])
    /\ Goto("close")
    /\ UNCHANGED <<kept, delivered, returned, sockets, ended>>

\* The driver closes the connection of its own and returns.
Return ==
    /\ At("close")
    /\ sockets' = IF call.own THEN sockets \ {"own"} ELSE sockets
    /\ returned' = [q |-> call.q, n |-> call.rows]
    /\ call' = NULL
    /\ delivered' = <<>>
    /\ UNCHANGED <<kept, ended>>

Next ==
    \/ MissingParameter \/ Open \/ Close
    \/ \E q \in Queries, byId \in BOOLEAN : Call(q, byId)
    \/ OpenOwn \/ Submit
    \/ NextResult \/ CallBack \/ FreeRow \/ ResultEnds \/ RowsFail
    \/ ResultsFail \/ TokensEnd
    \/ Return

Spec == Init /\ [][Next]_vars

---------------------------------------------------------------------------
(* Properties *)

\* How many rows of the result j the library has handed out.
Sent(j) ==
    IF j = call.result /\ (call.at = "row" \/ call.failed = "rows") THEN call.next - 1
    ELSE IF j = call.result /\ call.at = "free" THEN call.next
    ELSE Len(Results[call.q][j])

\* The result j is the last one with rows so far.
LastWithRows(j) ==
    /\ Results[call.q][j] # <<>>
    /\ \A k \in 1 .. call.result : k > j => Results[call.q][k] = <<>>

\* The callback has been given all rows that the library has handed out, of all results
\* and in order, each with all its values, null values as null pointers; only a value
\* that could not be converted is something else.  Unless something has failed these
\* are all rows of the query when the driver returns, and if its start has failed there
\* are none and it returns -1 (tds_driver.c:97-186).
\* The number is not the one that sdb.3:38-39 promises, in three cases that the
\* property states as the code has them: it is that of the last result with rows and not
\* of all results; without a result with rows it is -1, as for an error; and after
\* tds_process_tokens has failed it is that of the rows until then, as without an error.
QueriesAreAnswered ==
    call # NULL =>
        /\ Len(delivered) = call.result
        /\ \A j \in 1 .. call.result :
              /\ Len(delivered[j]) = Sent(j)
              /\ \A i \in 1 .. Sent(j) :
                    LET row == Results[call.q][j][i]
                    IN  /\ Len(delivered[j][i]) = Len(row)
                        /\ \A c \in DOMAIN row :
                              row[c] \notin NoText => delivered[j][i][c] = row[c]
              /\ LastWithRows(j) => call.rows = Sent(j)
        /\ (\A j \in 1 .. call.result : Results[call.q][j] = <<>>) => call.rows = -1
        /\ call.failed = "start" => delivered = <<>>
        /\ call.at = "close" /\ call.failed = "nothing" => call.result = Len(Results[call.q])

\* A query uses a connection that is open, its own or the kept one, and between
\* queries there is none but the kept one (tds_driver.c:337-346).
SocketsAreAccounted ==
    /\ Idle => sockets = IF kept = "open" THEN {"kept"} ELSE {}
    /\ At("submit") \/ At("tokens") \/ At("row") =>
          (IF call.own THEN "own" ELSE "kept") \in sockets
=============================================================================
