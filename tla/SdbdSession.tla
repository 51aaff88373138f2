---------------------------- MODULE SdbdSession ----------------------------
(***************************************************************************)
(* The sdbd protocol: an application that reaches its database through the *)
(* client side of the protocol (sdbd_driver.c), the child processes of the *)
(* daemon that serve its connections (sdbd.c), and the two byte streams of *)
(* every connection.                                                       *)
(*                                                                         *)
(* Requests (urls, "sdb_open", queries) are sent without any framing: the  *)
(* server takes what one read() returns for a whole request.  Every        *)
(* request is a stream of two pieces here, and when Segmented, a read may  *)
(* return any number of those that have arrived.  Answers are framed by    *)
(* numbers, and the client reads them character by character.              *)
(***************************************************************************)
EXTENDS Integers, Sequences

CONSTANTS
    Queries,      \* the queries the application makes
    Failing,      \* those of them that are errors for the database
    Answer,       \* the rows of every query, sequences of columns; none for an error
    EmptyQuery,   \* the query of no characters
    NULL,         \* no value; also the null value of a column
    Conns,        \* bound: the connections the application ever makes
    Persistent,   \* may the application call sdb_open?
    ServerOpens,  \* what sdb_open on the server may come to: TRUE when it connects
    Segmented     \* may read() on the server return part of a request?

VARIABLES
    cli,          \* the call of the application into the driver
    ci,           \* its open connection: conn_info.sock, 0 for -1, NULL for none
    returned,     \* what the last query has returned
    conn          \* the connections: both streams and the server's child

vars == <<cli, ci, returned, conn>>

---------------------------------------------------------------------------
(* Characters and requests *)

Digit == <<"0", "1", "2", "3", "4", "5", "6", "7", "8", "9">>

IsDigit(c) == \E n \in 0 .. 9 : Digit[n + 1] = c

Value(c) == CHOOSE n \in 0 .. 9 : Digit[n + 1] = c

\* sprintf(b, "%d ", n) for the numbers below ten that occur here.
Number(n) == <<Digit[n + 1], " ">>

\* The requests that are not queries, and what no complete request looks like.
OpenRequest == "sdb_open"
Url == "url"
Garbled == "garbled"

Pieces(m) == IF m = EmptyQuery THEN <<>> ELSE <<[of |-> m, part |-> 1], [of |-> m, part |-> 2]>>

Understood(s) ==
    IF s = <<>> THEN EmptyQuery
    ELSE IF s = Pieces(s[1].of) THEN s[1].of ELSE Garbled

\* The text of a column: a null value is sent as an empty string.
Text(v) == IF v = NULL THEN <<>> ELSE v

\* The characters of answers; those that a failed read may leave are among them.
Chars == {Digit[i] : i \in 1 .. 10} \cup {" ", "+", "nul", "?"}
           \cup UNION {UNION {UNION {{v[j] : j \in DOMAIN v} :
                 v \in {Text(Answer[q][i][k]) : k \in DOMAIN Answer[q][i]}} :
                 i \in DOMAIN Answer[q]} : q \in Queries}

\* A row, its null values included; numbers of columns and widths stay below ten.
Rows == Seq(Seq(Chars) \cup {NULL})

ASSUME SessionAssumption ==
    /\ Failing \subseteq Queries
    /\ Persistent \in BOOLEAN
    /\ ServerOpens \subseteq BOOLEAN
    /\ Segmented \in BOOLEAN
    /\ 0 \notin Conns /\ NULL \notin Conns \cup Queries \cup {0}
    /\ \A q \in Queries : Answer[q] \in Seq(Rows)
    /\ \A q \in Failing : Answer[q] = <<>>
    /\ \A q \in Queries : \A i \in DOMAIN Answer[q] :
          /\ Len(Answer[q][i]) \in 1 .. 9
          /\ \A k \in DOMAIN Answer[q][i] : Len(Text(Answer[q][i][k])) \in 0 .. 9

TextRows(rows) == [i \in DOMAIN rows |-> [k \in DOMAIN rows[i] |-> Text(rows[i][k])]]

\* What the first k sequences of f add to one that is there before.
Joined(first, f) ==
    LET joined[k \in 0 .. Len(f)] == IF k = 0 THEN first ELSE joined[k - 1] \o f[k]
    IN joined

\* A column behind its width.
Column(v) == Number(Len(Text(v))) \o Text(v)

\* db_callback: the number of columns, then the columns.
RowChars(row) ==
    Joined(Number(Len(row)), [k \in DOMAIN row |-> Column(row[k])])[Len(row)]

\* Slips: "0" without its terminating null byte, and with a character too many.
TheEndShort == <<"0">>
TheEndLong == <<"0", " ", "nul">>

\* writedata(sock, "0", 2): the terminating null byte is part of it.
TheEnd == <<"0", "nul">>

---------------------------------------------------------------------------
(* Connections *)

\* What a query may come to on the server.  The drivers differ in what they
\* make of text that is no query: an error, or no rows.
Outcomes(u, q) ==
    IF u # Url \/ q \in Failing THEN {[rows |-> <<>>, ok |-> FALSE]}
    ELSE IF q \in Queries THEN {[rows |-> Answer[q], ok |-> TRUE]}
    ELSE {[rows |-> <<>>, ok |-> ok] : ok \in BOOLEAN}

Unused == [pc |-> "unused", toServer |-> <<>>, toClient |-> <<>>, open |-> FALSE,
           doomed |-> FALSE, rst |-> FALSE, u |-> NULL, persist |-> FALSE, db |-> FALSE,
           todo |-> <<>>, ok |-> TRUE]

Idle == [pc |-> "idle", sock |-> NULL, q |-> NULL, rows |-> <<>>, no |-> 0, need |-> 0,
         cols |-> <<>>, col |-> <<>>]

Init ==
    /\ cli = Idle
    /\ ci = NULL
    /\ returned = NULL
    /\ conn = [c \in Conns |-> Unused]

Serving == {"url", "openUrl", "query", "rows"}

\* What the server can no longer read or write: "exited" with everything read
\* (the client sees the end of the stream), "aborted" with something unread (the
\* client gets a reset), "gone" once that reset has been reported to the client.
Over == {"exited", "crashed", "aborted", "gone"}

\* exit() of the child, which closes its socket; nothing that it knew is left.  How
\* its last query came out is remembered for the properties only.
Exited(s) ==
    [Unused EXCEPT !.pc = IF s.toServer = <<>> THEN "exited" ELSE "aborted",
                   !.toClient = s.toClient, !.open = s.open, !.ok = s.ok]

\* write() of the child, which goes on at pc.  A client that has closed answers
\* with a reset, and once that has arrived a write raises SIGPIPE.
Written(s, chars, pc) ==
    IF s.rst THEN Exited(s)
    ELSE IF s.open THEN [s EXCEPT !.toClient = @ \o chars, !.pc = pc]
    ELSE [s EXCEPT !.doomed = TRUE, !.pc = pc]

\* write() of the client; what a child that is gone would have read is lost.
Sent(s, m) == IF s.pc \in Over THEN s ELSE [s EXCEPT !.toServer = @ \o Pieces(m)]

\* close() of the client: what it has not read makes it a reset.
ClosedByClient(s) ==
    [s EXCEPT !.open = FALSE, !.toClient = <<>>,
              !.doomed = @ \/ (s.pc \in Serving /\ s.toClient # <<>>)]

---------------------------------------------------------------------------
(* The application and sdbd_driver.c *)

\* sdb_query of the application: on its open connection, or on a new one, which
\* is also what happens to an id whose server refused sdb_open (sock is -1).
QueryStarts(q) ==
    /\ cli.pc = "idle"
    /\ cli' = [Idle EXCEPT !.pc = "connect", !.q = q]
    /\ UNCHANGED <<ci, returned, conn>>

\* Writing to a connection that was reset kills the application (SIGPIPE).
MayWrite(c) == conn[c].pc # "gone"

\* Slip: the -1 of a refused sdb_open is taken for a socket.
QueryStartsUnchecked(q) ==
    /\ cli.pc = "idle"
    /\ ci # NULL
    /\ conn' = [c \in Conns |-> IF c = ci THEN Sent(conn[c], q) ELSE conn[c]]
    /\ cli' = [Idle EXCEPT !.pc = "ncol", !.q = q, !.sock = ci]
    /\ UNCHANGED <<ci, returned>>

QueryStartsOnSocket(q) ==
    /\ cli.pc = "idle"
    /\ ci \in Conns
    /\ MayWrite(ci)
    /\ conn' = [conn EXCEPT ![ci] = Sent(@, q)]
    /\ cli' = [Idle EXCEPT !.pc = "ncol", !.q = q, !.sock = ci]
    /\ UNCHANGED <<ci, returned>>

OpenStarts ==
    /\ Persistent
    /\ cli.pc = "idle"
    /\ ci = NULL
    /\ cli' = [Idle EXCEPT !.pc = "openConnect"]
    /\ UNCHANGED <<ci, returned, conn>>

\* The daemon has accepted the connection and forked a child for it.
Connects(c) ==
    /\ cli.pc \in {"connect", "openConnect"}
    /\ conn[c] = Unused
    /\ LET child == [Unused EXCEPT !.pc = "url", !.open = TRUE]
           first == IF cli.pc = "connect" THEN Url ELSE OpenRequest
       IN conn' = [conn EXCEPT ![c] = Sent(child, first)]
    /\ cli' = [cli EXCEPT !.sock = c,
                          !.pc = IF @ = "connect" THEN "greet" ELSE "openGreet"]
    /\ UNCHANGED <<ci, returned>>

\* sdbd_connect fails: the query returns -1, sdb_open has no connection.
ConnectFails ==
    /\ cli.pc \in {"connect", "openConnect"}
    /\ cli' = Idle
    /\ returned' = IF cli.pc = "connect" THEN [q |-> cli.q, n |-> -1] ELSE returned
    /\ UNCHANGED <<ci, conn>>

\* What an uninitialised byte on the stack may hold.
Junk == {"+", "5", "?"}

\* What a read() of one character may return, with the connection afterwards.
\* When it fails, readchar returns whatever was in its buffer.
CharsRead(c) ==
    IF conn[c].toClient # <<>>
    THEN {[char |-> Head(conn[c].toClient), failed |-> FALSE,
           after |-> [conn[c] EXCEPT !.toClient = Tail(@)]]}
    ELSE IF conn[c].pc = "aborted"
    THEN {[char |-> j, failed |-> TRUE, after |-> [conn[c] EXCEPT !.pc = "gone"]] : j \in Junk}
    ELSE {}

\* Slip: the row is handed over before its last column has been read.
RowCompleteEarly(cols) == Len(cols) + 1 >= cli.need

RowComplete(cols) == Len(cols) = cli.need

\* readdata in readchar never comes back from the end of the stream: read()
\* returns 0, which is not an error, and the loop goes round.
Spins ==
    /\ cli.sock \in Conns
    /\ cli.pc \in {"greet", "openGreet", "openAnswer", "openPlus", "ncol", "width", "data"}
    /\ cli.pc = "data" => Len(cli.col) < cli.no
    /\ conn[cli.sock].toClient = <<>>
    /\ conn[cli.sock].pc \in {"exited", "crashed", "gone"}
    /\ cli' = [cli EXCEPT !.pc = "spin"]
    /\ UNCHANGED <<ci, returned, conn>>

\* sdbd_try: whatever the character is, the query follows.
ReadGreeting ==
    /\ cli.pc = "greet"
    /\ \E r \in CharsRead(cli.sock) :
          /\ r.after.pc # "gone"
          /\ conn' = [conn EXCEPT ![cli.sock] = Sent(r.after, cli.q)]
    /\ cli' = [cli EXCEPT !.pc = "ncol"]
    /\ UNCHANGED <<ci, returned>>

\* sdbd_open, after "sdb_open" has been sent.
ReadOpenGreeting ==
    /\ cli.pc = "openGreet"
    /\ \E r \in CharsRead(cli.sock) :
          /\ r.after.pc # "gone"
          /\ conn' = [conn EXCEPT ![cli.sock] = Sent(r.after, Url)]
    /\ cli' = [cli EXCEPT !.pc = "openAnswer"]
    /\ UNCHANGED <<ci, returned>>

\* sdbd_open: a "+" is the answer of a server that knows the request and could
\* connect.  Otherwise the socket is closed and -1 kept in its place.
ReadOpenAnswer ==
    /\ cli.pc = "openAnswer"
    /\ \E r \in CharsRead(cli.sock) :
          IF r.char = "+"
          THEN /\ conn' = [conn EXCEPT ![cli.sock] = r.after]
               /\ cli' = [cli EXCEPT !.pc = "openPlus"]
               /\ UNCHANGED ci
          ELSE /\ conn' = [conn EXCEPT ![cli.sock] = ClosedByClient(r.after)]
               /\ cli' = Idle
               /\ ci' = 0
    /\ UNCHANGED returned

ReadOpenPlus ==
    /\ cli.pc = "openPlus"
    /\ \E r \in CharsRead(cli.sock) : conn' = [conn EXCEPT ![cli.sock] = r.after]
    /\ ci' = cli.sock
    /\ cli' = Idle
    /\ UNCHANGED returned

\* readno: another digit.
ReadDigit ==
    /\ cli.pc \in {"ncol", "width"}
    /\ \E r \in CharsRead(cli.sock) :
          /\ IsDigit(r.char)
          /\ cli.no < 10
          /\ conn' = [conn EXCEPT ![cli.sock] = r.after]
          /\ cli' = [cli EXCEPT !.no = 10 * @ + Value(r.char)]
    /\ UNCHANGED <<ci, returned>>

\* readno: the number of columns ends; zero columns end the answer, and a
\* connection made for this query only is closed.
ReadColumns ==
    /\ cli.pc = "ncol"
    /\ \E r \in CharsRead(cli.sock) :
          /\ ~IsDigit(r.char)
          /\ IF cli.no > 0
             THEN /\ cli' = [cli EXCEPT !.pc = "width", !.need = cli.no, !.no = 0,
                                        !.cols = <<>>, !.col = <<>>]
                  /\ conn' = [conn EXCEPT ![cli.sock] = r.after]
                  /\ UNCHANGED returned
             ELSE /\ cli' = Idle
                  /\ returned' = [q |-> cli.q, n |-> Len(cli.rows)]
                  /\ conn' = [conn EXCEPT ![cli.sock] =
                                IF cli.sock = ci THEN r.after ELSE ClosedByClient(r.after)]
    /\ UNCHANGED ci

ReadWidth ==
    /\ cli.pc = "width"
    /\ \E r \in CharsRead(cli.sock) :
          /\ ~IsDigit(r.char)
          /\ conn' = [conn EXCEPT ![cli.sock] = r.after]
    /\ cli' = [cli EXCEPT !.pc = "data", !.col = <<>>]
    /\ UNCHANGED <<ci, returned>>

\* readdata: however the characters arrive, it reads on until it has them all.
ReadData ==
    /\ cli.pc = "data"
    /\ Len(cli.col) < cli.no
    /\ \E r \in CharsRead(cli.sock) :
          /\ conn' = [conn EXCEPT ![cli.sock] = r.after]
          /\ cli' = IF r.failed THEN [cli EXCEPT !.no = Len(cli.col)]
                    ELSE [cli EXCEPT !.col = Append(@, r.char)]
    /\ UNCHANGED <<ci, returned>>

\* A column is complete; the last one of a row makes the callback run.
TakeColumn ==
    /\ cli.pc = "data"
    /\ Len(cli.col) = cli.no
    /\ LET cols == Append(cli.cols, cli.col)
       IN cli' = IF RowComplete(cols)
                 THEN [cli EXCEPT !.pc = "ncol", !.no = 0, !.need = 0, !.cols = <<>>,
                                  !.col = <<>>, !.rows = Append(@, cols)]
                 ELSE [cli EXCEPT !.pc = "width", !.no = 0, !.cols = cols, !.col = <<>>]
    /\ UNCHANGED <<ci, returned, conn>>

\* sdb_close, which ends in sdbd_close.
Close ==
    /\ cli.pc = "idle"
    /\ ci # NULL
    /\ conn' = IF ci = 0 THEN conn ELSE [conn EXCEPT ![ci] = ClosedByClient(@)]
    /\ ci' = NULL
    /\ UNCHANGED <<cli, returned>>

\* The application ends: by itself, killed, or by a SIGPIPE.
ApplicationEnds ==
    /\ cli.pc # "dead"
    /\ cli' = [cli EXCEPT !.pc = "dead"]
    /\ ci' = NULL
    /\ conn' = [c \in Conns |-> IF conn[c].open THEN ClosedByClient(conn[c]) ELSE conn[c]]
    /\ UNCHANGED returned

---------------------------------------------------------------------------
(* The child of sdbd that serves a connection *)

\* What one read() may return, and what it leaves.  At the end of the stream it
\* returns no characters, and the child takes them for an empty request.
Requests(s) ==
    IF s.toServer = <<>>
    THEN IF s.open THEN {} ELSE {[m |-> EmptyQuery, after |-> s]}
    ELSE {[m |-> Understood(SubSeq(s.toServer, 1, k)),
           after |-> [s EXCEPT !.toServer = SubSeq(@, k + 1, Len(@))]] :
             k \in IF Segmented THEN 1 .. Len(s.toServer) ELSE {Len(s.toServer)}}

\* dourl: the first request.
ServeUrl(c) ==
    /\ conn[c].pc = "url"
    /\ ~conn[c].rst
    /\ \E r \in Requests(conn[c]) :
          conn' = [conn EXCEPT ![c] =
                     Written([r.after EXCEPT !.u = r.m], <<" ">>,
                             IF r.m = OpenRequest THEN "openUrl" ELSE "query")]
    /\ UNCHANGED <<cli, ci, returned>>

\* dourl: the url after "sdb_open".  What is no url has no driver.  The loop is
\* entered in either case.
ServeOpen(c) ==
    /\ conn[c].pc = "openUrl"
    /\ ~conn[c].rst
    /\ \E r \in Requests(conn[c]) :
          \E ok \in IF r.m = Url THEN ServerOpens ELSE {FALSE} :
             conn' = [conn EXCEPT ![c] =
                        Written([r.after EXCEPT !.u = r.m, !.persist = TRUE, !.db = ok],
                                IF ok THEN <<"+", "0">> ELSE TheEnd, "query")]
    /\ UNCHANGED <<cli, ci, returned>>

\* doquery: sdb_query is given the url, also when the session has a connection.
ServeQuery(c) ==
    /\ conn[c].pc = "query"
    /\ ~conn[c].rst
    /\ \E r \in Requests(conn[c]) :
          \E o \in Outcomes(conn[c].u, r.m) :
             conn' = [conn EXCEPT ![c] =
                        [r.after EXCEPT !.pc = "rows", !.todo = o.rows, !.ok = o.ok]]
    /\ UNCHANGED <<cli, ci, returned>>

\* Slip: a read that fails is tried again.
ReadRetries(c) ==
    /\ conn[c].pc \in {"url", "openUrl", "query"}
    /\ conn[c].rst
    /\ UNCHANGED vars

\* "Can't read": the client's reset has arrived.
ReadFails(c) ==
    /\ conn[c].pc \in {"url", "openUrl", "query"}
    /\ conn[c].rst
    /\ conn' = [conn EXCEPT ![c] = Exited(@)]
    /\ UNCHANGED <<cli, ci, returned>>

\* db_callback.
ServeRow(c) ==
    /\ conn[c].pc = "rows"
    /\ conn[c].todo # <<>>
    /\ conn' = [conn EXCEPT ![c] =
                   Written([conn[c] EXCEPT !.todo = Tail(@)], RowChars(Head(conn[c].todo)), "rows")]
    /\ UNCHANGED <<cli, ci, returned>>

\* After the last row.  A session goes on unless the query failed.
ServeEnd(c) ==
    /\ conn[c].pc = "rows"
    /\ conn[c].todo = <<>>
    /\ conn' = [conn EXCEPT ![c] =
                   Written(@, TheEnd, IF @.persist /\ @.ok THEN "query" ELSE "ending")]
    /\ UNCHANGED <<cli, ci, returned>>

\* The end of dourl and of the child, a moment after it has answered.  A session
\* ends in sdb_close, which does not survive the NULL of an sdb_open that failed.
ChildEnds(c) ==
    /\ conn[c].pc = "ending"
    /\ conn' = [conn EXCEPT ![c] = IF @.persist /\ ~@.db
                                   THEN [Exited(@) EXCEPT !.pc = "crashed"]
                                   ELSE Exited(@)]
    /\ UNCHANGED <<cli, ci, returned>>

\* The network brings the reset that a closed client has answered with.
ResetArrives(c) ==
    /\ conn[c].pc \in Serving
    /\ conn[c].doomed
    /\ ~conn[c].rst
    /\ conn' = [conn EXCEPT ![c].rst = TRUE]
    /\ UNCHANGED <<cli, ci, returned>>

---------------------------------------------------------------------------
InDriver ==
    \/ \E c \in Conns : Connects(c)
    \/ ConnectFails
    \/ Spins
    \/ ReadGreeting
    \/ ReadOpenGreeting
    \/ ReadOpenAnswer
    \/ ReadOpenPlus
    \/ ReadDigit
    \/ ReadColumns
    \/ ReadWidth
    \/ ReadData
    \/ TakeColumn

Child(c) ==
    \/ ServeUrl(c)
    \/ ServeOpen(c)
    \/ ServeQuery(c)
    \/ ReadFails(c)
    \/ ServeRow(c)
    \/ ServeEnd(c)
    \/ ChildEnds(c)

Next ==
    \/ \E q \in Queries : QueryStarts(q) \/ QueryStartsOnSocket(q)
    \/ OpenStarts
    \/ InDriver
    \/ Close
    \/ ApplicationEnds
    \/ \E c \in Conns : Child(c) \/ ResetArrives(c)

Spec == Init /\ [][Next]_vars

\* Both processes run, and packets that are sent arrive.  What the application
\* does outside the library is its own affair.
Fairness ==
    /\ WF_vars(InDriver)
    /\ \A c \in Conns : WF_vars(Child(c)) /\ WF_vars(ResetArrives(c))

FairSpec == Spec /\ Fairness

---------------------------------------------------------------------------
(* Properties *)

TypeOK ==
    /\ cli.pc \in {"idle", "connect", "openConnect", "greet", "openGreet", "openAnswer",
                   "openPlus", "ncol", "width", "data", "spin", "dead"}
    /\ cli.sock \in Conns \cup {NULL}
    /\ cli.q \in Queries \cup {NULL}
    /\ cli.no \in 0 .. 99 /\ cli.need \in 0 .. 99
    /\ cli.col \in Seq(Chars)
    /\ ci \in Conns \cup {0, NULL}
    /\ \A c \in Conns :
          /\ conn[c].pc \in Serving \cup Over \cup {"unused", "ending"}
          /\ conn[c].toClient \in Seq(Chars)
          /\ conn[c].todo \in Seq(Rows)

\* The session of an id that was open has ended, because a query in it has failed.
Ended(c) == conn[c].pc \in Over \cup {"ending"} /\ ~conn[c].ok

\* QueryService, as observed at the callback and at the return of sdb_query.  The
\* server has no way to report an error: the answer to a query that failed ends like
\* any other one (sdbd.c:98-101), and sdb_query returns 0 for it, where sdb.3:39 says
\* -1 (Hiding); so it does for every query, with rows or without, in a session that a
\* failed query has ended, when the request meets a reset (ended).
Service == INSTANCE QueryService WITH
    pending <- cli.q, delivered <- cli.rows, returned <- returned, Hiding <- TRUE,
    ended <- ci \in Conns /\ cli.sock = ci /\ Ended(ci),
    Answer <- [q \in Queries |-> TextRows(Answer[q])]

\* (as a property) A query that the database answers is given its own rows through
\* the proxy, in order: no callback gets a row of another query, one cut short, or
\* one made up from characters that were framed wrongly (sdbd.c:66-85 against
\* sdbd_driver.c:257-282), and a number above 0 is returned only after all of them.
\* The number 0 says less than sdb.3:38-39 promises: it is also returned for a query
\* that is an error, and in a session that such a query has ended.
ProxyPassesRowsOn == Service!Spec

\* Between two queries on an open connection not a character is left in either
\* stream, so that the next answer is read from its beginning; the child waits for
\* a request, unless a query that failed has made it end.
InStep ==
    ci \in Conns /\ cli.pc = "idle" =>
        /\ conn[ci].toServer = <<>> /\ conn[ci].toClient = <<>>
        /\ conn[ci].pc = "query" \/ Ended(ci)

\* Once sdb_query or sdb_open has been called, it returns, unless the application
\* is killed first.
EveryCallReturns == cli.pc # "idle" ~> cli.pc \in {"idle", "dead"}

\* Whatever fails on the server, a call can hang in one way only: on a connection
\* that it was given by sdb_open and that a failed query has ended since.
OnlyEndedSessionsHang ==
    cli.pc # "idle" ~>
        cli.pc \in {"idle", "dead"} \/ (ci \in Conns /\ cli.sock = ci /\ Ended(ci))

\* A child of the daemon whose client has closed the connection, at any point of
\* a session, comes to its end: by a query of no characters that fails, by a
\* reset it reads, or by a SIGPIPE.
ChildrenEnd == \A c \in Conns : conn[c].pc # "unused" /\ ~conn[c].open ~> conn[c].pc \in Over

=============================================================================
