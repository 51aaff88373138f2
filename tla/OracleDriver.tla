---------------------------- MODULE OracleDriver ----------------------------
(***************************************************************************)
(* oracle_driver.c: an application makes one query after another, through  *)
(* a connection it keeps (sdb_open) or with a url, for which the driver    *)
(* logs on and off again.  A connection holds one cursor and one array of  *)
(* column descriptions and buffers, which every query on it uses again.    *)
(* The database is external: a call to it succeeds, or fails and does      *)
(* nothing.                                                                *)
(***************************************************************************)
EXTENDS Integers, Sequences, FiniteSetsExt

CONSTANTS
    Queries,   \* the queries the application makes
    Columns,   \* for a select the types of its columns; otherwise <<>>
    Rows,      \* the rows that the database has for each query
    MaxCols,   \* MAX_SELECT_LIST_SIZE
    Faults,    \* the calls of the database interface that may fail
    MaxLost,   \* bound: the logins that are left behind
    Junk,      \* what a buffer holds that nothing has been fetched into
    NULL       \* also the null value of the database

\* A column is fetched into one of three fields, by its type.
Types == {"float", "int", "string"}

ASSUME OracleAssumption ==
    /\ MaxCols \in Nat \ {0}
    /\ MaxLost \in Nat
    /\ \A q \in Queries :
          /\ Columns[q] \in Seq(Types)
          /\ Rows[q] \in Seq({Rows[q][r] : r \in 1 .. Len(Rows[q])})
          /\ \A r \in 1 .. Len(Rows[q]) :
                /\ Rows[q][r] \in Seq({Rows[q][r][c] : c \in 1 .. Len(Rows[q][r])})
                /\ Len(Rows[q][r]) = Len(Columns[q])
          /\ Columns[q] = <<>> => Rows[q] = <<>>

VARIABLES
    kept,        \* the connection of sdb_open: "none", "failed" or "open", and its buffers
    call,        \* the query underway, or NULL
    delivered,   \* what the callback has been given
    logins,      \* how many logins the database holds
    lost,        \* how often a logoff has been of no effect
    crashed

vars == <<kept, call, delivered, logins, lost, crashed>>

\* A select: only these are described and fetched.
IsSelect(q) == Columns[q] # <<>>

Slots == 1 .. MaxCols

\* The buffers of a connection: what each column was last described as, whether it
\* was null, and what each field holds.  Nothing of it is initialised.
Fresh == [c \in Slots |-> [type |-> "string", null |-> FALSE, held |-> [t \in Types |-> Junk]]]

\* What ofetch writes to a buffer, and what store_result reads from it.
Fetched(buffer, value) ==
    IF value = NULL THEN [buffer EXCEPT !.null = TRUE]
    ELSE [buffer EXCEPT !.null = FALSE, !.held[buffer.type] = value]

Shown(buffer) == IF buffer.null THEN NULL ELSE buffer.held[buffer.type]

\* The columns of a query that there is room for.
Width(q) == Min({Len(Columns[q]), MaxCols})

Steps == {"login", "cursor", "parse", "describe", "exec", "fetch", "logoff", "return"}

Values == {Junk, NULL} \cup UNION {UNION {{Rows[q][r][c] : c \in DOMAIN Rows[q][r]} :
                                            r \in DOMAIN Rows[q]} : q \in Queries}

Buffers == [Slots -> [type : Types, null : BOOLEAN, held : [Types -> Values]]]

Calls ==
    [q : Queries, own : BOOLEAN, at : Steps, buffers : Buffers, ncols : Nat, defined : Nat,
     next : Nat \ {0}, res : Int, failed : SUBSET Faults]

ASSUME NullAssumption == NULL \notin Calls

TypeOK ==
    /\ kept \in {"none", "failed", "open"} \X Buffers
    /\ call = NULL \/
          /\ call \in Calls
          /\ call.own \/ kept[1] = "open"
          /\ call.ncols \in 0 .. MaxCols /\ call.defined \in 0 .. MaxCols
          /\ call.next \in 1 .. Len(Rows[call.q]) + 1
          /\ call.res \in -1 .. Len(Rows[call.q])
    /\ logins \in 0 .. MaxLost + 2 /\ lost \in 0 .. MaxLost
    /\ crashed \in BOOLEAN

Init ==
    /\ kept = <<"none", Fresh>>
    /\ call = NULL
    /\ delivered = <<>>
    /\ logins = 0 /\ lost = 0
    /\ crashed = FALSE

MayFail(f) == f \in Faults

At(step) == ~crashed /\ call # NULL /\ call.at = step

Goto(step) == call' = [call EXCEPT !.at = step]

\* Where a query goes that is over: its own connection is closed.
Over == IF call.own THEN "logoff" ELSE "return"

\* The rest of the query is skipped; the answer is -1.  What has failed is
\* remembered for the properties only.
Fails(f, next) ==
    /\ MayFail(f)
    /\ call' = [call EXCEPT !.at = next, !.res = -1, !.failed = {f}]

\* A logoff, and one that is of no effect.
LoggedOff == logins' = logins - 1 /\ UNCHANGED lost

LeftBehind == lost < MaxLost /\ lost' = lost + 1 /\ UNCHANGED logins

---------------------------------------------------------------------------
(* Connections *)

\* sdb_open: both steps of sdb_oracle_open succeed, or the first one fails.
Open ==
    /\ ~crashed /\ call = NULL /\ kept[1] = "none"
    /\ \/ kept' = <<"open", Fresh>> /\ logins' = logins + 1
       \/ MayFail("olog") /\ kept' = <<"failed", Fresh>> /\ UNCHANGED logins
    /\ UNCHANGED <<call, delivered, lost, crashed>>

\* sdb_open with no cursor: the handle is freed, and then the logoff reads it, which
\* may log off, do nothing or crash.
OpenWithoutCursor ==
    /\ ~crashed /\ call = NULL /\ kept[1] = "none" /\ MayFail("oopen")
    /\ \/ kept' = <<"failed", Fresh>> /\ UNCHANGED <<logins, lost, crashed>>
       \/ kept' = <<"failed", Fresh>> /\ lost < MaxLost
          /\ logins' = logins + 1 /\ lost' = lost + 1 /\ UNCHANGED crashed
       \/ crashed' = TRUE /\ UNCHANGED <<kept, logins, lost>>
    /\ UNCHANGED <<call, delivered>>

\* sdb_close, whether or not the cursor can be closed and the database lets the login
\* go; for a connection that could not be opened there is nothing to close.
Close ==
    /\ ~crashed /\ call = NULL /\ kept[1] # "none"
    /\ kept' = <<"none", Fresh>>
    /\ \/ kept[1] = "open" /\ LoggedOff
       \/ kept[1] = "open" /\ MayFail("ologof") /\ LeftBehind
       \/ kept[1] = "failed" /\ UNCHANGED <<logins, lost>>
    /\ UNCHANGED <<call, delivered, crashed>>

---------------------------------------------------------------------------
(* A query *)

\* sdb_query, with the url or with the id of the kept connection: a connection
\* that could not be opened leaves a query to open one of its own.
Call(q, byId) ==
    /\ ~crashed /\ call = NULL
    /\ byId => kept[1] # "none"
    /\ LET own == ~byId \/ kept[1] = "failed"
       IN  call' = [q |-> q, own |-> own, at |-> IF own THEN "login" ELSE "parse",
                    buffers |-> IF own THEN Fresh ELSE kept[2],
                    ncols |-> 0, defined |-> 0, next |-> 1, res |-> 0, failed |-> {}]
    /\ delivered' = <<>>
    /\ UNCHANGED <<kept, logins, lost, crashed>>

\* olog.
Login ==
    /\ At("login")
    /\ \/ Goto("cursor") /\ logins' = logins + 1
       \/ Fails("olog", "return") /\ UNCHANGED logins
    /\ UNCHANGED <<kept, delivered, lost, crashed>>

\* oopen; when it fails, the handle is freed and then read by the logoff.
OpenCursor ==
    /\ At("cursor")
    /\ \/ Goto("parse") /\ UNCHANGED <<logins, lost, crashed>>
       \/ Fails("oopen", "return") /\ (LoggedOff \/ LeftBehind) /\ UNCHANGED crashed
       \/ MayFail("oopen") /\ crashed' = TRUE /\ UNCHANGED <<call, logins, lost>>
    /\ UNCHANGED <<kept, delivered>>

\* oparse, which also forgets what was defined for the statement before.
Parse ==
    /\ At("parse")
    /\ \/ call' = [call EXCEPT !.at = IF IsSelect(call.q) THEN "describe" ELSE "exec"]
       \/ Fails("oparse", Over)
    /\ UNCHANGED <<kept, delivered, logins, lost, crashed>>

\* The first n columns are defined, the first m described: an error is answered by
\* the number 1, which exec_sql takes for the number of columns.
Described(n, m, ncols, failed) ==
    call' = [call EXCEPT !.at = "exec", !.defined = n, !.ncols = ncols, !.failed = failed,
                         !.buffers = [c \in Slots |->
                             IF c <= m THEN [@[c] EXCEPT !.type = Columns[call.q][c]] ELSE @[c]]]

\* odescr or odefin fails for the column behind the first n.
DescribeFails ==
    \E n \in 0 .. Width(call.q) - 1 :
        \/ MayFail("odescr") /\ Described(n, n, 1, {"odescr"})
        \/ MayFail("odefin") /\ Described(n, n + 1, 1, {"odefin"})

\* Slip: the number of columns is not limited.
DescribeUnbounded ==
    /\ At("describe")
    /\ \/ Described(Width(call.q), Width(call.q), Len(Columns[call.q]), {})
       \/ DescribeFails
    /\ UNCHANGED <<kept, delivered, logins, lost, crashed>>

\* Slip: the last column is left out.
DescribeOneLess ==
    /\ At("describe")
    /\ \/ Described(Width(call.q) - 1, Width(call.q) - 1, Width(call.q), {})
       \/ DescribeFails
    /\ UNCHANGED <<kept, delivered, logins, lost, crashed>>

\* describe_define: as many columns as there is room for.
Describe ==
    /\ At("describe")
    /\ \/ Described(Width(call.q), Width(call.q), Width(call.q), {})
       \/ DescribeFails
    /\ UNCHANGED <<kept, delivered, logins, lost, crashed>>

\* oexec.
Exec ==
    /\ At("exec")
    /\ \/ Goto(IF IsSelect(call.q) THEN "fetch" ELSE Over)
       \/ Fails("oexec", Over)
    /\ UNCHANGED <<kept, delivered, logins, lost, crashed>>

\* ofetch and the callback: a row is fetched into the columns that are defined, and
\* the first ncols buffers are passed on.
FetchRow ==
    /\ At("fetch")
    /\ call.next <= Len(Rows[call.q])
    /\ LET row     == Rows[call.q][call.next]
           fetched == [c \in Slots |-> IF c <= call.defined
                                       THEN Fetched(call.buffers[c], row[c])
                                       ELSE call.buffers[c]]
       IN  /\ call' = [call EXCEPT !.next = @ + 1, !.res = @ + 1, !.buffers = fetched]
           /\ delivered' = Append(delivered, [c \in 1 .. call.ncols |-> Shown(fetched[c])])
    /\ UNCHANGED <<kept, logins, lost, crashed>>

\* NO_DATA_FOUND, or an error in the middle of the rows: the answer is their number.
FetchEnds ==
    /\ At("fetch")
    /\ \/ call.next > Len(Rows[call.q]) /\ Goto(Over)
       \/ /\ MayFail("ofetch")
          /\ call' = [call EXCEPT !.at = Over, !.failed = @ \cup {"ofetch"}]
    /\ UNCHANGED <<kept, delivered, logins, lost, crashed>>

\* Slip: a query that has failed returns without closing.
LogOffUnlessFailed ==
    /\ At("logoff")
    /\ IF call.res < 0 THEN UNCHANGED <<logins, lost>>
       ELSE LoggedOff \/ (MayFail("ologof") /\ LeftBehind)
    /\ Goto("return")
    /\ UNCHANGED <<kept, delivered, crashed>>

\* The query's own connection is closed: a failing oclose or ologof is only logged,
\* and the login of a failed ologof stays.
LogOff ==
    /\ At("logoff")
    /\ LoggedOff \/ (MayFail("ologof") /\ LeftBehind)
    /\ Goto("return")
    /\ UNCHANGED <<kept, delivered, crashed>>

\* The buffers stay with the kept connection.
Return ==
    /\ At("return")
    /\ kept' = IF call.own THEN kept ELSE <<kept[1], call.buffers>>
    /\ call' = NULL
    /\ delivered' = <<>>
    /\ UNCHANGED <<logins, lost, crashed>>

Next ==
    \/ Open \/ OpenWithoutCursor \/ Close
    \/ \E q \in Queries, byId \in BOOLEAN : Call(q, byId)
    \/ Login \/ OpenCursor \/ Parse \/ Describe \/ Exec \/ FetchRow \/ FetchEnds
    \/ LogOff \/ Return

Spec == Init /\ [][Next]_vars

---------------------------------------------------------------------------
(* Properties *)

\* The column behind those that were defined could not be.
Undescribed == call.failed \cap {"odescr", "odefin"} # {}

\* What the queries before have left in the first buffer of the connection.
Stale ==
    LET buffer == (IF call.own THEN Fresh ELSE kept[2])[1]
    IN  IF buffer.null THEN {NULL} ELSE {buffer.held[t] : t \in Types}

\* Each query is answered by its own rows, in order, each with all the columns that
\* there is room for, and nulls, whatever the query before it has left in the buffers
\* of the connection; the number returned is that of the rows, or -1 and no row when
\* the login, the cursor, the statement or its execution has failed.  The driver
\* departs from this in three ways, against sdb.3:38-39: when a column cannot be
\* described or defined the rows are passed on with their first value only, and not
\* even that if it is the first column: then each row is one and the same value that
\* an earlier query left; in both cases the number of rows is returned and not -1; and
\* so it is of the rows before an error in the middle (oracle_driver.c:146-290).
QueriesAreAnswered ==
    call # NULL =>
        /\ IF Undescribed /\ call.defined = 0
           THEN \E value \in Stale : delivered = [i \in 1 .. call.next - 1 |-> <<value>>]
           ELSE delivered = [i \in 1 .. call.next - 1 |->
                               SubSeq(Rows[call.q][i], 1, IF Undescribed THEN 1 ELSE Width(call.q))]
        /\ call.at \in {"logoff", "return"} =>
              IF call.failed \cap {"olog", "oopen", "oparse", "oexec"} # {}
              THEN call.res = -1 /\ delivered = <<>>
              ELSE /\ call.res = Len(delivered)
                   /\ "ofetch" \notin call.failed => Len(delivered) = Len(Rows[call.q])

\* Between queries the database holds the login of the kept connection and those that
\* a logoff has left, because it failed or because it read a handle that had been
\* freed; no query leaves one behind in any other way, whichever of its steps fail
\* (oracle_driver.c:114-125, 133-144, 298-307).
LoginsAreAccounted ==
    call = NULL /\ ~crashed => logins = lost + (IF kept[1] = "open" THEN 1 ELSE 0)
=============================================================================
