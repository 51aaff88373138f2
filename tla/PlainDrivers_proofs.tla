------------------------ MODULE PlainDrivers_proofs -------------------------
(***************************************************************************)
(* Proofs about the drivers that do little but call a client library, for  *)
(* any queries, results and number of connections.                         *)
(***************************************************************************)
EXTENDS PlainDrivers, TLAPS

\* The drivers with an error path that does not close.
Leaving == {"mysql", "odbc", "lago"}

Calls ==
    [q : Queries, own : BOOLEAN, at : {"connect", "exec", "rows", "finish"},
     conn : {"none", "open", "broken"}, next : Nat \ {0}, res : Int,
     failed : {"nothing", "query", "rows"}, before : Nat]

\* What a query has on top of the connections that there were before it.
Added(c) ==
    \/ conns = c.before + (IF c.own THEN Counts(c.conn) ELSE 0)
    \/ /\ c.own /\ c.conn = "none" /\ c.at = "finish" /\ c.failed = "query"
       /\ driver \in Leaving /\ conns = c.before + 1

\* The types, and which connection a query has: one of its own from the end of
\* Connect on, or that of the id.
Shape ==
    /\ driver \in Drivers
    /\ kept \in {"none", "empty", "open", "broken"}
    /\ kept \in {"open", "broken"} => driver \in Keeping
    /\ kept = "broken" => driver = "sqlite3"
    /\ conns \in Nat /\ Counts(kept) <= conns /\ conns <= MaxConns
    /\ call # NULL =>
          /\ call \in Calls
          /\ call.conn = "none" => call.at \in {"connect", "finish"} \/ driver = "shsql"
          /\ call.conn = "broken" => driver = "sqlite3"
          /\ ~call.own => call.conn = kept
          /\ call.at = "connect" => call.own /\ call.conn = "none"
          /\ call.before <= MaxConns /\ Counts(kept) <= call.before
          /\ Added(call)

\* How far a query has come, what it has delivered by then and what it will return.
Progress ==
    call # NULL =>
       /\ call.next - 1 <= Len(Rows[call.q])
       /\ delivered \in Seq({Rows[call.q][i] : i \in 1 .. Len(Rows[call.q])})
       /\ Len(delivered) = call.next - 1
       /\ \A i \in 1 .. Len(delivered) : delivered[i] = Rows[call.q][i]
       /\ call.at \in {"connect", "exec"} => call.next = 1
       /\ call.at # "finish" => call.failed = "nothing"
       /\ call.at = "finish" /\ call.failed = "nothing" =>
             /\ call.next - 1 = Len(Rows[call.q]) /\ call.q \notin Failing
             /\ call.res = -1 => driver = "msql" /\ call.q \in NoResult
       /\ call.res # -1 => call.res = call.next - 1
       /\ call.res = -1 => call.at = "finish" /\ call.failed # "rows" /\ call.next = 1
       /\ call.failed = "query" => call.res = -1
       /\ call.failed = "rows" =>
             driver \in Calling \cup Fetching \/ (driver = "mysql" /\ call.next = 1)

IInv == Shape /\ Progress

---------------------------------------------------------------------------
(* The inductive invariant *)

\* Sequences that agree everywhere are equal.
LEMMA SameSequence ==
    ASSUME NEW S, NEW s \in Seq(S), NEW t \in Seq(S),
           Len(s) = Len(t), \A i \in 1 .. Len(s) : s[i] = t[i]
    PROVE  s = t
OBVIOUS

\* A beginning of a sequence, with its next element.
LEMMA BeginningGrows ==
    ASSUME NEW S, NEW rows, NEW s \in Seq(S), NEW t, t = Append(s, rows[Len(s) + 1]),
           rows[Len(s) + 1] \in S, \A i \in 1 .. Len(s) : s[i] = rows[i]
    PROVE  /\ t \in Seq(S) /\ Len(t) = Len(s) + 1
           /\ \A i \in 1 .. Len(t) : t[i] = rows[i]
OBVIOUS

\* Every action keeps the shape of the state, and the server never has more
\* connections than it accepts.
LEMMA ShapeStep == Shape /\ [Next]_vars => Shape'
<1> USE DEF Keeping, Leaving, Counts
<1> SUFFICES ASSUME Shape, [Next]_vars PROVE Shape'
  OBVIOUS
<1> MaxConns \in Nat BY DriverAssumption DEF DriverAssumption
<1>0. -1 \in Int OBVIOUS
<1>1. CASE Open
  BY <1>1 DEF Open, Opened, Unopened, Shape
<1>2. CASE Close
  BY <1>2 DEF Close, Shape
<1>3. ASSUME NEW q \in Queries, NEW byId \in BOOLEAN, Call(q, byId) PROVE Shape'
  <2>1. kept \in {"open", "broken"} \/ Own(byId)
     BY <1>3 DEF Call, Own, Shape
  <2>2. call' \in Calls BY <1>3, <2>1 DEF Call, Own, Calls, Shape
  <2>3. /\ call'.own = Own(byId) /\ call'.before = conns /\ call'.at \in {"connect", "exec"}
        /\ call'.conn = IF Own(byId) THEN "none" ELSE kept
        /\ call'.at = IF Own(byId) /\ driver # "shsql" THEN "connect" ELSE "exec"
        /\ UNCHANGED <<driver, kept, conns>>
     BY <1>3 DEF Call
  <2>4. Added(call)' BY <2>1, <2>2, <2>3 DEF Calls, Shape, Added
  <2> QED BY <2>1, <2>2, <2>3, <2>4 DEF Shape
<1>4. CASE Connect
  <2>1. call # NULL /\ call \in Calls /\ call.own /\ call.conn = "none" /\ call.at = "connect"
     BY <1>4 DEF Connect, At, Shape
  <2>2. PICK conn \in Opened \ {"empty"} :
           call' = [call EXCEPT !.at = "exec", !.conn = conn] /\ conns' = conns + Counts(conn)
     BY <1>4 DEF Connect
  <2>3. /\ conn \in {"open", "broken"} /\ (conn = "broken" => driver = "sqlite3")
        /\ conn = "open" => conns < MaxConns
     BY DEF Opened, Unopened
  <2>4. call' \in Calls BY <2>1, <2>2, <2>3 DEF Calls
  <2>5. call'.at = "exec" /\ call'.own /\ call'.conn = conn /\ call'.before = call.before
     BY <2>1, <2>2 DEF Calls
  <2>6. conns = call.before BY <2>1 DEF Shape, Added, Calls
  <2>7. UNCHANGED <<driver, kept>> BY <1>4 DEF Connect
  <2> QED BY <2>1, <2>2, <2>3, <2>4, <2>5, <2>6, <2>7 DEF Shape, Added, Calls
<1>5. CASE ConnectFails
  <2>1. call # NULL /\ call \in Calls /\ call.own /\ call.conn = "none" /\ call.at = "connect"
     BY <1>5 DEF ConnectFails, At, Shape
  <2>2. call' = [call EXCEPT !.at = "finish", !.res = -1, !.failed = "query"]
     BY <1>5 DEF ConnectFails
  <2>3. call' \in Calls
    <3>1. PICK r \in Int : call' = [call EXCEPT !.at = "finish", !.res = r, !.failed = "query"]
       BY <2>2, <1>0, Zenon
    <3> QED BY <2>1, <3>1 DEF Calls
  <2>4. call'.at = "finish" /\ call'.own /\ call'.conn = "none" /\ call'.before = call.before
     BY <2>1, <2>2 DEF Calls
  <2>5. conns = call.before BY <2>1 DEF Shape, Added, Calls
  <2>6. UNCHANGED <<driver, kept, conns>> BY <1>5 DEF ConnectFails
  <2> QED BY <2>1, <2>3, <2>4, <2>5, <2>6 DEF Shape, Added
<1>6. CASE Exec \/ ExecCalling \/ Row \/ RowsEnd \/ RowsFail
  <2>1. call # NULL /\ call \in Calls /\ call.at \in {"exec", "rows"}
     BY <1>6 DEF Exec, ExecCalling, Row, RowsEnd, RowsFail, At, Shape
  <2>2. call' \in Calls
    <3>1. CASE Row
      <4>1. call.next + 1 \in Nat \ {0} /\ call.res + 1 \in Int BY <2>1 DEF Calls
      <4>2. \A n \in Nat \ {0}, r \in Int : [call EXCEPT !.next = n, !.res = r] \in Calls
         BY <2>1 DEF Calls
      <4> QED BY <3>1, <4>1, <4>2, Zenon DEF Row
    <3>2. CASE Exec
      <4>1. \A r \in Int : [call EXCEPT !.at = "finish", !.res = r] \in Calls
         BY <2>1 DEF Calls
      <4>2. [call EXCEPT !.at = "rows"] \in Calls BY <2>1 DEF Calls
      <4> QED BY <3>2, <4>1, <4>2, <1>0, Zenon DEF Exec
    <3>3. CASE ExecCalling \/ RowsEnd \/ RowsFail
      BY <2>1, <3>3 DEF ExecCalling, RowsEnd, RowsFail, Calls
    <3> QED BY <1>6, <3>1, <3>2, <3>3
  <2>3. /\ call'.own = call.own /\ call'.conn = call.conn /\ call'.at \in {"rows", "finish"}
        /\ call'.before = call.before
     BY <1>6, <2>1 DEF Exec, ExecCalling, Row, RowsEnd, RowsFail, Calls, At
  <2>4. UNCHANGED <<driver, kept, conns>>
     BY <1>6 DEF Exec, ExecCalling, Row, RowsEnd, RowsFail
  <2>5. conns = call.before + (IF call.own THEN Counts(call.conn) ELSE 0)
     BY <2>1 DEF Shape, Added
  <2> QED BY <2>1, <2>2, <2>3, <2>4, <2>5 DEF Shape, Added
<1>7. CASE ExecFails \/ StatementFails
  <2>1. call # NULL /\ call \in Calls /\ call.at = "exec"
     BY <1>7 DEF ExecFails, StatementFails, At, Shape
  <2>2. UNCHANGED <<driver, kept, conns>> BY <1>7 DEF ExecFails, StatementFails
  <2>3. conns = call.before + (IF call.own THEN Counts(call.conn) ELSE 0)
     BY <2>1 DEF Shape, Added
  <2>4. CASE call' = [call EXCEPT !.at = "finish", !.res = -1, !.failed = "query"]
    <3>1. call' \in Calls
      <4>1. PICK r \in Int : call' = [call EXCEPT !.at = "finish", !.res = r, !.failed = "query"]
         BY <2>4, <1>0, Zenon
      <4> QED BY <2>1, <4>1 DEF Calls
    <3>2. /\ call'.at = "finish" /\ call'.own = call.own /\ call'.conn = call.conn
          /\ call'.before = call.before
       BY <2>1, <2>4 DEF Calls
    <3> QED BY <2>1, <2>2, <2>3, <3>1, <3>2 DEF Shape, Added
  <2>5. CASE /\ call' = [call EXCEPT !.at = "finish", !.res = -1, !.failed = "query", !.conn = "none"]
             /\ call.own /\ driver \in Leaving
    <3>1. call' \in Calls
      <4>1. PICK r \in Int :
               call' = [call EXCEPT !.at = "finish", !.res = r, !.failed = "query", !.conn = "none"]
         BY <2>5, <1>0, Zenon
      <4> QED BY <2>1, <4>1 DEF Calls
    <3>2. /\ call'.at = "finish" /\ call'.own /\ call'.conn = "none"
          /\ call'.before = call.before /\ call'.failed = "query"
       BY <2>1, <2>5 DEF Calls
    <3>3. call.conn = "open" BY <2>1, <2>5 DEF Calls, Shape
    <3>4. conns = call.before + 1 BY <2>3, <2>5, <3>3
    <3> QED BY <2>1, <2>2, <2>5, <3>1, <3>2, <3>4 DEF Shape, Added
  <2>6. CASE ExecFails
    <3>1. PICK closes \in IF call.own THEN ClosesAfterError ELSE {TRUE} :
             call' = [call EXCEPT !.at = "finish", !.res = -1, !.failed = "query",
                                  !.conn = IF closes THEN @ ELSE "none"]
       BY <2>6 DEF ExecFails
    <3>2. CASE closes
      <4>1. call' = [call EXCEPT !.at = "finish", !.res = -1, !.failed = "query"]
         BY <2>1, <3>1, <3>2 DEF Calls
      <4> QED BY <2>4, <4>1
    <3>3. CASE ~closes
      <4>1. call.own /\ driver \in Leaving BY <3>3 DEF ClosesAfterError
      <4> QED BY <2>5, <3>1, <3>3, <4>1
    <3> QED BY <3>2, <3>3
  <2>7. CASE StatementFails
    <3>1. call.own BY <2>1, <2>7 DEF StatementFails, Calls, Shape
    <3> QED BY <2>5, <2>7, <3>1 DEF StatementFails
  <2> QED BY <1>7, <2>6, <2>7
<1>8. CASE Finish
  <2>1. call # NULL /\ call \in Calls /\ Added(call) /\ Counts(kept) <= call.before
        /\ call.before <= MaxConns
     BY <1>8 DEF Finish, At, Shape
  <2>2. conns' \in {call.before, call.before + 1} /\ conns' <= conns
     BY <1>8, <2>1 DEF Finish, Added, Shape, Calls
  <2> QED BY <1>8, <2>1, <2>2 DEF Finish, Calls, Shape
<1>9. CASE UNCHANGED vars
  BY <1>9 DEF vars, Shape, Added
<1> QED
  BY <1>1, <1>2, <1>3, <1>4, <1>5, <1>6, <1>7, <1>8, <1>9 DEF Next

\* Every action keeps what has been delivered a beginning of the rows of the query.
LEMMA ProgressStep == Shape /\ Progress /\ [Next]_vars => Progress'
<1> SUFFICES ASSUME Shape, Progress, [Next]_vars, call' # NULL PROVE Progress'
  BY DEF Progress
<1>1. CASE Open \/ Close \/ Finish
  BY <1>1 DEF Open, Close, Finish, vars, Progress, At
<1>2. ASSUME NEW q \in Queries, NEW byId \in BOOLEAN, Call(q, byId) PROVE Progress'
  <2>1. call'.q = q /\ call'.at \in {"connect", "exec"} /\ call'.next = 1 /\ call'.res = 0
        /\ delivered' = <<>> /\ call'.failed = "nothing"
     BY <1>2 DEF Call
  <2>2. Len(Rows[q]) \in Nat BY DriverAssumption DEF DriverAssumption
  <2> QED BY <2>1, <2>2 DEF Progress
<1>3. CASE Connect \/ ConnectFails \/ Exec \/ ExecCalling \/ ExecFails \/ StatementFails
  <2>1. call # NULL /\ call \in Calls /\ call.at \in {"connect", "exec"}
     BY <1>3 DEF Connect, ConnectFails, Exec, ExecCalling, ExecFails, StatementFails, At, Shape
  <2>2. call'.q = call.q /\ call'.next = call.next
     BY <1>3, <2>1
        DEF Connect, ConnectFails, Exec, ExecCalling, ExecFails, StatementFails, Calls
  <2>3. UNCHANGED <<driver, delivered>>
     BY <1>3 DEF Connect, ConnectFails, Exec, ExecCalling, ExecFails, StatementFails
  <2>4. call.failed = "nothing" /\ call.next = 1 /\ call.res = 0 BY <2>1 DEF Progress, Calls
  <2>5. \/ call'.at \in {"exec", "rows"} /\ call'.res = call.res /\ call'.failed = "nothing"
        \/ call'.at = "finish" /\ call'.res = -1 /\ call'.failed = "query"
        \/ /\ call'.at = "finish" /\ call'.res = -1 /\ call'.failed = "nothing"
           /\ driver = "msql" /\ call.q \in NoResult
        \/ /\ call'.at = "finish" /\ call'.res = call.res /\ call'.failed = "rows"
           /\ driver \in Calling
     BY <1>3, <2>1, <2>4
        DEF Connect, ConnectFails, Exec, ExecCalling, ExecFails, StatementFails, Calls
  <2>6. call.q \in NoResult => Len(Rows[call.q]) = 0 /\ call.q \notin Failing
     BY DriverAssumption DEF DriverAssumption
  <2> QED BY <2>1, <2>2, <2>3, <2>4, <2>5, <2>6 DEF Progress, Calls
<1>4. CASE Row
  <2>1. call # NULL /\ call \in Calls /\ call.at = "rows" /\ call.next <= Len(Rows[call.q])
     BY <1>4 DEF Row, At, Shape
  <2>2. /\ call'.q = call.q /\ call'.next = call.next + 1 /\ call'.at = "rows"
        /\ call'.res = call.res + 1 /\ call'.failed = call.failed
     BY <1>4, <2>1 DEF Row, Calls
  <2>3. call.failed = "nothing" /\ call.res = call.next - 1 BY <2>1 DEF Progress
  <2>4. Len(Rows[call.q]) \in Nat /\ call.next \in Nat \ {0}
     BY <2>1, DriverAssumption DEF DriverAssumption, Calls
  <2>5. /\ delivered' \in Seq({Rows[call.q][i] : i \in 1 .. Len(Rows[call.q])})
        /\ Len(delivered') = call'.next - 1
        /\ \A i \in 1 .. Len(delivered') : delivered'[i] = Rows[call.q][i]
    <3> DEFINE S == {Rows[call.q][i] : i \in 1 .. Len(Rows[call.q])}
    <3>1. /\ delivered \in Seq(S) /\ Len(delivered) = call.next - 1
          /\ \A i \in 1 .. Len(delivered) : delivered[i] = Rows[call.q][i]
       BY <2>1 DEF Progress
    <3>2. Rows[call.q][call.next] \in S BY <2>1, <2>4
    <3>3. call.next = Len(delivered) + 1 BY <2>4, <3>1
    <3>4. delivered' = Append(delivered, Rows[call.q][Len(delivered) + 1])
       BY <1>4, <3>3 DEF Row
    <3>5. Rows[call.q][Len(delivered) + 1] \in S BY <3>2, <3>3
    <3> HIDE DEF S
    <3>6. /\ delivered' \in Seq(S) /\ Len(delivered') = Len(delivered) + 1
          /\ \A i \in 1 .. Len(delivered') : delivered'[i] = Rows[call.q][i]
       BY <3>1, <3>4, <3>5, BeginningGrows
    <3>7. Len(delivered') = call'.next - 1 BY <2>2, <2>4, <3>3, <3>6
    <3> QED BY <3>6, <3>7 DEF S
  <2> QED BY <2>1, <2>2, <2>3, <2>4, <2>5 DEF Progress
<1>5. CASE RowsEnd \/ RowsFail
  <2>1. call # NULL /\ call \in Calls /\ call.at = "rows"
     BY <1>5 DEF RowsEnd, RowsFail, At, Shape
  <2>2. /\ call'.q = call.q /\ call'.next = call.next /\ call'.at = "finish" /\ call'.res = call.res
        /\ \/ /\ call'.failed = call.failed
              /\ call.next > Len(Rows[call.q]) /\ call.q \notin Failing
           \/ /\ call'.failed = "rows"
              /\ driver \in Calling \cup Fetching \/ (driver = "mysql" /\ call.next = 1)
     BY <1>5, <2>1 DEF RowsEnd, RowsFail, Calls
  <2>3. UNCHANGED <<driver, delivered>> BY <1>5 DEF RowsEnd, RowsFail
  <2>4. Len(Rows[call.q]) \in Nat BY <2>1, DriverAssumption DEF DriverAssumption, Calls
  <2> QED BY <2>1, <2>2, <2>3, <2>4 DEF Progress, Calls
<1>6. CASE UNCHANGED vars
  BY <1>6 DEF vars, Progress
<1> QED
  BY <1>1, <1>2, <1>3, <1>4, <1>5, <1>6 DEF Next

\* The invariant holds of every run.
LEMMA DriversSafe == Spec => []IInv
<1>1. Init => IInv
  BY DriverAssumption DEF DriverAssumption, Init, IInv, Shape, Progress, Counts
<1>2. IInv /\ [Next]_vars => IInv'
  BY ShapeStep, ProgressStep DEF IInv
<1> QED BY <1>1, <1>2, PTL DEF Spec

---------------------------------------------------------------------------
(* Theorems *)

\* The state stays well formed: in particular no query has passed on more rows than
\* it has, and no more connections are made than the server accepts.
THEOREM TypeOKAlways == Spec => []TypeOK
<1>1. IInv => TypeOK
  <2> SUFFICES ASSUME IInv PROVE TypeOK
    OBVIOUS
  <2>1. MaxConns \in Nat /\ \A q \in Queries : Len(Rows[q]) \in Nat
     BY DriverAssumption DEF DriverAssumption
  <2>2. call # NULL =>
           call.next \in 1 .. Len(Rows[call.q]) + 1 /\ call.res \in -1 .. Len(Rows[call.q])
     BY <2>1 DEF IInv, Shape, Progress, Calls
  <2> QED BY <2>1, <2>2 DEF IInv, Shape, Calls, TypeOK
<1> QED BY <1>1, DriversSafe, PTL

\* What a number says, for any queries, results and errors: all the rows, or -1 and
\* no row, but where a driver departs from the manual (see QueriesAreAnswered).
THEOREM QueriesAreAnsweredAlways == Spec => []QueriesAreAnswered
<1>1. IInv => QueriesAreAnswered
  <2> SUFFICES ASSUME IInv, At("finish") PROVE QueriesAreAnswered
    BY DEF QueriesAreAnswered
  <2> DEFINE rows == Rows[call.q]
             S == {rows[i] : i \in 1 .. Len(rows)}
  <2>1. call \in Calls /\ call.q \in Queries BY DEF IInv, Shape, At, Calls
  <2>2. rows \in Seq(S) BY <2>1, DriverAssumption DEF DriverAssumption
  <2>3. /\ delivered \in Seq(S) /\ Len(delivered) = call.next - 1 /\ Len(delivered) <= Len(rows)
        /\ \A i \in 1 .. Len(delivered) : delivered[i] = rows[i]
        /\ call.res # -1 => call.res = Len(delivered)
        /\ call.res = -1 => Len(delivered) = 0
     BY <2>1 DEF IInv, Progress, At, Calls
  <2> HIDE DEF S
  <2>4. Len(delivered) = Len(rows) => delivered = rows BY <2>2, <2>3, SameSequence, Zenon
  <2>5. delivered = [i \in 1 .. Len(delivered) |-> rows[i]] BY <2>3
  <2>6. Len(delivered) = 0 => delivered = <<>> BY <2>3
  <2>7. CASE call.failed = "nothing"
    <3>1. Len(delivered) = Len(rows) /\ call.q \notin Failing
          /\ (call.res = -1 => driver = "msql" /\ call.q \in NoResult)
       BY <2>1, <2>3, <2>7 DEF IInv, Progress, At, Calls
    <3>2. delivered = rows BY <2>4, <3>1
    <3> QED BY <2>3, <2>7, <3>1, <3>2 DEF QueriesAreAnswered
  <2>8. CASE call.failed = "query"
    <3>1. call.res = -1 BY <2>8 DEF IInv, Progress, At
    <3> QED BY <2>3, <2>6, <2>8, <3>1 DEF QueriesAreAnswered
  <2>9. CASE call.failed = "rows"
    <3>1. call.res # -1 /\ (driver \in Calling \cup Fetching \/ (driver = "mysql" /\ call.next = 1))
       BY <2>9 DEF IInv, Progress, At
    <3>2. call.res = Len(delivered) BY <2>3, <3>1
    <3>3. delivered = [i \in 1 .. call.res |-> rows[i]] BY <2>5, <3>2
    <3>4. call.next = 1 => delivered = <<>> BY <2>3, <2>6
    <3> QED BY <2>9, <3>1, <3>2, <3>3, <3>4 DEF QueriesAreAnswered
  <2> QED BY <2>1, <2>7, <2>8, <2>9 DEF Calls
<1> QED BY <1>1, DriversSafe, PTL

\* A query with any of the eight drivers gives back the connection it has made and
\* leaves that of the id alone, but for those that mysql, odbc and lago forget when
\* a query cannot be made on a connection of its own.
THEOREM QueriesGiveBackAlways == Spec => QueriesGiveBack
<1> DEFINE Back == At("finish") =>
                      \/ conns' = call.before
                      \/ /\ conns' = call.before + 1
                         /\ call.own /\ call.failed = "query" /\ driver \in {"mysql", "odbc", "lago"}
<1>1. IInv /\ [Next]_vars => [Back]_vars
  <2> SUFFICES ASSUME IInv, Next, At("finish") PROVE Back
    OBVIOUS
  <2>1. call \in Calls /\ Added(call) BY DEF IInv, Shape, At
  <2>2. Finish
    BY DEF Next, At, Open, Close, Call, Connect, ConnectFails, Exec, ExecCalling, ExecFails,
           StatementFails, Row, RowsEnd, RowsFail
  <2>3. conns' = conns - (IF call.own THEN Counts(call.conn) ELSE 0) BY <2>2 DEF Finish
  <2> QED BY <2>1, <2>3 DEF Added, Leaving, Counts, IInv, Shape, Calls
<1> QED BY <1>1, DriversSafe, PTL DEF Spec, QueriesGiveBack
=============================================================================
