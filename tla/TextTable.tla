------------------------------ MODULE TextTable ------------------------------
(***************************************************************************)
(* What a table kept by the text driver promises, whatever file operations *)
(* it takes: each query takes effect at one moment between its call and    *)
(* its return, on the whole table.  Two defects of the driver are part of  *)
(* it, since a newline at the end of the file and the copying of its lines *)
(* bring them about.  After a newline every query sees a row too many.  An *)
(* update or delete that keeps no row, or a delete that takes the last     *)
(* one, adds a row to the table before it returns.  A process that dies    *)
(* inside an update or a delete may leave the table damaged: every later   *)
(* query is refused, and the rows are kept only until the next update or   *)
(* delete.                                                                 *)
(***************************************************************************)
EXTENDS TextRows, SequencesExt

CONSTANTS
    Procs,    \* the processes that use the table
    Header,   \* its column names
    Queries,  \* the queries they make
    Tables,   \* what the table may be at first: its rows, NULL if there is no file, and newline
    NULL

VARIABLES
    table,    \* the rows, or NULL
    newline,  \* does a newline follow the last row?
    damaged,
    calls     \* for each process: NULL, or its query, its answer and the row it has still to add

vars == <<table, newline, damaged, calls>>

Refused == [n |-> -1, rows |-> <<>>]

Pending(q) == [query |-> q, answer |-> NULL, more |-> <<>>]
Done(q, a, more) == [query |-> q, answer |-> a, more |-> more]

Rewrites(q) == q.op \in {"update", "delete"}

Matching(q, t) == Chosen(t, Met(Header, t, q.where))

\* The last row, or the header if there is none.
LastRow(t) == IF t = <<>> THEN HeaderLine(Header) ELSE Last(t)

\* The rows that a query sees: after a newline at the end, an empty one more for a
\* select, and the last one again for an update or delete.
Seen(q, t, nl) ==
    IF nl /\ q.op = "select" THEN t \o <<GetValeurs(<<>>, Len(Header))>>
    ELSE IF nl /\ Rewrites(q) THEN t \o <<LastRow(t)>>
    ELSE t

\* What a query makes of the rows t that it sees.
After(q, t) ==
    CASE q.op = "select" -> t
      [] q.op = "insert" -> Append(t, GetValeurs(q.row, Len(Header)))
      [] q.op = "update" ->
            [i \in DOMAIN t |-> IF Holds(Header, t[i], q.where)
                                THEN Assigned(Header, t[i], q.set) ELSE t[i]]
      [] q.op = "delete" -> Chosen(t, DOMAIN t \ Met(Header, t, q.where))

\* The row that an update or delete adds to what it has made of the rows r: the last
\* one that it keeps, if a delete has taken the last of them; and if nothing is kept,
\* the last row of the table as it was.
More(q, t, r) ==
    IF ~Rewrites(q) THEN <<>>
    ELSE IF After(q, r) = <<>> THEN <<LastRow(t)>>
    ELSE IF q.op = "delete" /\ Len(r) \in Met(Header, r, q.where) THEN <<Last(After(q, r))>>
    ELSE <<>>

\* What a query answers: the rows passed to the callback and their number.  An
\* insert answers 0.
Answer(q, t) ==
    CASE q.op = "select" ->
            LET found == Matching(q, t)
            IN  [n |-> Len(found),
                 rows |-> [i \in DOMAIN found |-> GetResult(Header, found[i], q.cols)]]
      [] q.op = "insert" -> [n |-> 0, rows |-> <<>>]
      [] OTHER -> [n |-> Len(Matching(q, t)), rows |-> <<>>]

Init ==
    /\ \E t \in Tables : table = t.rows /\ newline = t.newline
    /\ damaged = FALSE
    /\ calls = [p \in Procs |-> NULL]

Call(p, q) ==
    /\ calls[p] = NULL
    /\ calls' = [calls EXCEPT ![p] = Pending(q)]
    /\ UNCHANGED <<table, newline, damaged>>

\* The query takes effect.
Apply(p) ==
    /\ calls[p] # NULL /\ calls[p].answer = NULL
    /\ table # NULL /\ ~damaged
    /\ LET q == calls[p].query
           r == Seen(q, table, newline)
       IN  /\ table' = IF q.op = "select" THEN table ELSE After(q, r)
           /\ newline' = (q.op = "select" /\ newline)
           /\ calls' = [calls EXCEPT ![p] = Done(q, Answer(q, r), More(q, table, r))]
    /\ UNCHANGED damaged

\* The row too many.
Add(p) ==
    /\ calls[p] # NULL /\ calls[p].more # <<>>
    /\ table' = table \o calls[p].more
    /\ calls' = [calls EXCEPT ![p].more = <<>>]
    /\ UNCHANGED <<newline, damaged>>

\* No table can be read; an update or delete that is refused may destroy the
\* rows that the damage had left.
Refuse(p) ==
    /\ calls[p] # NULL /\ calls[p].answer = NULL
    /\ table = NULL \/ damaged
    /\ calls' = [calls EXCEPT ![p].answer = Refused]
    /\ \/ UNCHANGED table
       \/ damaged /\ Rewrites(calls[p].query) /\ table' = <<>>
    /\ UNCHANGED <<newline, damaged>>

Return(p) ==
    /\ calls[p] # NULL /\ calls[p].answer # NULL /\ calls[p].more = <<>>
    /\ calls' = [calls EXCEPT ![p] = NULL]
    /\ UNCHANGED <<table, newline, damaged>>

\* The process dies.  Only an update or delete that has taken effect can do damage.
Crash(p) ==
    /\ calls[p] # NULL
    /\ calls' = [calls EXCEPT ![p] = NULL]
    /\ \/ UNCHANGED damaged
       \/ Rewrites(calls[p].query) /\ calls[p].answer # NULL /\ damaged' = TRUE
    /\ UNCHANGED <<table, newline>>

Next ==
    \E p \in Procs :
        \/ \E q \in Queries : Call(p, q)
        \/ Apply(p) \/ Add(p) \/ Refuse(p) \/ Return(p) \/ Crash(p)

Spec == Init /\ [][Next]_vars
=============================================================================
