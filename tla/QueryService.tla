---------------------------- MODULE QueryService ----------------------------
(***************************************************************************)
(* What an application may count on when it calls sdb_query.  sdb.3:36-39  *)
(* promises that the callback is called once for each row and that the     *)
(* call returns the number of rows, or -1 for an error: that is Call, Row, *)
(* Return and ReturnError.  HideError and ReturnNothing are what this      *)
(* promise does not allow and an implementation may do all the same: they  *)
(* are actions of their own so that it is seen where they are needed.      *)
(***************************************************************************)
EXTENDS Integers, Sequences

CONSTANTS
    Queries,      \* the queries the application makes
    Failing,      \* those of them that are errors for the database
    Answer,       \* the rows of every query, as text
    Hiding,       \* is an error hidden from the application?
    NULL

VARIABLES
    pending,      \* the query being made, or NULL
    delivered,    \* the rows the callback has had for it
    returned,     \* what the last call that returned has returned, or NULL
    ended         \* whether the session that the query is made in has been ended, by a
                  \* query that failed; it may change at any time

svars == <<pending, delivered, returned>>

Init ==
    /\ pending = NULL
    /\ delivered = <<>>
    /\ returned = NULL

Call(q) ==
    /\ pending = NULL
    /\ pending' = q
    /\ UNCHANGED <<delivered, returned>>

Row ==
    /\ pending \in Queries \ Failing
    /\ Len(delivered) < Len(Answer[pending])
    /\ delivered' = Append(delivered, Answer[pending][Len(delivered) + 1])
    /\ UNCHANGED <<pending, returned>>

\* All the rows have been delivered.
Return ==
    /\ pending \in Queries \ Failing
    /\ delivered = Answer[pending]
    /\ returned' = [q |-> pending, n |-> Len(delivered)]
    /\ pending' = NULL
    /\ delivered' = <<>>

\* The query is an error, or the database cannot be reached.
ReturnError ==
    /\ pending # NULL
    /\ delivered = <<>>
    /\ returned' = [q |-> pending, n |-> -1]
    /\ pending' = NULL
    /\ UNCHANGED delivered

\* The query is an error, and the application is told that it has no rows.
HideError ==
    /\ Hiding
    /\ pending \in Failing
    /\ delivered = <<>>
    /\ returned' = [q |-> pending, n |-> 0]
    /\ pending' = NULL
    /\ UNCHANGED delivered

\* Nobody is left to answer, and the application is told that there are no rows.
ReturnNothing ==
    /\ ended
    /\ pending # NULL
    /\ delivered = <<>>
    /\ returned' = [q |-> pending, n |-> 0]
    /\ pending' = NULL
    /\ UNCHANGED delivered

Next ==
    \/ \E q \in Queries : Call(q)
    \/ Row
    \/ Return
    \/ ReturnError
    \/ HideError
    \/ ReturnNothing

Spec == Init /\ [][Next]_svars
=============================================================================
