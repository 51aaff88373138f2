--------------------------- MODULE MCSdbdSession ---------------------------
(* Small databases for SdbdSession.                                        *)
EXTENDS SdbdSession, TLC

CONSTANTS two, none, bad, blank, null

\* A column of data that could be read as a number, an empty one and a null
\* value; a statement that returns no rows; a query that the database refuses.
MCAnswer ==
    (two :> << << <<"x", "2">>, <<>> >>, << null, <<" ">> >> >>)
        @@ (none :> <<>>) @@ (bad :> <<>>) @@ (blank :> <<>>)
=============================================================================
