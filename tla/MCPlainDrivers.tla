--------------------------- MODULE MCPlainDrivers ---------------------------
(* A query with two rows, one without rows, a statement without a result,  *)
(* and queries that fail at once and after a row.                          *)
EXTENDS PlainDrivers, TLC

CONSTANTS names, nothing, change, wrong, late, r1, r2

MCRows ==
    (names :> <<r1, r2>>) @@ (nothing :> <<>>) @@ (change :> <<>>)
        @@ (wrong :> <<>>) @@ (late :> <<r1>>)
=============================================================================
