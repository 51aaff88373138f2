--------------------------- MODULE MCIngresDriver ---------------------------
(* Queries that differ in the number and the types of their columns, with  *)
(* nulls at the beginning and after a value, and with a long value.        *)
EXTENDS IngresDriver, TLC

CONSTANTS names, totals, change, story, va, vb, vc, vd

MCColumns ==
    (names :> <<"char", "varying">>) @@ (totals :> <<"integer8", "char">>)
        @@ (change :> <<>>) @@ (story :> <<"char", "char">>)

MCRows ==
    (names :> << <<va, vb>>, <<NULL, vc>> >>) @@ (totals :> << <<NULL, va>> >>)
        @@ (change :> <<>>) @@ (story :> << <<va, vd>>, <<vb, vc>> >>)
=============================================================================
