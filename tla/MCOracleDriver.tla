--------------------------- MODULE MCOracleDriver ---------------------------
(* Queries whose columns differ in number and type.                        *)
EXTENDS OracleDriver, TLC

CONSTANTS names, totals, change, wide

MCColumns ==
    (names :> <<"string", "string">>) @@ (totals :> <<"int">>)
        @@ (change :> <<>>) @@ (wide :> <<"int", "float", "string">>)

MCRows ==
    (names :> << <<"a", NULL>>, <<"b", "c">> >>) @@ (totals :> << <<"7">> >>)
        @@ (change :> <<>>) @@ (wide :> << <<"1", "2.5", "d">> >>)
=============================================================================
