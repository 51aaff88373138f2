---------------------------- MODULE MCTdsDriver ----------------------------
(* Queries with one result, with two, with none, and with a value that is   *)
(* no text.                                                                *)
EXTENDS TdsDriver, TLC

CONSTANTS names, batch, change, image, wrong, blob

MCValues == {"a", "b", "c", blob}

MCResults ==
    (names :> << << <<"a", "b">>, <<NULL, "c">> >>, <<>> >>)
        @@ (batch :> << << <<"a">>, <<"b">> >>, << <<"c", "a">> >> >>)
        @@ (change :> << <<>> >>)
        @@ (image :> << << <<"a">>, <<blob>> >> >>)
        @@ (wrong :> <<>>)
=============================================================================
