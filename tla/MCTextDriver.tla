---------------------------- MODULE MCTextDriver ----------------------------
(* A small table for TLC: two columns, values "", 1 and 2.                 *)
EXTENDS TextDriver, TextQueries

MCHeader == <<1, 2>>

Is(col, value) == [left |-> col, comp |-> "=", quoted |-> TRUE, right |-> value]

SelectAll == [op |-> "select", cols |-> <<>>, where |-> All]

SelectSmall ==
    [op |-> "select", cols |-> <<2>>,
     where |-> [left |-> 1, comp |-> "<", quoted |-> FALSE, right |-> 2]]

InsertRow(row) == [op |-> "insert", row |-> row]

\* An assignment to a column that does not exist is among these.
UpdateSecond ==
    [op |-> "update", where |-> Is(1, 1),
     set |-> <<[col |-> 2, value |-> 1], [col |-> 3, value |-> 1], [col |-> 2, value |-> 2]>>]

DeleteFirst == [op |-> "delete", where |-> Is(1, 1)]

Serial == {SelectAll, SelectSmall, InsertRow(<<1, 1>>), InsertRow(<<2>>), UpdateSecond, DeleteFirst}

\* The texts of these queries, as the parser of the driver reads them.
SerialTexts ==
    {<<SELECT, Sp, Star, Sp, FROM, Sp, 1>>,
     <<SELECT, Sp, 2, Sp, FROM, Sp, 1, Sp, WHERE, Sp, 1, Lt, 2>>,
     <<INSERT, Sp, INTO, Sp, 1, Sp, VALUES, Sp, OpenPar,
       Quote, 1, Quote, Comma, Sp, Quote, 1, Quote, ClosePar>>,
     <<INSERT, Sp, INTO, Sp, 1, Sp, VALUES, Sp, OpenPar, Quote, 2, Quote, ClosePar>>,
     <<UPDATE, Sp, 1, Sp, SET, Sp, 2, Eq, Quote, 1, Quote, Comma, 3, Eq, Quote, 1, Quote,
       Comma, 2, Eq, Quote, 2, Quote, Sp, WHERE, Sp, 1, Sp, Eq, Sp, Quote, 1, Quote>>,
     <<DELETE, Sp, FROM, Sp, 1, Sp, WHERE, Sp, 1, Eq, DQuote, 1, DQuote>>}

ASSUME SerialIsRead == Serial = {Denoted(Parse(text)) : text \in SerialTexts}

MCFiles ==
    {NULL} \cup
    {[lines |-> <<HeaderWord>> \o rows, nl |-> nl] :
        rows \in {<<>>, << <<1, 2>> >>, << <<1, 2>>, <<2, 1>> >>}, nl \in BOOLEAN}
=============================================================================
