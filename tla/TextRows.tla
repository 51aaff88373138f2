------------------------------ MODULE TextRows ------------------------------
(***************************************************************************)
(* Rows, columns and conditions of text_driver.c.  A value is a number: its *)
(* place in the order of strcmp, 0 being the empty string.  A line of the  *)
(* file is the sequence of its values; the header holds the column names   *)
(* in braces, which sort behind every value used here.                     *)
(***************************************************************************)
EXTENDS Integers, Sequences, FiniteSetsExt

Blank == 0

Brace == 100

\* The header line for the given column names.
HeaderLine(header) == [i \in DOMAIN header |-> Brace + header[i]]

\* get_valeurs: a line is read as so many values, the missing ones empty and the
\* surplus ones dropped.
GetValeurs(line, n) == [i \in 1 .. n |-> IF i <= Len(line) THEN line[i] ELSE Blank]

\* num_champs: the last column of that name, 0 if there is none.
NumChamps(header, name) ==
    LET at == {i \in DOMAIN header : header[i] = name}
    IN  IF at = {} THEN 0 ELSE Max(at)

\* The condition of a query without a "where".
All == [left |-> 0, comp |-> "*", quoted |-> TRUE, right |-> 0]

Compare(x, comp, y) ==
    \/ comp = "="  /\ x = y
    \/ comp = "<"  /\ x < y
    \/ comp = ">"  /\ x > y
    \/ comp = "<=" /\ x <= y
    \/ comp = ">=" /\ x >= y

\* verif_contrainte, > 0: the left side must name a column; the right side is a
\* column if it names one and otherwise must be a value in quotes.
Holds(header, row, where) ==
    LET left  == NumChamps(header, where.left)
        right == IF where.quoted THEN 0 ELSE NumChamps(header, where.right)
    IN  \/ where = All
        \/ /\ left # 0
           /\ right # 0 \/ where.quoted
           /\ Compare(row[left], where.comp, IF right # 0 THEN row[right] ELSE where.right)

\* The rows that meet a condition, by their places.
Met(header, rows, where) == {k \in DOMAIN rows : Holds(header, rows[k], where)}

\* The rows at these places, in their order.
Chosen(rows, places) ==
    [i \in 1 .. Cardinality(places) |->
        rows[CHOOSE k \in places : Cardinality({j \in places : j <= k}) = i]]

\* get_result: the selected columns; <<>> stands for "*".
GetResult(header, row, cols) ==
    IF cols = <<>> THEN row
    ELSE [i \in DOMAIN cols |-> row[NumChamps(header, cols[i])]]

\* The row that an update writes: the last assignment to a column counts, and an
\* assignment to a column that does not exist is ignored.
Assigned(header, row, set) ==
    [i \in DOMAIN row |->
        LET by == {j \in DOMAIN set : NumChamps(header, set[j].col) = i}
        IN  IF by = {} THEN row[i] ELSE set[Max(by)].value]
=============================================================================
