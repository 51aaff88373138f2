----------------------------- MODULE TextQueries -----------------------------
(***************************************************************************)
(* The parser of text_driver.c, from the text of a query to what           *)
(* TextDriver does with it.  A text is a sequence of tokens: words         *)
(* (columns, files and values, positive numbers as in TextRows), keywords  *)
(* and punctuation.  Words run together make a longer word, which may hold *)
(* a keyword: a name is a sequence of tokens without blanks.  The sizes of *)
(* the buffers are left out.                                               *)
(***************************************************************************)
EXTENDS TextRows, SequencesExt

Sp == -1
Comma == -2
Quote == -3
DQuote == -4
Eq == -5
Lt == -6
Gt == -7
Star == -8
OpenPar == -9
ClosePar == -10
SELECT == -11
FROM == -12
WHERE == -13
UPDATE == -14
SET == -15
INSERT == -16
INTO == -17
VALUES == -18
DELETE == -19

\* "(null)", as it is printed for a NULL pointer.
Nil == -20

Comparators == {Eq, Lt, Gt}

\* The NULL pointer, and a pointer behind the end of the text.
Null == <<0>>
Beyond == <<0, 0>>

Error == [op |-> "error"]

\* The driver reads or writes where it must not, and anything may come of it.
Undefined == [op |-> "undefined"]

---------------------------------------------------------------------------
(* Strings *)

Before(s, stops) ==
    LET i == SelectInSeq(s, LAMBDA t : t \in stops)
    IN  IF i = 0 THEN s ELSE SubSeq(s, 1, i - 1)

Past(s, skipped) ==
    LET i == SelectInSeq(s, LAMBDA t : t \notin skipped)
    IN  IF i = 0 THEN <<>> ELSE SubSeq(s, i, Len(s))

\* strstr, for a word between two blanks.
Places(s, word) ==
    {i \in 1 .. Len(s) - 2 : s[i] = Sp /\ s[i + 1] = word /\ s[i + 2] = Sp}

\* Slip: the word is looked for anywhere.
ChercheAnywhere(s, word) ==
    IF \E i \in 1 .. Len(s) - 1 : s[i] = word
    THEN LET i == SelectInSeq(s, LAMBDA t : t = word) IN SubSeq(s, i + 2, Len(s))
    ELSE Null

\* cherche: what follows the word and a blank, if the text begins with them; when the
\* text ends with the word, the comparison goes on behind it.
Cherche(s, word) ==
    LET text == Past(s, {Sp})
    IN  IF text = <<word>> THEN Beyond
        ELSE IF Len(text) > 1 /\ text[1] = word /\ text[2] = Sp THEN SubSeq(text, 3, Len(text))
        ELSE Null

\* avant, for a word between two blanks.
Avant(s, word) ==
    IF Places(s, word) = {} THEN Null ELSE SubSeq(s, 1, Min(Places(s, word)) - 1)

\* cherche, from the place that avant has found.
Apres(s, word) == SubSeq(s, Min(Places(s, word)) + 3, Len(s))

\* Slip: blanks belong to the values.
FieldsWithBlanks(s, sep) ==
    FoldLeft(LAMBDA fields, t :
                IF t = sep THEN Append(fields, <<>>)
                ELSE Append(Front(fields), Append(Last(fields), t)),
             << <<>> >>, s)

\* get_valeurs and nbre_champs: the fields between the separators, without blanks.
Fields(s, sep) ==
    FoldLeft(LAMBDA fields, t :
                IF t = Sp THEN fields
                ELSE IF t = sep THEN Append(fields, <<>>)
                ELSE Append(Front(fields), Append(Last(fields), t)),
             << <<>> >>, s)

First(s) == Fields(s, Comma)[1]

\* enleve: what is in the quotes; what follows them is dropped.
Enleve(s) ==
    IF s # <<>> /\ s[1] \in {Quote, DQuote} /\ s[1] \in ToSet(Tail(s))
    THEN Before(Tail(s), {s[1]})
    ELSE Null

\* enleve_par: what is in the parentheses.
EnlevePar(s) ==
    LET text == Past(s, {Sp})
    IN  IF text # <<>> /\ text[1] = OpenPar /\ ClosePar \in ToSet(text)
        THEN Before(Tail(text), {ClosePar})
        ELSE Null

---------------------------------------------------------------------------
(* Queries *)

\* The rest of the parser, unless it has failed.
Then(s, Rest(_)) ==
    IF s = Null THEN Error ELSE IF s = Beyond THEN Undefined ELSE Rest(s)

\* What comes before " where ", and after it; "*" stands for no condition.
Unconditional(s) == IF Places(s, WHERE) = {} THEN s ELSE Avant(s, WHERE)

Contrainte(s) == IF Places(s, WHERE) = {} THEN <<Star>> ELSE Apres(s, WHERE)

\* recupere1, recupere2 and recupere3: the first word, the first run of comparators
\* and the word behind that; without a comparator they run out of the text.
Condition(text) ==
    LET left  == Before(Past(text, {Sp}), {Sp} \cup Comparators)
        rest  == SubSeq(text, Len(Before(text, Comparators)) + 1, Len(text))
        comp  == SubSeq(rest, 1, Len(rest) - Len(Past(rest, Comparators)))
        right == Before(Past(rest, {Sp} \cup Comparators), {Sp})
    IN  [left |-> left, comp |-> comp, right |-> right]

Everything == [left |-> <<>>, comp |-> <<Star>>, right |-> <<>>]

\* The query with its condition.
Where(query, s) ==
    LET text == Contrainte(s)
    IN  IF text = <<Star>> THEN query @@ [where |-> Everything]
        ELSE IF ToSet(text) \cap Comparators = {} THEN Undefined
        ELSE query @@ [where |-> Condition(text)]

TraitSelect(q) ==
    Then(Cherche(q, SELECT), LAMBDA s :
    Then(Avant(s, FROM), LAMBDA champs :
        LET rest == Apres(s, FROM)
        IN  Where([op |-> "select", cols |-> Fields(champs, Comma),
                   file |-> First(Unconditional(rest))], rest)))

\* A column and its value in an assignment of an update.
Assignment(s) ==
    LET sides == Fields(s, Eq)
    IN  [col |-> sides[1], value |-> IF Len(sides) > 1 THEN Enleve(sides[2]) ELSE Null]

TraitUpdate(q) ==
    Then(Cherche(q, UPDATE), LAMBDA s :
    Then(Avant(s, SET), LAMBDA file :
        LET rest  == Apres(s, SET)
            texts == Fields(Unconditional(rest), Comma)
            set   == [i \in DOMAIN texts |-> Assignment(texts[i])]
        IN  IF \E i \in DOMAIN set : set[i].value = Null THEN Error
            ELSE Where([op |-> "update", file |-> First(file), set |-> set], rest)))

\* A value without quotes is a NULL pointer, which is printed as "(null)" and then
\* cleared before the next value is.
Printed(field) == IF Enleve(field) = Null THEN <<Nil>> ELSE Enleve(field)

TraitInsert(q) ==
    Then(Cherche(q, INSERT), LAMBDA s :
    Then(Cherche(s, INTO), LAMBDA t :
    Then(Avant(t, VALUES), LAMBDA file :
        LET inside == EnlevePar(Apres(t, VALUES))
            fields == Fields(inside, Comma)
        IN  IF inside = Null \/ Null \in {Enleve(fields[i]) : i \in 1 .. Len(fields) - 1}
            THEN Undefined
            ELSE [op |-> "insert", file |-> First(file),
                  row |-> [i \in DOMAIN fields |-> Printed(fields[i])]])))

TraitDelete(q) ==
    Then(Cherche(q, DELETE), LAMBDA s :
    Then(Cherche(s, FROM), LAMBDA rest :
        Where([op |-> "delete", file |-> First(Unconditional(rest))], rest)))

\* text_driver: the first keyword that is found anywhere decides.
Parse(q) ==
    CASE SELECT \in ToSet(q) -> TraitSelect(q)
      [] SELECT \notin ToSet(q) /\ UPDATE \in ToSet(q) -> TraitUpdate(q)
      [] ToSet(q) \cap {SELECT, UPDATE} = {} /\ INSERT \in ToSet(q) -> TraitInsert(q)
      [] ToSet(q) \cap {SELECT, UPDATE, INSERT} = {} /\ DELETE \in ToSet(q) -> TraitDelete(q)
      [] OTHER -> Error

---------------------------------------------------------------------------
(* What a parsed query means for the rows of a table *)

\* A word, or none; what is run together is no name and no value of the table.
Word(s) == IF s = <<>> THEN Blank ELSE IF Len(s) = 1 /\ s[1] > 0 THEN s[1] ELSE Nil

CompName(comp) ==
    CASE comp = <<Eq>> -> "="   []  comp = <<Lt>> -> "<"   []  comp = <<Gt>> -> ">"
      [] comp = <<Lt, Eq>> -> "<="  []  comp = <<Gt, Eq>> -> ">="
      [] OTHER -> "none"

Meant(where) ==
    IF where = Everything THEN All
    ELSE LET quoted == Enleve(where.right) # Null
         IN  [left |-> Word(where.left), comp |-> CompName(where.comp), quoted |-> quoted,
              right |-> Word(IF quoted THEN Enleve(where.right) ELSE where.right)]

\* The query as the loops over the rows see it; one file is meant.
Denoted(p) ==
    CASE p.op = "select" ->
            [op |-> "select", where |-> Meant(p.where),
             cols |-> IF p.cols = << <<Star>> >> THEN <<>>
                      ELSE [i \in DOMAIN p.cols |-> Word(p.cols[i])]]
      [] p.op = "update" ->
            [op |-> "update", where |-> Meant(p.where),
             set |-> [i \in DOMAIN p.set |->
                         [col |-> Word(p.set[i].col), value |-> Word(p.set[i].value)]]]
      [] p.op = "insert" -> [op |-> "insert", row |-> [i \in DOMAIN p.row |-> Word(p.row[i])]]
      [] p.op = "delete" -> [op |-> "delete", where |-> Meant(p.where)]
=============================================================================
