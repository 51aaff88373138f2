---------------------------- MODULE MCTextQueries ----------------------------
(***************************************************************************)
(* The parser is given the texts of queries, with blanks wherever SQL and  *)
(* the driver allow them, texts that differ from these in one token, and   *)
(* texts that hold the words of the language within their values.          *)
(***************************************************************************)
EXTENDS TextQueries

CONSTANT NULL

VARIABLES
    meant,     \* what the text says, or NULL
    request,
    outcome    \* what the driver makes of it, or NULL

vars == <<meant, request, outcome>>

---------------------------------------------------------------------------
(* Queries and their texts *)

\* Columns and files, and values.
Names == {1, 2}
Vals == {3, 4}

Quoted(v) == <<Quote, v, Quote>>

Conditions ==
    {Everything} \cup
    {[left |-> <<n>>, comp |-> comp, right |-> right] :
        n \in Names, comp \in {<<Eq>>, <<Lt>>, <<Gt, Eq>>},
        right \in {Quoted(v) : v \in Vals} \cup {<<m>> : m \in Names}}

Meanings ==
    [op : {"select"}, file : {<<n>> : n \in Names},
     cols : {<< <<Star>> >>} \cup [1 .. 2 -> {<<n>> : n \in Names}], where : Conditions]
    \cup [op : {"update"}, file : {<<n>> : n \in Names}, where : Conditions,
          set : UNION {[1 .. k -> [col : {<<n>> : n \in Names}, value : {<<v>> : v \in Vals}]] :
                          k \in 1 .. 2}]
    \cup [op : {"insert"}, file : {<<n>> : n \in Names},
          row : UNION {[1 .. k -> {<<v>> : v \in Vals}] : k \in 1 .. 2}]
    \cup [op : {"delete"}, file : {<<n>> : n \in Names}, where : Conditions]

\* Stands for a place where there may be a blank.
Gap == -50

Listed(items) ==
    FoldLeft(LAMBDA text, item : IF text = <<>> THEN item ELSE text \o <<Gap, Comma, Gap>> \o item,
             <<>>, items)

Written(where) ==
    IF where = Everything THEN <<Gap>>
    ELSE <<Gap, Sp, WHERE, Sp, Gap>> \o where.left \o <<Gap>> \o where.comp \o <<Gap>>
            \o where.right \o <<Gap>>

Sketch(m) ==
    CASE m.op = "select" ->
            <<Gap, SELECT, Sp, Gap>> \o Listed(m.cols) \o <<Gap, Sp, FROM, Sp, Gap>> \o m.file
               \o Written(m.where)
      [] m.op = "update" ->
            <<Gap, UPDATE, Sp, Gap>> \o m.file \o <<Gap, Sp, SET, Sp, Gap>>
               \o Listed([i \in DOMAIN m.set |->
                             m.set[i].col \o <<Gap, Eq, Gap>> \o Quoted(m.set[i].value[1])])
               \o Written(m.where)
      [] m.op = "insert" ->
            <<Gap, INSERT, Sp, Gap, INTO, Sp, Gap>> \o m.file \o <<Gap, Sp, VALUES, Sp, Gap, OpenPar, Gap>>
               \o Listed([i \in DOMAIN m.row |-> Quoted(m.row[i][1])]) \o <<Gap, ClosePar, Gap>>
      [] m.op = "delete" ->
            <<Gap, DELETE, Sp, Gap, FROM, Sp, Gap>> \o m.file \o Written(m.where)

\* The text with blanks at no gap, at every gap, or at one gap.
Spaced(sketch, gaps) ==
    FlattenSeq([i \in DOMAIN sketch |->
        IF sketch[i] # Gap THEN <<sketch[i]>> ELSE IF i \in gaps THEN <<Sp>> ELSE <<>>])

Texts(m) ==
    LET sketch == Sketch(m)
        gaps   == {i \in DOMAIN sketch : sketch[i] = Gap}
    IN  {Spaced(sketch, g) : g \in {{}, gaps} \cup {{i} : i \in gaps}}

Tokens == Names \cup Vals \cup {Sp, Comma, Quote, Eq, Star, ClosePar,
                                 SELECT, FROM, WHERE, UPDATE, SET, INSERT, VALUES, DELETE}

If(left, comp, right) == [left |-> left, comp |-> comp, right |-> right]

Samples ==
    {[op |-> "select", file |-> <<1>>, cols |-> << <<1>>, <<2>> >>, where |-> If(<<2>>, <<Lt, Eq>>, Quoted(3))],
     [op |-> "update", file |-> <<1>>, where |-> If(<<1>>, <<Eq>>, <<2>>),
      set |-> <<[col |-> <<1>>, value |-> <<3>>], [col |-> <<2>>, value |-> <<4>>]>>],
     [op |-> "insert", file |-> <<2>>, row |-> << <<3>>, <<4>> >>],
     [op |-> "delete", file |-> <<2>>, where |-> If(<<1>>, <<Gt>>, Quoted(4))]}

Keywords == {SELECT, FROM, WHERE, UPDATE, SET, INSERT, INTO, VALUES, DELETE}

\* Values of several words, among them the parser's own, and whole queries as values.
Phrases ==
    {<<k>> : k \in Keywords} \cup {<<3, Sp, k, Sp, 4>> : k \in Keywords}
    \cup {<<SELECT, Sp, 1, Sp, FROM, Sp, 2>>, <<DELETE, Sp, FROM, Sp, 2>>, <<3, Sp, WHERE, Sp, 1, Eq, 4>>}

\* Texts with the phrase v for a value, and with a second comparison, which
\* README.text:27-29 excludes.
Holding(v) ==
    LET value  == <<Quote>> \o v \o <<Quote>>
        wheres == <<Sp, WHERE, Sp, 2, Eq>> \o value
        more   == <<Sp, 1, Sp, 2, Lt>> \o Quoted(3)
    IN  {<<SELECT, Sp, Star, Sp, FROM, Sp, 1>> \o wheres,
         <<DELETE, Sp, FROM, Sp, 1>> \o wheres, <<DELETE, Sp, FROM, Sp, 1>> \o wheres \o more,
         <<UPDATE, Sp, 1, Sp, SET, Sp, 1, Eq>> \o value \o <<Comma, 2, Eq>> \o Quoted(3) \o wheres,
         <<INSERT, Sp, INTO, Sp, 2, Sp, VALUES, Sp, OpenPar>> \o Quoted(4) \o <<Comma>> \o value \o <<ClosePar>>}

\* One token is missing, another one or one too many.
Slipped(text) ==
    {RemoveAt(text, i) : i \in DOMAIN text}
    \cup {ReplaceAt(text, i, t) : i \in DOMAIN text, t \in Tokens}
    \cup {InsertAt(text, i, t) : i \in DOMAIN text, t \in Tokens}

---------------------------------------------------------------------------
Init ==
    /\ outcome = NULL
    /\ \/ meant \in Meanings /\ request \in Texts(meant)
       \/ meant = NULL /\ request \in UNION {Slipped(Spaced(Sketch(m), {})) : m \in Samples}
       \/ meant = NULL /\ \E v \in Phrases : \E text \in Holding(v) : request \in {text} \cup Slipped(text)

\* The driver is called with the text.
Handle ==
    /\ outcome = NULL
    /\ outcome' = Parse(request)
    /\ UNCHANGED <<meant, request>>

Spec == Init /\ [][Handle]_vars

---------------------------------------------------------------------------
(* Properties *)

\* A query whose names and values are single words is taken for what it says,
\* wherever there are blanks (text_driver.c:55-640).
RoundTrip == outcome # NULL /\ meant # NULL => outcome = meant

OfCondition(where) == IF where = Everything THEN <<>> ELSE where.left \o where.comp \o where.right

\* What an accepted query consists of, in the order of the text.
Reading(p) ==
    CASE p.op = "select" -> <<SELECT>> \o FlattenSeq(p.cols) \o p.file \o OfCondition(p.where)
      [] p.op = "update" ->
            <<UPDATE>> \o p.file
               \o FlattenSeq([i \in DOMAIN p.set |-> p.set[i].col \o p.set[i].value])
               \o OfCondition(p.where)
      [] p.op = "insert" ->
            <<INSERT>> \o p.file
               \o FlattenSeq(IF Last(p.row) = <<Nil>> THEN Front(p.row) ELSE p.row)
      [] p.op = "delete" -> <<DELETE>> \o p.file \o OfCondition(p.where)

\* The text without its blanks begins with these tokens and has the others in order.
ReadOff(reading, text) ==
    /\ Past(text, {Sp})[1] = reading[1]
    /\ FoldLeft(LAMBDA left, t : IF left # <<>> /\ left[1] = t THEN Tail(left) ELSE left,
                reading, text) = <<>>

\* What is executed is of the kind that the text begins with, also if the text holds
\* the words of other queries in its values; its names, values and condition are those
\* of the text in their order, not taken twice or moved to another place; and a text
\* with a " where " has a condition, unless that is "*", or the "where" has become part
\* of a name (text_driver.c:271-499).
\* What the parser adds or leaves out: the last value of an insert is "(null)" if it
\* has no quotes (1015-1016); of a condition only the first word and the first
\* comparison count, so that the query acts on more rows than it says where there are
\* several (633; README.text:27-29 has no such queries); what follows a closing quote
\* or parenthesis, or a comma behind the file, is dropped.
\* Nothing is said of a text on which the driver leaves its buffers.
NothingIsMadeUp ==
    outcome # NULL /\ outcome \notin {Error, Undefined} =>
        /\ ReadOff(Reading(outcome), request)
        /\ outcome.op # "insert" /\ outcome.where = Everything =>
               \/ Places(request, WHERE) = {} \/ Contrainte(request) = <<Star>>
               \/ WHERE \in ToSet(Reading(outcome))
=============================================================================
