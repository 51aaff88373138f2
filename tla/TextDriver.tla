----------------------------- MODULE TextDriver -----------------------------
(***************************************************************************)
(* text_driver.c: a table in a text file, its header on the first line and *)
(* a row on each further one.  A step is what a process does to the file   *)
(* system between two points at which another one can see it, or at which  *)
(* a crash would leave a different state behind: what is printed reaches a *)
(* file when it is closed, the tables here being smaller than the buffer   *)
(* of stdio.  An update or a delete writes the new rows to a temporary     *)
(* file, truncates the table, copies them back and removes the temporary   *)
(* file; these queries have the table to themselves in this model.         *)
(***************************************************************************)
EXTENDS TextRows, FiniteSets, SequencesExt

CONSTANTS
    Procs,    \* the processes that use the table
    Header,   \* its column names
    Queries,  \* the queries they make
    Files,    \* what the file may be at first; NULL if it is missing
    Limit,    \* bound: lines in the file beyond which nothing is inserted
    Crashes,  \* bound: how many processes die in the middle of a query
    NULL

\* What a file may hold, and what a query may answer.
TextFiles == [lines : Seq(Seq(Nat)), nl : BOOLEAN]

Answers == [n : Int, rows : Seq(Seq(Nat))]

Stages == {"called", "reading", "append", "truncate", "copy", "unlink", "answered"}

\* The columns that a select names are in the header: get_result takes any other
\* one from before the row.
ASSUME TextAssumption ==
    /\ Header \in Seq(Nat)
    /\ \A q \in Queries :
          \/ /\ q.op = "select" /\ q.cols \in Seq(Nat)
             /\ \A i \in DOMAIN q.cols : NumChamps(Header, q.cols[i]) # 0
          \/ q.op = "insert" /\ q.row \in Seq(Nat)
          \/ q.op = "update" /\ q.set \in Seq([col : Nat, value : Nat])
          \/ q.op = "delete"
    /\ Files \ {NULL} \subseteq TextFiles
    /\ Limit \in Nat /\ Crashes \in Nat
    /\ NULL \notin Seq(Seq(Nat)) /\ NULL \notin TextFiles /\ NULL \notin Answers
    /\ NULL \notin [query : Queries, answer : Answers \cup {NULL}, more : Seq(Seq(Nat))]
    /\ NULL \notin [query : Queries, at : Stages, seen : TextFiles \cup {NULL},
                    answer : Answers \cup {NULL}]

VARIABLES
    file,     \* the file: its lines, and whether a newline ends the last one
    temp,     \* fichier_temporaire.perso; NULL if it does not exist
    procs,    \* for each process: NULL, or its query, where it is in it and what it has read
    crashes

vars == <<file, temp, procs, crashes>>

Empty == [lines |-> <<>>, nl |-> FALSE]

HeaderWord == HeaderLine(Header)

Width == Len(Header)

Rewrites(q) == q.op \in {"update", "delete"}

\* trait_entete fails on a first line that is not a header, or is missing.
HasHeader(g) == g.lines # <<>> /\ g.lines[1] = HeaderWord

Torn == file # NULL /\ ~HasHeader(file)

\* Nothing can be read: the file is missing, or has no header.
Unreadable == file = NULL \/ Torn

TypeOK ==
    /\ file = NULL \/ DOMAIN file = {"lines", "nl"}
    /\ temp = NULL \/ DOMAIN temp = {"lines", "nl"}
    /\ \A p \in Procs : procs[p] # NULL =>
          /\ procs[p].query \in Queries
          /\ procs[p].at \in Stages
          /\ procs[p].at \in {"truncate", "copy", "unlink"} => Rewrites(procs[p].query) /\ temp # NULL
          /\ procs[p].at = "copy" => file = Empty
    /\ crashes \in 0 .. Crashes

Init ==
    /\ file \in Files
    /\ temp = NULL
    /\ procs = [p \in Procs |-> NULL]
    /\ crashes = 0

At(p, where) == procs[p] # NULL /\ procs[p].at = where

Moved(p, where) == procs' = [procs EXCEPT ![p].at = where]

Answered(p, n, rows) ==
    procs' = [procs EXCEPT ![p].at = "answered", ![p].answer = [n |-> n, rows |-> rows]]

---------------------------------------------------------------------------
(* The loops over the lines of a file *)

\* get_valeurs, for each line that is read.
Row(line) == GetValeurs(line, Width)

Contents(lines) == [i \in DOMAIN lines |-> Row(lines[i])]

\* select reads until feof: after a newline at the end of the file comes one more
\* line, which is empty since the buffer has been cleared.
SelectScan(g) == Contents(Tail(g.lines) \o (IF g.nl THEN << <<>> >> ELSE <<>>))

\* update and delete do not clear the buffer: the last line comes again.
RewriteScan(g) == Contents(Tail(g.lines) \o (IF g.nl THEN <<Last(g.lines)>> ELSE <<>>))

Matches(q, row) == Holds(Header, row, q.where)

Matching(q, rows) == Chosen(rows, Met(Header, rows, q.where))

\* What update prints to the temporary file: no newline follows the last row.
UpdateTemp(q, rows) ==
    [lines |-> [i \in DOMAIN rows |-> IF Matches(q, rows[i])
                                      THEN Assigned(Header, rows[i], q.set) ELSE rows[i]],
     nl |-> FALSE]

\* What delete prints: a newline follows each row kept but the last one read.
DeleteTemp(q, rows) ==
    LET met == Met(Header, rows, q.where)
    IN  [lines |-> Chosen(rows, DOMAIN rows \ met),
         nl |-> met # DOMAIN rows /\ Len(rows) \in met]

Rewritten(q, g) ==
    IF q.op = "update" THEN UpdateTemp(q, RewriteScan(g)) ELSE DeleteTemp(q, RewriteScan(g))

\* Slip: the header is not written again.
CopyWithoutHeader(g, buffer) == [lines |-> g.lines, nl |-> FALSE]

\* The copy back also runs until feof: after a newline at the end the last line is
\* written twice, and from an empty file comes what the buffer still holds.
Added(g, buffer) ==
    IF g.lines = <<>> THEN <<buffer>> ELSE IF g.nl THEN <<Last(g.lines)>> ELSE <<>>

Copied(g, buffer) ==
    [lines |-> <<HeaderWord>> \o g.lines \o Added(g, buffer), nl |-> FALSE]

---------------------------------------------------------------------------
(* Queries *)

Call(p, q) ==
    /\ procs[p] = NULL
    /\ \A o \in Procs : procs[o] # NULL => ~Rewrites(q) /\ ~Rewrites(procs[o].query)
    /\ q.op = "insert" /\ file # NULL =>
          Len(file.lines) + Cardinality({o \in Procs : procs[o] # NULL}) < Limit
    /\ procs' = [procs EXCEPT ![p] =
                    [query |-> q, at |-> "called", seen |-> NULL, answer |-> NULL]]
    /\ UNCHANGED <<file, temp, crashes>>

\* Slip: an insert does not look at the header.
OpenForAppend(p) ==
    /\ At(p, "called")
    /\ temp' = IF Rewrites(procs[p].query) THEN Empty ELSE temp
    /\ IF file = NULL \/ (Torn /\ procs[p].query.op # "insert") THEN Answered(p, -1, <<>>)
       ELSE procs' = [procs EXCEPT ![p].seen = file,
                                   ![p].at = IF procs[p].query.op = "insert" THEN "append" ELSE "reading"]
    /\ UNCHANGED <<file, crashes>>

\* file_open and the header.  An update or delete empties the temporary file
\* before it knows whether it can read the table.
Open(p) ==
    /\ At(p, "called")
    /\ temp' = IF Rewrites(procs[p].query) THEN Empty ELSE temp
    /\ IF Unreadable THEN Answered(p, -1, <<>>)
       ELSE procs' = [procs EXCEPT ![p].seen = file,
                                   ![p].at = IF procs[p].query.op = "insert" THEN "append" ELSE "reading"]
    /\ UNCHANGED <<file, crashes>>

\* Reading on at the end of what has been read: something was appended meanwhile.
ReadMore(p) ==
    /\ At(p, "reading")
    /\ procs[p].seen # file
    /\ procs' = [procs EXCEPT ![p].seen = file]
    /\ UNCHANGED <<file, temp, crashes>>

\* The end of the file, for a select: the rows have been passed to the callback.
SelectEnds(p) ==
    /\ At(p, "reading") /\ procs[p].query.op = "select"
    /\ procs[p].seen = file
    /\ LET q     == procs[p].query
           found == Matching(q, SelectScan(file))
       IN  Answered(p, Len(found),
                    [i \in DOMAIN found |-> GetResult(Header, found[i], q.cols)])
    /\ UNCHANGED <<file, temp, crashes>>

\* The end of the file, for an update or delete: the temporary file is closed.
CloseTemp(p) ==
    /\ At(p, "reading") /\ Rewrites(procs[p].query)
    /\ procs[p].seen = file
    /\ temp' = Rewritten(procs[p].query, file)
    /\ Moved(p, "truncate")
    /\ UNCHANGED <<file, crashes>>

\* Slip: the temporary file is removed before it has been copied back.
TruncateUnlinks(p) ==
    /\ At(p, "truncate")
    /\ file' = Empty
    /\ Moved(p, "copy")
    /\ temp' = NULL
    /\ UNCHANGED crashes

\* The table is opened for writing.
Truncate(p) ==
    /\ At(p, "truncate")
    /\ file' = Empty
    /\ Moved(p, "copy")
    /\ UNCHANGED <<temp, crashes>>

\* The table is closed.
CopyBack(p) ==
    /\ At(p, "copy")
    /\ file' = Copied(temp, Last(procs[p].seen.lines))
    /\ Moved(p, "unlink")
    /\ UNCHANGED <<temp, crashes>>

Unlink(p) ==
    /\ At(p, "unlink")
    /\ temp' = NULL
    /\ Answered(p, Len(Matching(procs[p].query, RewriteScan(procs[p].seen))), <<>>)
    /\ UNCHANGED <<file, crashes>>

\* insert: opened for appending, whatever others have appended meanwhile.  Its newline
\* after one at the end leaves an empty line, which no later query sees.
Insert(p) ==
    /\ At(p, "append")
    /\ file' = [lines |-> Append(file.lines, procs[p].query.row), nl |-> FALSE]
    /\ Answered(p, 0, <<>>)
    /\ UNCHANGED <<temp, crashes>>

Return(p) ==
    /\ At(p, "answered")
    /\ procs' = [procs EXCEPT ![p] = NULL]
    /\ UNCHANGED <<file, temp, crashes>>

\* The process dies; what it had not closed is not written.
Crash(p) ==
    /\ procs[p] # NULL
    /\ crashes < Crashes
    /\ procs' = [procs EXCEPT ![p] = NULL]
    /\ crashes' = crashes + 1
    /\ UNCHANGED <<file, temp>>

Next ==
    \E p \in Procs :
        \/ \E q \in Queries : Call(p, q)
        \/ Open(p) \/ ReadMore(p)
        \/ SelectEnds(p) \/ Insert(p)
        \/ CloseTemp(p) \/ Truncate(p) \/ CopyBack(p) \/ Unlink(p)
        \/ Return(p) \/ Crash(p)

Spec == Init /\ [][Next]_vars

---------------------------------------------------------------------------
(* Properties *)

\* The table that the two files stand for: the rows in the file, or those in the
\* temporary file from the moment the file has been truncated.
Table ==
    IF file = NULL THEN NULL
    ELSE IF ~Torn THEN Contents(Tail(file.lines))
    ELSE IF temp = NULL THEN <<>>
    ELSE Contents(temp.lines)

\* How far a process is: it has its answer once its query has taken effect.
CallOf(p) ==
    LET q == procs[p].query
        g == procs[p].seen
    IN  CASE procs[p] = NULL -> NULL
          [] At(p, "answered") -> [query |-> q, answer |-> procs[p].answer, more |-> <<>>]
          [] At(p, "copy") \/ At(p, "unlink") ->
                [query |-> q,
                 answer |-> [n |-> Len(Matching(q, RewriteScan(g))), rows |-> <<>>],
                 more |-> IF At(p, "copy") THEN Added(Rewritten(q, g), Row(Last(g.lines))) ELSE <<>>]
          [] OTHER -> [query |-> q, answer |-> NULL, more |-> <<>>]

TableOf(g) ==
    IF g = NULL THEN [rows |-> NULL, newline |-> FALSE]
    ELSE [rows |-> Contents(Tail(g.lines)), newline |-> g.nl]

Promise ==
    INSTANCE TextTable WITH
        table   <- Table,
        newline <- file # NULL /\ file.nl,
        damaged <- Torn /\ \A p \in Procs : ~At(p, "copy"),
        calls   <- [p \in Procs |-> CallOf(p)],
        Tables  <- {TableOf(g) : g \in Files}

\* Each query takes effect at once and on the whole table, although the driver
\* reads line by line and rewrites through a second file; a crash in the middle
\* loses no row until the next update or delete (text_driver.c:895-977, 1026-1089).
\* What the loops at feof do beyond that is a part of TextTable (text_driver.c:965-974,
\* 1048-1082): a row too many for every query after a newline at the end, and one that
\* an update or delete adds which keeps no row or not the last.
QueriesAreAtomic == Promise!Spec

\* A query on a missing or damaged file changes nothing in the file, and none ever
\* mends it (text_driver.c:849-861, 992-1005).
DamageStays == [][Unreadable /\ (\A p \in Procs : ~At(p, "copy")) => UNCHANGED file]_vars
=============================================================================
