------------------------------ MODULE SdbConn ------------------------------
(***************************************************************************)
(* The connection table of sdb.c: sdb_open, sdb_query, sdb_close and the   *)
(* sdb_exit handler, called by an application whose row callbacks may call *)
(* the library again.                                                      *)
(*                                                                         *)
(* A driver that registers open and close functions hands out the address  *)
(* of an object it allocated.  Addresses are recycled: what malloc returns *)
(* may be the address of an object that was freed before, so a pointer     *)
(* kept too long can come to name somebody else's connection.              *)
(***************************************************************************)
EXTENDS Naturals, Sequences, FiniteSets

CONSTANTS
    ConnMax,      \* CONN_MAX: the number of slots in conn[]
    Urls,         \* the urls the application may name
    Served,       \* the urls for which lookup_driver finds a driver
    Keeping,      \* the urls whose driver registers open and close functions
    Forgetful,    \* those whose driver leaves its own connection open after an error
    Addrs,        \* addresses at which drivers may allocate their objects
    NULL,
    MaxRows,      \* bound: rows of one query
    MaxDepth,     \* bound: nesting of queries made from callbacks
    StaleIds      \* may the application close an id that it does not hold?

ASSUME ConnAssumption ==
    /\ ConnMax \in Nat \ {0}
    /\ Forgetful \subseteq Keeping
    /\ Keeping \subseteq Served
    /\ Served \subseteq Urls
    /\ MaxRows \in Nat
    /\ MaxDepth \in Nat
    /\ StaleIds \in BOOLEAN
    /\ NULL \notin Urls \cup Addrs \cup Nat

VARIABLES
    conn,         \* conn[]: url and db of every slot
    mem,          \* the url an object at an address is connected to
    calls,        \* the sdb_query calls in progress, innermost last
    held,         \* the url behind every id the application has been given
    leaked,       \* objects that no part of the program can reach any more
    misused,      \* addresses a driver followed when no object lived there
    exited

vars == <<conn, mem, calls, held, leaked, misused, exited>>

Slots == 0 .. ConnMax - 1

\* An sdb_query call in progress.  "own" says that the driver was given no
\* connection and opened one for this query only; "cut" (history) that the
\* application has closed the id of the connection that the driver was given.
Frame == [slot : Slots \cup {NULL}, url : Served, db : Addrs \cup {NULL},
          own : BOOLEAN, rows : 0 .. MaxRows, inCallback : BOOLEAN, cut : BOOLEAN]

\* What has been followed, and whether by a query that had been cut.
Misuse == [at : Addrs, cut : BOOLEAN]

TypeOK ==
    /\ conn \in [Slots -> [url : Served \cup {NULL}, db : Addrs \cup {NULL}]]
    /\ mem \in [Addrs -> Served \cup {NULL}]
    /\ calls \in Seq(Frame)
    /\ held \in [Slots -> Served \cup {NULL}]
    /\ leaked \subseteq Addrs
    /\ misused \subseteq Misuse
    /\ exited \in BOOLEAN

Init ==
    /\ conn = [j \in Slots |-> [url |-> NULL, db |-> NULL]]
    /\ mem = [a \in Addrs |-> NULL]
    /\ calls = <<>>
    /\ held = [j \in Slots |-> NULL]
    /\ leaked = {}
    /\ misused = {}
    /\ exited = FALSE

---------------------------------------------------------------------------
Live(j) == conn[j].url # NULL

Free == {a \in Addrs : mem[a] = NULL}

Top == calls[Len(calls)]

\* The application has control: outside the library, or in a row callback.
AppRuns ==
    /\ ~exited
    /\ calls # <<>> => Top.inCallback

\* What the open function of the driver of u may return: the address of a
\* new object, or NULL when it cannot connect or when there is no such function.
OpenResult(u) == (IF u \in Keeping THEN Free ELSE {}) \cup {NULL}

\* A driver follows the pointer it was given.
Touch(db, cut) ==
    IF db # NULL /\ mem[db] = NULL THEN misused \cup {[at |-> db, cut |-> cut]} ELSE misused

Allocated(db, u) == IF db = NULL THEN mem ELSE [mem EXCEPT ![db] = u]

Freed(db) == IF db = NULL THEN mem ELSE [mem EXCEPT ![db] = NULL]

\* The objects out of reach, when one more has been forgotten.
Forgotten(db) == IF db = NULL THEN leaked ELSE leaked \cup {db}

\* Slip: the scan stops one slot early and takes what it finds there.
FirstFreeUnchecked(j) ==
    \A k \in Slots : k < j => Live(k)

\* The first free slot, found by scanning conn[] from the start.
FirstFree(j) ==
    /\ ~Live(j)
    /\ \A k \in Slots : k < j => Live(k)

---------------------------------------------------------------------------
\* sdb_open with a free slot.  The result of the driver's open function is
\* stored whatever it is, and the index of the slot becomes the id.
Open(u, db, j) ==
    /\ AppRuns
    /\ u \in Served
    /\ db \in OpenResult(u)
    /\ FirstFree(j)
    /\ mem' = Allocated(db, u)
    /\ conn' = [conn EXCEPT ![j] = [url |-> u, db |-> db]]
    /\ held' = [held EXCEPT ![j] = u]
    /\ UNCHANGED <<calls, leaked, misused, exited>>

\* sdb_open with every slot taken: the driver has opened its connection
\* before the table is scanned, and NULL is returned without closing it.
OpenTooMany(u, db) ==
    /\ AppRuns
    /\ u \in Served
    /\ db \in OpenResult(u)
    /\ \A j \in Slots : Live(j)
    /\ mem' = Allocated(db, u)
    /\ leaked' = Forgotten(db)
    /\ UNCHANGED <<conn, calls, held, misused, exited>>

Push(j, u, db, own) ==
    calls' = Append(calls, [slot |-> j, url |-> u, db |-> db, own |-> own,
                            rows |-> 0, inCallback |-> FALSE, cut |-> FALSE])

\* The driver starts the query: on the connection it is given, or, when it is
\* given none, on one that it opens itself (what drivers without an open function
\* open for a query is left to PlainDrivers).  A driver that cannot open returns -1,
\* which changes nothing.
StartQuery(j, u, pdb) ==
    /\ Len(calls) < MaxDepth
    /\ \/ /\ pdb # NULL \/ u \notin Keeping
          /\ Push(j, u, pdb, FALSE)
          /\ misused' = Touch(pdb, FALSE)
          /\ UNCHANGED mem
       \/ /\ pdb = NULL /\ u \in Keeping
          /\ \E db \in Free : /\ Push(j, u, db, TRUE)
                              /\ mem' = Allocated(db, u)
          /\ UNCHANGED misused
    /\ UNCHANGED <<conn, held, leaked, exited>>

\* sdb_query with a connection id.  Every other number, and every string that
\* is not the exact text of the id, is refused with -1 and changes nothing.
QueryById(j) ==
    /\ AppRuns
    /\ Live(j)
    /\ StartQuery(j, conn[j].url, conn[j].db)

\* sdb_query with a url.
QueryByUrl(u) ==
    /\ AppRuns
    /\ u \in Served
    /\ StartQuery(NULL, u, NULL)

\* The driver fetches a row and hands it to the callback.
FetchRow ==
    /\ ~exited
    /\ calls # <<>>
    /\ ~Top.inCallback
    /\ Top.rows < MaxRows
    /\ misused' = Touch(Top.db, Top.cut)
    /\ calls' = [calls EXCEPT ![Len(calls)].inCallback = TRUE,
                              ![Len(calls)].rows = @ + 1]
    /\ UNCHANGED <<conn, mem, held, leaked, exited>>

CallbackReturns ==
    /\ AppRuns
    /\ calls # <<>>
    /\ calls' = [calls EXCEPT ![Len(calls)].inCallback = FALSE]
    /\ UNCHANGED <<conn, mem, held, leaked, misused, exited>>

\* Slip: the driver closes the connection even when it was given one.
QueryReturnsClosing ==
    /\ ~exited
    /\ calls # <<>>
    /\ ~Top.inCallback
    /\ misused' = Touch(Top.db, Top.cut)
    /\ mem' = Freed(Top.db)
    /\ calls' = SubSeq(calls, 1, Len(calls) - 1)
    /\ UNCHANGED <<conn, held, leaked, exited>>

\* No more rows.  The driver closes the connection it opened for this query and
\* leaves one that it was given.
QueryReturns ==
    /\ ~exited
    /\ calls # <<>>
    /\ ~Top.inCallback
    /\ misused' = Touch(Top.db, Top.cut)
    /\ mem' = IF Top.own THEN Freed(Top.db) ELSE mem
    /\ calls' = SubSeq(calls, 1, Len(calls) - 1)
    /\ UNCHANGED <<conn, held, leaked, exited>>

\* Slip: an error closes the connection that the query was given.
QueryFailsClosing ==
    /\ ~exited
    /\ calls # <<>>
    /\ ~Top.inCallback /\ Top.rows = 0
    /\ misused' = Touch(Top.db, Top.cut)
    /\ mem' = Freed(Top.db)
    /\ calls' = SubSeq(calls, 1, Len(calls) - 1)
    /\ UNCHANGED <<conn, held, leaked, exited>>

\* The server refuses the query, and the driver returns -1: a forgetful one without
\* closing the connection it opened, which nobody knows of any more.
QueryFails ==
    LET closes == Top.own /\ Top.url \notin Forgetful
        forgets == Top.own /\ Top.url \in Forgetful
    IN /\ ~exited
       /\ calls # <<>>
       /\ ~Top.inCallback /\ Top.rows = 0
       /\ misused' = Touch(Top.db, Top.cut)
       /\ mem' = IF closes THEN Freed(Top.db) ELSE mem
       /\ leaked' = IF forgets THEN Forgotten(Top.db) ELSE leaked
       /\ calls' = SubSeq(calls, 1, Len(calls) - 1)
       /\ UNCHANGED <<conn, held, exited>>

\* An application closes what it holds, unless StaleIds, and at any time: also from
\* a callback, the id whose query is calling back.
MayClose(j) == held[j] # NULL \/ StaleIds

\* The queries that run on the connection of id j lose it.
Cut(j) == [i \in DOMAIN calls |->
              IF calls[i].slot = j /\ ~calls[i].own THEN [calls[i] EXCEPT !.cut = TRUE]
              ELSE calls[i]]

\* Slip: the slot keeps its url, so that it still counts as open.
CloseKeepsUrl(j) ==
    /\ AppRuns
    /\ MayClose(j)
    /\ misused' = Touch(conn[j].db, FALSE)
    /\ mem' = Freed(conn[j].db)
    /\ held' = [held EXCEPT ![j] = NULL]
    /\ calls' = Cut(j)
    /\ UNCHANGED <<conn, leaked, exited>>

\* Slip: the slot is looked up by its url instead of its number.
CloseFirstWithUrl(j) ==
    /\ AppRuns
    /\ MayClose(j)
    /\ misused' = Touch(conn[j].db, FALSE)
    /\ mem' = Freed(conn[j].db)
    /\ conn' = [conn EXCEPT ![CHOOSE k \in Slots : conn[k].url = conn[j].url].url = NULL]
    /\ held' = [held EXCEPT ![j] = NULL]
    /\ calls' = Cut(j)
    /\ UNCHANGED <<leaked, exited>>

\* sdb_close.  The slot is not looked at before the driver's close function
\* runs, and the db pointer stays behind when the slot is cleared.  Nobody asks
\* whether a query is running on it.
Close(j) ==
    /\ AppRuns
    /\ MayClose(j)
    /\ misused' = Touch(conn[j].db, FALSE)
    /\ mem' = Freed(conn[j].db)
    /\ conn' = [conn EXCEPT ![j].url = NULL]
    /\ held' = [held EXCEPT ![j] = NULL]
    /\ calls' = Cut(j)
    /\ UNCHANGED <<leaked, exited>>

\* exit() runs the atexit handler sdb_exit: every slot with a url is closed.
Exit ==
    LET dbs == {conn[j].db : j \in {k \in Slots : Live(k)}} \ {NULL}
        twice == {a \in dbs : \E j, k \in Slots :
                     /\ j # k /\ Live(j) /\ Live(k)
                     /\ conn[j].db = a /\ conn[k].db = a}
    IN /\ AppRuns
       /\ misused' = misused \cup [at : {a \in dbs : mem[a] = NULL} \cup twice, cut : {FALSE}]
       /\ mem' = [a \in Addrs |-> IF a \in dbs THEN NULL ELSE mem[a]]
       /\ conn' = [j \in Slots |-> [conn[j] EXCEPT !.url = NULL]]
       /\ held' = [j \in Slots |-> NULL]
       /\ exited' = TRUE
       /\ UNCHANGED <<calls, leaked>>

\* What a driver does that has followed the address of a dead object is undefined.
Defined == misused = {}

Next ==
    /\ Defined
    /\ \/ \E u \in Urls, db \in Addrs \cup {NULL}, j \in Slots : Open(u, db, j)
       \/ \E u \in Urls, db \in Addrs \cup {NULL} : OpenTooMany(u, db)
       \/ \E j \in Slots : QueryById(j)
       \/ \E u \in Urls : QueryByUrl(u)
       \/ FetchRow
       \/ CallbackReturns
       \/ QueryReturns
       \/ QueryFails
       \/ \E j \in Slots : Close(j)
       \/ Exit

Spec == Init /\ [][Next]_vars

---------------------------------------------------------------------------
(* Properties *)

\* Every id the application holds names a slot that still carries the url it
\* was opened with, and the driver object behind it is alive and connected to
\* that url (sdb.c:172-200 against sdb.c:202-220).
HeldIdsWork ==
    \A j \in Slots : held[j] # NULL =>
        /\ conn[j].url = held[j]
        /\ conn[j].db # NULL => mem[conn[j].db] = held[j]

\* A query in progress, whatever its callbacks open, query and close, is still
\* running on a live connection to its own url, unless it was made by an id that
\* has been closed since: sdb.c:157 copies conn[j].db before the driver calls back,
\* and sdb_close does not know of the copy.
QueriesStayConnected ==
    ~exited => \A i \in DOMAIN calls :
        calls[i].db # NULL /\ ~calls[i].cut => mem[calls[i].db] = calls[i].url

\* The only driver call that ever follows the address of an object that has been
\* closed is a query whose own id was closed while it was running: no second close,
\* no new query on a closed connection, and nothing at exit.
NothingUsedAfterClose == \A m \in misused : m.cut

\* Whoever opened a driver object can still reach it: it sits in a live slot, or
\* belongs to a query in progress, or was dropped, by an sdb_open that found the
\* table full (sdb.c:189-193) or by a query of its own connection that failed in a
\* forgetful driver (mysql_driver.c:113).  In particular sdb_exit (sdb.c:222-233)
\* leaves nothing else open.
NothingLost ==
    \A a \in Addrs : mem[a] # NULL =>
        \/ a \in leaked
        \/ \E j \in Slots : Live(j) /\ conn[j].db = a
        \/ \E i \in DOMAIN calls : calls[i].own /\ calls[i].db = a

\* No driver object is shared between two open ids, or between an open id and a
\* query that opened a connection of its own: closing one spares the other.
NothingShared ==
    /\ \A j, k \in Slots :
          Live(j) /\ Live(k) /\ conn[j].db # NULL /\ conn[j].db = conn[k].db => j = k
    /\ \A j \in Slots, i \in DOMAIN calls :
          Live(j) /\ calls[i].own => conn[j].db # calls[i].db

\* While an id is held, the slot it names keeps its url and its db pointer,
\* whatever else the application opens, queries or closes meanwhile.
IdsAreStable ==
    [][\A j \in Slots : held[j] # NULL /\ held'[j] # NULL => conn'[j] = conn[j]]_vars

---------------------------------------------------------------------------
(* The inductive invariant behind the first four and NothingShared, for an *)
(* application that closes only what it holds.                             *)

HeldAreLive == \A j \in Slots : held[j] = conn[j].url

SlotsConnected ==
    \A j \in Slots : Live(j) /\ conn[j].db # NULL => mem[conn[j].db] = conn[j].url

SlotsDistinct ==
    \A j, k \in Slots :
        Live(j) /\ Live(k) /\ conn[j].db # NULL /\ conn[j].db = conn[k].db => j = k

\* A query that was given a connection still runs beside the slot it came from.
CallConnected(c) ==
    /\ c.db # NULL /\ ~c.cut => mem[c.db] = c.url
    /\ c.own => c.db # NULL /\ ~c.cut
    /\ ~c.own /\ c.db # NULL /\ ~c.cut =>
          /\ c.slot \in Slots
          /\ conn[c.slot].url = c.url
          /\ conn[c.slot].db = c.db

CallsConnected == \A i \in DOMAIN calls : CallConnected(calls[i])

\* A connection that a query opened for itself is in no slot and in no other query.
OwnApart ==
    /\ \A i \in DOMAIN calls, j \in Slots :
          calls[i].own /\ Live(j) => conn[j].db # calls[i].db
    /\ \A i, k \in DOMAIN calls :
          calls[i].own /\ calls[k].own /\ calls[k].db = calls[i].db => k = i

IInv ==
    /\ TypeOK
    /\ HeldAreLive
    /\ SlotsConnected
    /\ SlotsDistinct
    /\ ~exited => CallsConnected
    /\ OwnApart
    /\ NothingUsedAfterClose
=============================================================================
