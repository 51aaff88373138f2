# LibSDB in TLA+

LibSDB (src/) is a small C library through which a program queries many kinds of
databases with one set of calls, `sdb_open`, `sdb_query` and `sdb_close`, and a
daemon, `sdbd`, that carries such calls over a network.  This directory holds
TLA+ models of its stateful parts, TLC configurations that check them on small
instances, and proofs, checked by TLAPS, of what is claimed for every instance.

Contents: 1 the system, 2 the modules, 3 the runs, 4 bounds and fairness,
5 the proofs, 6 where the code and its documents disagree, 7 what is left out,
8 the plan.

## 1. The system

| Component | Code | State it keeps | Operations |
|---|---|---|---|
| driver table | sdb.c | `drivers[20]`, `ndrivers`, `init_done` | `sdb_init`, `sdb_register_driver`, `lookup_driver` |
| connection table | sdb.c | `conn[]`: url, driver index, `db` pointer of every slot | `sdb_open`, `sdb_query`, `sdb_close`, `sdb_exit` |
| url values | sdb.c | none | `sdb_url_value` |
| sdbd client side | sdbd_driver.c | `conn_info`: socket and url | `sdbd_open`, `sdbd_driver`, `sdbd_close` |
| sdbd daemon | sdbd.c | listening socket, descriptors, one child for each connection, SIGCHLD | `main`, `waitforchild` |
| sdbd session | sdbd.c | the child's socket, url and connection id | `dourl`, `doquery`, `db_callback` |
| text driver: files | text_driver.c | a file for each table, one temporary file | select, insert, update, delete |
| text driver: parser | text_driver.c | none; the text of the query | `cherche`, `avant`, `get_valeurs`, `enleve`, `recupere1` to `recupere3`, `trait_*` |
| oracle driver | oracle_driver.c | login, cursor, describe and define buffers | `sdb_oracle_open`, `oracle_driver`, `sdb_oracle_close` |
| tds driver | tds_driver.c | TDS socket and login | `sdb_tds_open`, `tds_driver`, `sdb_tds_close` |
| plain drivers | mysql, postgres, sqlite, sqlite3, msql, odbc, lago, shsql | a handle of a client library, or none | open, query, close |
| gdbm driver | gdbm_driver.c | the file of the library and its lock, while a command runs | store, fetch, delete, list, reorganize, exists |
| ingres driver | ingres_driver.c | handles of the IIapi interface: connection, transaction, statement | `sdb_ingres_open`, `ingres_driver`, `sdb_ingres_close` |
| mimer driver | mimer_driver.ec | the session of the preprocessor's run time | query |
| programs | sdb_client.c, sdbd_client.c, squid_sdb_auth.c | none of their own | a loop that reads a line and queries |

**How they interact.**  The application calls sdb.c; sdb.c finds a driver by the
name in front of the url and calls its functions through the table; the driver
calls the application back once for each row, and the callback may call sdb.c
again.  An id is the text of a slot number.  sdbd_driver.c is a driver like any
other; its database is a child of sdbd at the end of a TCP connection, which
itself calls sdb.c.  The daemon itself never reads from a connection: it forks
and closes, and hears of its children by signal.  Processes that use the text
driver or the gdbm driver share nothing but the files; those of gdbm are locked.

**What is hard.**
Re-entrant calls from callbacks while the driver holds a copy of a pointer;
slots, ids and heap addresses that are used again; initialisation on first use;
a byte stream in which requests have no framing and answers no markers; both
ends of it dying, closing or resetting at any point; children that must end,
and signals of their ends that are merged; descriptors that a fork copies;
a rewrite of a file in several steps, with a crash between any two; buffers that
a kept connection uses again for a query of another shape; a library call that
fails between the logon and the logoff; rows that are counted out of a stream of
single columns; a lock that is held while callbacks run; a parser that looks
for keywords in a text and drops what it does not understand.

**What makes each component correct.**
- driver table: a driver that was registered is found, a name goes on leading to
  the same driver, a connection keeps the driver it was opened with, and the table
  is not left before it is full;
- connection table: an id leads to the connection it was given for, no object is
  used after it was closed, closed twice, shared or lost;
- sdbd sessions: through the proxy the application is given the rows of the
  database, every call returns, every child ends;
- sdbd daemon: a connection is open in its own child only, zombies are waited for,
  no client waits for a process that is not there;
- text driver: each query takes effect at once and on the whole table; a crash
  loses no row; what is executed is what the text says;
- gdbm driver: each command takes effect at once, and is refused only for a
  reason;
- oracle, tds, ingres and plain drivers: each query is answered by its own rows, the
  number it returns says what became of it, and what it opened is closed, whatever
  fails.

## 2. The modules

| Module | Role | Code |
|---|---|---|
| SdbConn | connection table, callbacks, recycled addresses | sdb.c:133-233 |
| SdbRegistry | driver table | sdb.c:46-125, 240-263 |
| Sdb_proofs | the invariants of SdbConn and SdbRegistry, for all instances | |
| QueryService | abstract: what sdb.3 promises of sdb_query, and where an implementation may depart from it | sdb.3:36-43 |
| SdbdSession | client, child and streams; implements QueryService | sdbd_driver.c, sdbd.c:34-140 |
| SdbdDaemon | the daemon around its sessions | sdbd.c:48-53, 196-229 |
| Sdbd_proofs | the safety of SdbdSession and SdbdDaemon, for all instances, and that SdbdSession implements QueryService | |
| TextRows | values, conditions and assignments of the text driver | text_driver.c |
| TextQueries | the parser of the text driver | text_driver.c:55-640, and the start of each trait function |
| TextTable | abstract: a table on which queries are atomic | |
| TextDriver | the steps on the two files; implements TextTable | text_driver.c:814-1089 |
| TextDriver_proofs | its invariants, and that it implements TextTable | |
| OracleDriver | one call of the database interface a step | oracle_driver.c:87-308 |
| OracleDriver_proofs | its invariants, for all instances | |
| TdsDriver | results and rows as the server sends them | tds_driver.c:57-349 |
| TdsDriver_proofs | its invariants, for all instances | |
| IngresDriver | one call of the database interface a step | ingres_driver.c:98-367 |
| IngresDriver_proofs | its invariants, for all instances | |
| KeyValue | abstract: a key-value store whose commands are atomic or refused | |
| GdbmDriver | commands, locks and callbacks; implements KeyValue | gdbm_driver.c:62-185 |
| GdbmDriver_proofs | its invariants, and that it implements KeyValue | |
| PlainDrivers | eight drivers that differ on their error paths | mysql, postgres, sqlite, sqlite3, msql, odbc, lago, shsql |
| PlainDrivers_proofs | its invariants, for all instances | |
| MC* | constants and small databases for TLC | |

Definitions whose comment begins with "Slip:" are plausible mistakes.  No
next-state relation uses them; each stands in front of the definition it could
replace and shows that some property would notice.

**SdbConn.**  `conn` is the array, `mem` the heap: for each address the url that
the object there is connected to.  `Open` may take any free address, so that an
address comes back as soon as it was freed.  `calls` is the C stack of
`sdb_query` calls; `FetchRow` enters the callback, in which every operation is
possible again.  `Open` tests and stores in the order of the code: the driver
opens first, the table is scanned next, so a full table drops the new object
(`leaked`).  `Close` clears the url and leaves `db`, as sdb_close does.
`misused` collects pointers that a driver followed to an object that was closed,
and after the first one nothing more is claimed (`Defined`).  An application may
close what it holds at any time, also the id whose query is calling it back: such a
query is `cut`, which is history, and goes on with a pointer to what was freed.  The
drivers are seen as those that keep connections (mysql_driver.c is the example that
the definitions are read from) and those that do not; a query that fails closes the
connection it opened, but for the drivers in `Forgetful`, which return before that
(mysql_driver.c:113).

**SdbRegistry.**  `drivers` is the table with `None` for an entry without a name.
Every library call but `sdb_close` and `sdb_register_driver` starts with
`sdb_init` (`Initialised`), which sets the table from its first entry on.
`open` remembers the index, as `conn[j].driver` does, beside the driver it meant.
An application may register drivers before the first library call, which takes
their entries again (`early`), and more than there is room for: `RegisterOutside`
writes behind the table and `LookupFails` may read there, since the code checks
neither (`overrun`).

**SdbdSession.**  A connection has two streams and a child..  `cli` is the place of the
application in sdbd_driver.c and the variables it has there (`no` and `need` are the
counters of `readno` and of the columns)..  Answers are sequences of characters, since
they are framed by their own digits and blanks: a row is its number of columns with
each `Column` behind it (`Joined`), and the numbers of columns and the widths have one
digit (`SessionAssumption`)..  Requests are streams of two pieces, and what one `read`
of the child returns is taken for a request (`Requests`)..  A child that ends closes its
socket, and the client sees the end of the stream, or a reset when something was left
unread..  A client that closes answers later writes with a reset, which the network
delivers some time later (`ResetArrives`); a write after that raises SIGPIPE..  A
failing `read` of the client returns whatever was on its stack (`Junk`)..  TCP is
external and is modelled as far as it can be observed through `read` and `write`. A
failed query ends the session on the server..  Its own answer looks like that of a query
without rows, and sdb_query returns 0: QueryService has HideError for that, which is
allowed if `Hiding`..  A later query in the session is answered by nothing, or, when its
request has met a reset, by 0: this is ReturnNothing, with the free variable `ended`,
to which SdbdSession gives whether a query of this connection has failed..  Neither is
what sdb.3:38-39 says, and each is an action of its own.

**SdbdDaemon.**  `main` is where the loop of the daemon is, `fds` what each
process has open, `child` what has become of the process of each connection.
`Fork` copies the descriptors; the parent and the child close theirs in steps of
their own, and clients come and go between any two.  `waitforchild` interrupts the
loop anywhere (`Deliver`, `WaitForChild`).  A signal that finds another pending is
merged with it, which `merged` counts; each handler waits for at most one child.
A fork fails when there are `MaxProcs` children, zombies included, and then the
daemon ends, as sdb_error does.  What happens on a connection is not modelled here
but in SdbdSession, of which only the end of the child is taken.

**TextDriver.**  A step is what a process does to the file system between two
points where another process or a crash could tell the difference; what is
printed reaches a file at `fclose`, because the tables are smaller than the
buffer of stdio.  The loops that read until `feof` are `SelectScan`,
`RewriteScan` and `Copied`; they go round once more after a final newline, with an
empty line in a select and with the line before in the others, and once on an empty
file (`Added`).  TextTable has the rows that come of it, as a part of what the
table is: whether a newline follows the last row (`newline`), and the row that an
update or delete has still to add (`more`).  Values are
numbers in the order of strcmp.  The rows that meet a condition are their places
(`Met`) and then the rows at them (`Chosen`).  A select names columns of the header
only (`TextAssumption`): `get_result` takes any other from in front of the row
(text_driver.c:519-531).  The refinement to TextTable maps the table to
the file, or to the temporary file from the moment the file is truncated.

**TextQueries.**  A text is a sequence of tokens: words, keywords, punctuation and
blanks.  The definitions are the functions of the parser, with its NULL pointers
(`Null`) and its pointers behind the end of the text (`Beyond`), each translated
from what the C function does with blanks, quotes and separators.  Where the code
follows such a pointer, the outcome is `Undefined`, of which nothing is claimed.
`Parse` is the driver's choice among the four kinds, `Denoted` gives what is parsed
in the terms of TextDriver: MCTextDriver assumes, and TLC evaluates, that
the queries of `text_serial` are what the parser makes of their texts.  Values may be
of several words, the parser's own among them.

**GdbmDriver.**  A caller is a process and a depth of callbacks: a `list` or a
`fetch` stays "open" while its callback gives commands.  `Open` takes the lock of
the library, shared or exclusive, or fails at once.  `store` is the file, and NULL
without one; `Data` are the keys and values of all commands.  The refinement to
KeyValue maps `calls` to `Promised`: a command has its answer from the moment the
driver works on the open file, and a `list` from its last key.  A
`store` cuts its own query string at the `=`, which `cut` remembers when the
application uses the same string again (`Rebuilt = FALSE`).  A call of the library on
the open file may fail for the commands in `Failing` (`LibraryFails`, and a list
that ends early).  KeyValue has the numbers of the driver: 0 for what was done,
with or without a row, and -1 for what was not, or was not there.

**IngresDriver.**  `calls` is the stack of queries, each made in the callback of
the one below.  The driver fetches one column at a time: `next` is the place in the
result of what it gets next, a row, a column and a segment (a long value has two),
and `After` the place behind it, which the database keeps and the driver does not
know.  The driver passes a row on when it has counted as many columns as the
descriptor says.  No failure ends the query: each leads on to the clean-up,
whose steps are actions of their own.  `held` is what the database keeps for the
driver, with the level it was made for.  What the database refuses to close or commit
(`Refused`) stays in `left` under the level of its connection, and goes with that, or
is `Gone`, out of reach, when that is refused too.  `failed` is history, as in
OracleDriver.

**OracleDriver and TdsDriver.**  The calls of the client libraries are external
and may fail wherever the constants allow.  A buffer or pointer that nothing was
written to holds `Junk` or `Wild`.  `call.failed` in OracleDriver is a history
variable: what has failed in the query underway.  `logins` counts those that the
database holds, `lost` those of them that a logoff has left (`LogOff`, and
`OpenCursor` with the handle it has freed).  TdsDriver has in `failed` whether
tds_process_tokens failed amid the rows or between the results.  `delivered` is
history too; in TdsDriver it has one sequence of rows for each result, since the
driver does not tell its caller where one result ends and the next begins.

**PlainDrivers.**  One module for eight drivers of the same shape.  A behaviour
uses one `driver`; the sets `Keeping`, `Calling`, `Storing` and `Fetching`, and
`Unopened` and `ClosesAfterError`, say where they differ, each read from the code
of the drivers it names.  The server accepts `MaxConns` connections, and `conns` of
them are made: what a query leaves behind is missed later.  `call.failed` and
`call.before` are history.

## 3. The runs

Eleven runs pass and show what the code does right; one ends in a
counterexample, which section 6 explains.

| Run | Question | Properties |
|---|---|---|
| conn_disciplined | do ids, objects and nested queries stay apart for an application that closes only what it holds? | HeldIdsWork, QueriesStayConnected, NothingUsedAfterClose, NothingLost, NothingShared, IdsAreStable |
| registry | are drivers found, and do names and connections keep theirs, when more are registered at any time and until the table is full? | RegisteredAreFound, ConnectionsKeepTheirDriver, OnlyFullTablesOverrun, NamesKeepTheirDriver |
| session_faults | does the proxy pass on the rows, what hangs, and does every child end? | TypeOK, InStep, ProxyPassesRowsOn, OnlyEndedSessionsHang, ChildrenEnd |
| session_after_error | does the call after a failed query return? | EveryCallReturns: violated |
| sdbd_daemon | are descriptors private, zombies waited for and clients served, however children end? | DaemonTypes, PrivateSockets, ZombiesAreAccounted, NobodyIsLeftWaiting |
| text_serial | are queries atomic, with crashes and overlapping selects and inserts? | TypeOK, QueriesAreAtomic, DamageStays |
| text_queries | is a query taken for what it says, and nothing else for one? | RoundTrip, NothingIsMadeUp |
| gdbm_shared | are commands atomic, with other processes, callbacks, library failures and crashes? | TypeOK, CommandsAreAtomic |
| oracle_faults | what is each query answered, and which logins stay, whatever fails? | TypeOK, QueriesAreAnswered, LoginsAreAccounted |
| ingres_nested | are rows whole, and what stays open, with nested queries and whatever fails? | TypeOK, RowsAreOwn, NothingLeftOpen |
| drivers_plain | what does the number say that a query returns, and which queries leave a connection behind? | TypeOK, QueriesAreAnswered, QueriesGiveBack |
| tds_batches | are all rows passed on that arrive, with every connection accounted for? | TypeOK, QueriesAreAnswered, SocketsAreAccounted |

Three of these are refinements: `ProxyPassesRowsOn` is QueryService!Spec with the
query, the rows delivered and the result of SdbdSession substituted,
`QueriesAreAtomic` is TextTable!Spec and `CommandsAreAtomic` is KeyValue!Spec.  The
first says that the rows are those of the database, and that a number above 0 comes
after all of them; an application can tell the proxy from a database by an error,
which comes out as 0 rows.  The second has the two defects of the loops at `feof` in
TextTable: it says that nothing else goes wrong there, for every update and delete.
The third holds for an application that writes the string of each query anew.

conn_disciplined is about an application that closes what it holds, each id once,
at any time; after a second close of an id, which sdb.c does not notice, none of its
properties is claimed.

Where the code departs from what sdb.3:38-39 says of the number that a query
returns, the property states what the code does, driver by driver, and its comment
says so; section 6 lists these places.  A run that asked for the manual's number
would only repeat the first of them.

`session_faults` has queries with rows, without, and one that fails, on kept and
on temporary connections; a server that refuses `sdb_open`, one that
cannot be reached, and an application that dies anywhere.  After a failed query a
call may not return, which session_after_error shows; `OnlyEndedSessionsHang` is
the converse: every call returns, or was made in a session whose child has ended.
QueryService lets any query return -1 before its first row, for a server that
cannot be reached.

## 4. Bounds and fairness

- conn_disciplined: two slots, three served urls and an unknown one, one of them of a
  driver that forgets its connection after an error, three addresses, two levels of
  callbacks, two rows.  Two slots are enough for one to be full and for every pair in
  a property; three addresses are enough for two slots and a query of its own, for
  one more open than there are slots, and for an address to be used again by any of
  them.  The addresses are symmetric, and no property counts them.
- registry: three builtin drivers and four of the application, one with a builtin's
  name and two with the same name, each registered at any time; six entries, so that
  the third registration fills the table and the fourth leaves it; two connections.
- session_faults: two connections, so that a temporary one can be made after
  a kept one was refused, and a late reset for one meets a call on the other; one
  query whose two rows contain a digit, a blank, an empty string and a null, one
  without rows, and one that fails.  `Conns` bounds how many connections are ever
  made; when they are used up, only failed connection attempts are left.
- sdbd_daemon: four connections, a queue of two and three children: enough for two
  merged signals, for a fork that fails with and without zombies, and for clients
  that are reset in the queue when the daemon and the last child are gone.
- text_serial: two columns, at first up to two rows, with and without a newline
  behind the last line, or no file; at most five lines, two processes, two crashes,
  the second of which can hit the query that follows the damage done by the first.
  The files without rows and the delete of the last row reach the loops at `feof`.
- text_queries: 1312 meanings (four kinds of query, up to two columns, values or
  assignments, a condition or none), each with blanks nowhere, at one place or
  everywhere they are allowed; for one sample of each kind, and for queries of each
  kind whose values are one of 21 phrases (a keyword, a keyword among words, a whole
  query), also before a second comparison, all texts in which a token is dropped,
  replaced or inserted.  The parser has no state beyond the text, and looks at each
  field by itself.
- gdbm_shared: two processes, which are symmetric, one command within the callback of
  another, two keys and two values, all commands, no file, an empty one or one with a
  key; the library may fail for one of the stores and for the test.  A second level of
  callbacks meets the same locks as the first.  That it fails amid a list is left to
  the proof.
- ingres_nested: two levels; queries without rows, with nulls at the beginning and
  after a value, with a value of each kind of conversion and with a long one; every
  call may fail, those that close, commit and disconnect among them.
- oracle_faults: queries of one, two and three columns and one without, room for
  two columns, every call may fail; two logins left behind (`MaxLost`), one of them
  by a query while the other is that of an earlier id.
- drivers_plain: a server that accepts three connections (one of the id, one of a
  query, one left behind), so that it comes to accept none, for all eight drivers;
  queries with and without rows and without a result, one that fails at once and
  one that fails after a row.
- tds_batches: results with and without rows, two results, a refused query, a
  value that cannot be converted, complete and incomplete urls, and tokens that fail
  at any row or between any two results.

Deadlock is checked except where the system stops by itself: after `exit` or the use
of a closed object in SdbConn, after SdbRegistry has left its table, after the end of
the application in SdbdSession, when all clients of SdbdDaemon have gone, after a
crash or exit of the process in OracleDriver and TdsDriver, and when the one text of
TextQueries has been read.

Fairness occurs in SdbdSession and SdbdDaemon: weak fairness of the client inside
the driver, of each child, of the delivery of resets, of the loop of the daemon
and of its signal handler.  It says that running processes go on running and that
packets and signals arrive.  SdbdDaemon takes over from SdbdSession that the child
of a client that has left comes to its end: this is `ChildrenEnd`, which is
checked there.  The application owes nothing: it need not make another call,
close or end.

## 5. The proofs

Eight modules, 34 theorems: every safety property that a run checks but the two of
TextQueries.  Each proof has the same shape: an inductive invariant, a lemma for
each action or group of actions that says it preserves the invariant (or a named
part of it), and a theorem that draws the property from it.  All theorems hold for
every value of the constants: any number of clients, processes, queries, rows,
columns, levels of callbacks.  What they assume of the constants are the ASSUMEs of
the modules, which say only what the data are (rows are sequences with a value for
each column, keys and values are in `Data`, `NULL` is not a record), and TLC
evaluates them on the instances of the runs.  Some have a hypothesis besides, named
below; each is met in the run that checks the property, and needed.

Sdb_proofs extends both models of the library, SdbConn and SdbRegistry, and
Sdbd_proofs both models of sdbd, SdbdSession and SdbdDaemon.  That is why
SdbRegistry and SdbdDaemon have names of their own for what every module has
(`RegistrySpec`, `RegistryInv`, `DaemonSpec`, `DaemonTypes`, `None` for NULL).

| Module | Theorems |
|---|---|
| Sdb_proofs | TypeCorrect (which therefore no run repeats), HeldIdsWorkAlways, QueriesStayConnectedAlways, NothingUsedAfterCloseAlways, NothingSharedAlways, NothingLostAlways, IdsAreStableAlways; ConnectionsKeepTheirDriverAlways, OnlyFullTablesOverrunAlways, NamesKeepTheirDriverAlways, RegisteredAreFoundAlways |
| Sdbd_proofs | SessionTypesAlways, InStepAlways, ProxyRefinesService; DaemonTypesAlways, PrivateSocketsAlways, ZombiesAreAccountedAlways |
| TextDriver_proofs | TextTypes, DamageStaysForever, TableIsAtomic |
| GdbmDriver_proofs | TypeOKAlways, CommandsAreAtomicAlways |
| IngresDriver_proofs | TypeOKAlways, RowsAreOwnAlways, NothingLeftOpenAlways |
| OracleDriver_proofs | TypeOKAlways, QueriesAreAnsweredAlways, LoginsAreAccountedAlways |
| TdsDriver_proofs | TypeOKAlways, QueriesAreAnsweredAlways, SocketsAreAccountedAlways |
| PlainDrivers_proofs | TypeOKAlways, QueriesAreAnsweredAlways, QueriesGiveBackAlways |

**Sdb_proofs: the connection table** (hypothesis of all but
TypeCorrect and NothingLostAlways: `StaleIds = FALSE`, the application closes only ids
that it holds).  The invariants that matter are not inductive: that a query in progress
is still connected depends on the slot it came from being live and unshared.  `IInv`
adds that held ids are exactly the live slots (`HeldAreLive`), that a live slot's
object is connected to the slot's url (`SlotsConnected`), that no two live slots
have the same object (`SlotsDistinct`), that a query that was not cut runs beside its
slot or has an object of its own (`CallsConnected`), which is in no slot and no other
query (`OwnApart`).  `Close` is the delicate action: it frees an object, and
`SlotsDistinct` and `OwnApart` say together that nothing else refers to it but the
queries made with that id, which it cuts.  The hypothesis is needed: a second close of
an id passes the driver the pointer that the first left behind.

**Sdb_proofs: the driver table** (no hypothesis).  `RegistryInv` says that the entries
below `ndrivers` are named and, from the initialisation on, not those of early drivers,
behind which only early drivers stand (`Packed`), that all drivers but these have an
entry below `ndrivers` (`KeptAreThere`), that before the initialisation there are no
others and no connections (`OnlyEarlyBefore`), and that no more entries are named than
there are builtins and registrations (`Crowded`).  Hence a registration goes to an entry
that is behind every remembered index and every first match, and a table without an
empty entry has as many registrations as it had room for.  RegisteredAreFoundAlways
needs that a scan finds a name that is there, that is, that the entries of a name have
a first one (`FirstEntry`); since the library's induction cannot be used, this is drawn
from `FS_Injection`: otherwise x - 1 would map a finite set to itself one to one, and
yet not reach its greatest element.

**Sdbd_proofs: the session.**  The three theorems are one argument.  `SessionTypes`
says what the client, both streams and the children are, whatever the network does;
it is inductive by itself and needs no hypothesis.  What the application and the
server have agreed on is `InSession`: for the place of the client in the driver, what
its connection is at (`Dialogue`).  A connection that is kept is `Resting` between two
calls; during them a request is underway and unread, or the child has read it and
answered, and never both.  While a query is answered (`Answering`) it `Waits` to be
read, the child `Tells` its rows or `HasTold` them all, or the session had ended and
is `Silent`.

An answer has no marks, so that the heart of it is a count.  `Whole(q)` is all the
characters of an answer; `HasRead(x, r)` says where the client is after r of them (in
front of a row, behind a number of columns, in front of a width, within a column, with
the rows and columns it has collected), and `OnItsWay(s, q, r, p)` that the stream
holds those from there to the p-th.  What has been sent is `Upto` that p.  The child
writes the next row and p grows by its length (`AnswerGoesOn`, `MoreWritten`); the
client reads one character and r grows by one (`OneRead`, `AnswerRead`).  A client
that takes a "0" for the end has therefore collected all rows (`UptoTheEnd`), which
is what QueryService!Return asks for, and nothing is left behind for the next query,
which is InStep.  `SessionInv` leaves out a client that is dead or spins after a
failed read: QueryService promises it nothing.  `SessionStep` shows for each action
that it keeps the invariant and is an action of QueryService or stutters.

Recursion stays out of the reach of induction, and is not needed: that `Joined` is
defined by its equation (`JoinedSolves`), that what was joined stays in front
(`JoinedGrows`) and the like are drawn from a least place at which they would fail.

The hypothesis of InStepAlways and ProxyRefinesService is `WholeRequests`: one read
of the server returns the request as it was sent, and no query is empty.  It names
the two hazards of this protocol that no property covers, and it is needed: with a
request in two segments the server answers a query that nobody made, and with an
empty one both ends wait (section 6).  It is met in session_faults.

**Sdbd_proofs: the daemon.**  PrivateSockets is inductive only with what a connection is
at each place of main's loop: it is in the queue once and nobody's (`Queued`), in
main's hands until it is forked for, and a child that does not run has no
descriptor (`Accepted`).  For the zombies, each child that ends either raises a signal
or is counted in `merged`, and there cannot be more merged signals than children
that have ended (`Counted`).

**TextDriver_proofs.**  `IInv` says what each process knows of the two files at its
step (`Placed`), with the fact that an update or delete is `Alone`: what it has read
is what the file still holds when it truncates it..  TypeOK and DamageStays follow, for
any files..  TableIsAtomic, the refinement of TextTable, needs besides that the
temporary file of a rewrite is what the query makes of the table (`Settled`)..  A step
of the driver is then a step of TextTable or none: a query that is refused is so when
it opens the file (`OpenRefines`), a select takes effect when it has read to the end
(`SelectEndsRefines`), an insert when its line is appended (`InsertRefines`), a
rewrite when the file is truncated (`TruncateRefines`), since from then on the
temporary file is the table; copying back and unlinking are not seen, and a crash
anywhere is a crash (`PromisedCrash`)..  The lemmas about rows say that what is read
from the lines and then chosen is what TextTable chooses (`SelectIsPromised`,
`RewriteIsPromised`); `IthPlace`, that a set of n places has an i-th one for every i
up to n, is by a greatest place that would have none..  The row that a rewrite adds is
`MoreOf` the copy until the file is closed, and belongs to the table from then on..  The
hypothesis is `WellFormed`: the files are missing at first or have a header..  It is
needed because TextTable calls a table damaged only by a crash.

**GdbmDriver_proofs.**  `Exclusive` (who holds the lock for writing is alone) is
preserved because the library grants no lock against it, and `Fine` relates each
caller's lock to where it is in its command; for a list, the keys passed on so far are
different keys of the file..  From these follows that a file does not change under a
list, whatever the callbacks and the other processes do. CommandsAreAtomicAlways
(hypothesis: `Rebuilt`, each call has a fresh query string) is the refinement of
KeyValue, step by step: a call is a call (`CallSeen`), opening, calling back and
listing a key are stutters (`HiddenSeen`), the step that works on the file, or that
ends a list, is KeyValue's effect with the same answer (`EffectSeen`), a failure, of
the library too, is a refusal for one of the four reasons (`RefusalSeen`), closing
returns (`ReturnSeen`), and the death of a process is one (`CrashSeen`). That a list
which has passed on as many different keys as there are has passed on all of them is
`ListOfAll`, by `FS_CountingElements`..  Without the hypothesis a repeated store is
refused for no reason (section 6).

**IngresDriver_proofs.**  The driver counts columns, the database has its own place
in the result, and RowsAreOwn needs that the two agree: `Faithful` says, for a
query without long values, that the columns collected are those before the place
in its row and the rows delivered those before it, converted.  `Placed` keeps both
within their bounds for every query, long values or not.  `Layered` puts this to
every level of callbacks, of which only the innermost moves, and `Owned` says of
everything that the database holds which query has yet to close it, by the step that
query has reached; of a query that has returned there is nothing.  What the database
has refused to release is `Leftover`: it lies under the level of a connection that is
still there, or of one that was left itself, for which a query must know whose
connection it uses (`Linked`).

**OracleDriver_proofs.**  `Course` says which calls may have failed by each step, and
that after a successful describe and define all columns are defined; `Progress` is what
the answer depends on: what has been passed on is the beginning of each row up to the
columns defined, so that the next one is too (`PassedNext`) and nothing of it is what
an earlier query left in the buffers, unless the first column could not be described,
when it is that in every row (`Repeated`).  `Shape` relates the logins to the query,
the id and the logoffs without effect.

**TdsDriver_proofs.**  `Told` and `Counted` state the property of any call
(`SentOf`, `LastOf`), `Placed` the array: it has the length of the rows of this
result, because a result has rows of one length and the array is allocated anew.
`CallBackStep` shows that one more row has been sent and told, `NextResultStep` that
what was the last result with rows is so still after one without.  `Ended` is what a
failure of tds_process_tokens leaves to be said, at each place where it may fail.

**PlainDrivers_proofs.**  `Shape` says which connection a query has and how many there
are by what there was before, `Progress` what it has delivered, what has failed and what
it will return, for all eight drivers at once.  QueriesGiveBackAlways is an action
property of the last step, from `Shape`.

**What the proofs have changed.**  The attempt to prove the refinement found that KeyValue
described the answer of a fetch by a CASE with overlapping guards, of which TLC
takes the first and TLA+ either; the guard now says that the key is there.

QueriesAreAnswered of TdsDriver did not say where a result's rows begin, nor what
number is returned without any; now it does.

For the proofs of TextDriver the rows that meet a condition are chosen by their
places, and for those of SdbdSession an answer is `Joined` from its parts: about the
forms they had before one can only reason by induction..  The proof of SessionTypes also
asked what the model had never said, that a number of columns and a width have one
digit.

**Only model-checked**, and why:
- liveness under fairness and ENABLED, which the proof system does not have:
  OnlyEndedSessionsHang, ChildrenEnd and NobodyIsLeftWaiting, and EveryCallReturns,
  which is violated;
- RoundTrip and NothingIsMadeUp of TextQueries: they are about what a parser computes
  for every text, and its definitions go through the text by recursion on what is left
  of it.  The library's theorems of induction take an operator as a parameter, which
  no installed prover can instantiate.

## 6. Where the code and its documents disagree

One of these is a run:
- **session_after_error.**  After a query that failed, the child ends, and the
  client keeps the connection.  Its next query reads the end of the stream, for
  which `read` returns 0 and not an error, and `readdata` never leaves its loop.

The models show these as well, with a constant set otherwise, though no run is
kept for them:
- The server takes what one `read` returns for the whole query; a query that TCP
  delivers in two segments is cut off (sdbd.c:93; SdbdSession with
  `Segmented = TRUE`).  The ChangeLog reports the same for small segments as fixed
  (ChangeLog:139-140).
- A store of gdbm cuts its query at the `=`; the application that repeats the call
  with the same string, because the database was locked, is refused for good
  (gdbm_driver.c:94; GdbmDriver with `Rebuilt = FALSE`).
- sdb_close clears the url of a slot and leaves its `db`, which is all that it looks at
  before it calls the driver: a second close of an id frees an object twice, or that of
  the connection which has been given the slot since (sdb.c:206-217; SdbConn with
  `StaleIds = TRUE`).

sdb.3:38-39 says that sdb_query returns the number of rows and -1 for an error, and
that no rows is no error.  The drivers differ, and the models return what they do:
- sqlite and sqlite3 return the number of rows so far for a query that failed
  (sqlite_driver.c:101-107), odbc, lago and shsql for one whose rows cannot be fetched
  (odbc_driver.c:43, lago_driver.c:47, shsql_driver.c:85);
- mysql returns 0 when the result cannot be stored (mysql_driver.c:50-61), msql -1
  for a statement without a result (msql_driver.c:95-99);
- tds returns -1 for a query without rows (tds_driver.c:85) and the number of rows of
  the last result (tds_driver.c:117); when tds_process_tokens fails amid the rows or
  between results, it is answered by what there was until then (tds_driver.c:103, 120);
- oracle returns what was fetched before an error (oracle_driver.c:161), and when
  odescr or odefin fails on the first column, a result of one column, with whatever
  the buffer holds (oracle_driver.c:274);
- ingres never returns -1 for a query: an error while rows are fetched ends them, and
  the status of a close and a commit changes nothing (ingres_driver.c:318-360);
- gdbm returns 0 for a fetch or a list that has passed rows on, and -1 for a key that
  is not there (gdbm_driver.c:115-119, 173-180);
- the sdbd server reports no errors, a failed query has no rows (sdbd.c:98-101), and a
  query sent to an ended session that meets a reset is answered by 0.
No run asks for the manual's numbers; QueriesAreAnswered and CommandsAreAtomic say
which number it is, and ProxyPassesRowsOn which rows.

And these are in the models' actions as the code has them; the properties are
stated around them, and name them:
- sdb_register_driver does not initialise the library, and the first call that
  does starts the table again over what was registered (sdb.c:246), although
  sdb.3:27-29 says that sdb_init need not be called; RegisteredAreFound says that
  these are the only drivers lost.
- sdb_register_driver does not look whether the table is full, and lookup_driver
  ends at an empty entry only (sdb.c:96-100, 118): OnlyFullTablesOverrun says how
  many registrations it takes.
- A query by url that fails with mysql returns without closing the connection
  opened for it (mysql_driver.c:113, against sdb.3:32-34).  A program such as
  squid_sdb_auth.c, which makes all its queries by url, can use up the connections of
  the server.  odbc and lago leave connections behind on some errors as well
  (odbc_driver.c:106-123, lago_driver.c:83-88).  QueriesGiveBack and NothingLost name
  them, and say that there are no others.
- text: when a delete removes the last row, the temporary file ends in a newline or
  is empty, and the copy back, which runs until `feof`, writes the line in its buffer
  once more: the row before it, or the deleted one (text_driver.c:1082).  A newline at
  the end of a table gives a select an additional empty row, and an update of a table
  without rows writes the header twice (text_driver.c:872, 971).  TextTable has these
  rows.
- oracle: a login whose cursor cannot be opened is logged off through memory that
  has been freed (oracle_driver.c:123-124), and a logoff that fails is only noted
  (oracle_driver.c:136-141); LoginsAreAccounted counts what stays.
- sdb_open returns an id when the driver could not connect (sdb.c:186).
- sdbd makes the queries of a session with the url and not with the id it opened,
  so that the connection is never used (sdbd.c:133); a session whose sdb_open was
  refused ends in `sdb_close(NULL)`, which crashes (sdbd.c:134, sdb.c:206); an empty
  query sends nothing and both ends wait (sdbd_driver.c:257).
- text parser: what follows the first comparison of a condition, such as "and",
  is ignored (text_driver.c:633), so that an update or delete concerns more rows than
  its text says, which README.text:27-29 excludes; blanks are dropped inside quotes,
  and commas separate there (text_driver.c:140); an insert whose last value has no
  quotes writes "(null)" for it (text_driver.c:1015-1016); an insert without
  parentheses, another value without quotes, and a text that ends in a keyword lead to
  a NULL pointer or behind the text (text_driver.c:443).  NothingIsMadeUp excepts the
  "(null)" and the second comparison, and names what else is dropped behind a quote, a
  parenthesis or a comma.
- tds: a value that tds_convert refuses leaves a wild pointer in the row
  (tds_driver.c:146), and a url without a user ends the process (tds_driver.c:230).
- ingres: a null passes on what the buffer held before, a long value becomes two
  columns and shifts those behind it (ingres_driver.c:318-341); a value of varying
  length is passed on as its count of bytes, and an integer of eight bytes as 0
  (ingres_driver.c:105-136), for which reason RowsAreOwn is about the other types.

## 7. What is left out

- Updates and deletes of the text driver that overlap with another query are
  excluded in `Call`: the two writers would share one temporary file, and what is
  left then depends on the widths of rows.  Selects made from the callback of a
  select share the static `FILE *` and are excluded too.
- Queries made from an oracle callback on the same id, which parse over the
  cursor that is being fetched from.
- In PlainDrivers, the memory of urls and handles, and the 1023 characters of a value
  that odbc passes on.
- In SdbdDaemon, the options and the step into the background, which come before
  the first connection; signals that interrupt `accept` or `read`, which the
  handlers of BSD and glibc restart.
- In GdbmDriver, what a process that dies within a call of the library leaves of the
  file: a call is taken to have its effect or none.
- A second close of an id is in SdbConn (`StaleIds`), but in no run and no proof.
- In SdbConn, what a query does after it has followed a pointer to a closed object.
- mimer: embedded SQL, whose state is that of the preprocessor; mimer_driver.i is
  generated.
- Lengths: buffers of fixed size (4096 bytes for a query, 1024 for a url, the fields
  of the text driver) and the digits of numbers above nine in an answer.
- sdb_url_value, a search in a string: urls are atoms, and a key that is missing is
  one of the failures of a driver.
- common.c (memory, messages), the client programs and the build files keep no
  state that a model could be about.

## 8. The plan

Done: SdbConn, SdbRegistry, SdbdSession with QueryService, SdbdDaemon, TextDriver with
TextTable and TextRows, GdbmDriver with KeyValue, IngresDriver, OracleDriver,
TdsDriver and PlainDrivers, all with proofs of their safety; TextQueries,
model-checked.

Next, in this order:
1. PlainDrivers composed with SdbConn, so that what a driver leaves behind is seen
   through the ids; its refinement of QueryService for the drivers that store.
2. Overlapping writers and nested selects in TextDriver, nested queries on an
   oracle cursor.
3. sdb_url_value as a function, checked against the grammar of urls.
