---------------------------- MODULE SdbRegistry ----------------------------
(***************************************************************************)
(* The driver table of sdb.c: sdb_register_driver, the lookup of a driver  *)
(* by the name in front of a url, and the initialisation that every        *)
(* library call performs once.  A connection remembers its driver as an    *)
(* index into the table (conn[j].driver), and sdb_close calls whatever     *)
(* that entry holds by then.  An application may register drivers before   *)
(* the table is initialised, which takes their entries again, and more of  *)
(* them than the table has room for.                                       *)
(***************************************************************************)
EXTENDS Integers, Sequences, FiniteSets

CONSTANTS
    TableSize,    \* drivers[20]: the number of entries
    Builtin,      \* the drivers compiled into the library, in the order of sdb_init
    AppDrivers,   \* what an application may register itself, each once
    NameOf,       \* the name under which a driver is registered
    Names,        \* the names that the application looks up
    Ids,          \* ids of the connections it may have open
    None

Drivers == {Builtin[i] : i \in 1 .. Len(Builtin)} \cup AppDrivers

ASSUME RegistryAssumption ==
    /\ TableSize \in Nat
    /\ Builtin \in Seq(Drivers)
    /\ Len(Builtin) < TableSize
    /\ \A i \in 1 .. Len(Builtin) : Builtin[i] \notin AppDrivers
    /\ NameOf \in [Drivers -> Names]
    /\ None \notin Drivers

VARIABLES
    drivers,      \* the table; an entry without a name is None
    ndrivers,
    initDone,     \* init_done
    open,         \* the open connections: the index kept and the driver that opened it
    registered,   \* the drivers the application has registered
    early,        \* those of them that it registered before sdb_init
    overrun       \* has a scan or a registration left the table?

registryVars == <<drivers, ndrivers, initDone, open, registered, early, overrun>>

Entries == 0 .. TableSize - 1

RegistryTypes ==
    /\ drivers \in [Entries -> Drivers \cup {None}]
    /\ ndrivers \in 0 .. TableSize
    /\ initDone \in BOOLEAN
    /\ open \in [Ids -> [at : Entries, by : Drivers] \cup {None}]
    /\ registered \subseteq AppDrivers /\ IsFiniteSet(registered)
    /\ early \subseteq registered
    /\ overrun \in BOOLEAN

RegistryInit ==
    /\ drivers = [i \in Entries |-> None]
    /\ ndrivers = 0
    /\ initDone = FALSE
    /\ open = [c \in Ids |-> None]
    /\ registered = {}
    /\ early = {}
    /\ overrun = FALSE

---------------------------------------------------------------------------
\* sdb_init, at the start of a library call: the first time, the table is filled
\* again from its first entry.  What stood behind the last builtin stays.
Filled ==
    IF initDone THEN drivers
    ELSE [i \in Entries |-> IF i < Len(Builtin) THEN Builtin[i + 1] ELSE drivers[i]]

\* Slip: every library call counts from the builtins again.
CountAgain == Len(Builtin)

Count == IF initDone THEN ndrivers ELSE Len(Builtin)

Initialised ==
    /\ drivers' = Filled
    /\ ndrivers' = Count
    /\ initDone' = TRUE

\* Slip: the scan is bounded by the last match instead of the first.
LookupLast(table, name, i) ==
    /\ table[i] # None /\ NameOf[table[i]] = name
    /\ \A k \in Entries : k > i /\ table[k] # None => NameOf[table[k]] # name

\* lookup_driver: entry i is the first of that name, and no empty entry, which
\* would end the scan, comes before it.
Lookup(table, name, i) ==
    /\ table[i] # None /\ NameOf[table[i]] = name
    /\ \A k \in Entries : k < i => table[k] # None /\ NameOf[table[k]] # name

\* The scan has neither found the name nor met an empty entry.
LeavesTable(table, name) ==
    \A i \in Entries : table[i] # None /\ NameOf[table[i]] # name

---------------------------------------------------------------------------
\* sdb_init called by the application.
InitLibrary ==
    /\ Initialised
    /\ UNCHANGED <<open, registered, early, overrun>>

\* What is remembered of a registration.
Remember(d) ==
    /\ registered' = registered \cup {d}
    /\ early' = IF initDone THEN early ELSE early \cup {d}

\* Slip: an entry is overwritten when the name is registered already.
RegisterReplaces(d) ==
    /\ d \notin registered
    /\ ndrivers < TableSize
    /\ IF \E i \in Entries : Lookup(drivers, NameOf[d], i)
       THEN /\ drivers' = [drivers EXCEPT ![CHOOSE i \in Entries : Lookup(drivers, NameOf[d], i)] = d]
            /\ UNCHANGED ndrivers
       ELSE /\ drivers' = [drivers EXCEPT ![ndrivers] = d]
            /\ ndrivers' = ndrivers + 1
    /\ Remember(d)
    /\ UNCHANGED <<initDone, open, overrun>>

\* Slip: a driver is entered twice.
RegisterTwice(d) ==
    /\ d \notin registered
    /\ ndrivers < TableSize
    /\ drivers' = [i \in Entries |-> IF i \in {ndrivers, ndrivers + 1} THEN d ELSE drivers[i]]
    /\ ndrivers' = ndrivers + 2
    /\ Remember(d)
    /\ UNCHANGED <<initDone, open, overrun>>

\* sdb_register_driver, which does not initialise the library itself, on a table
\* with an entry left.
Register(d) ==
    /\ d \notin registered
    /\ ndrivers < TableSize
    /\ drivers' = [drivers EXCEPT ![ndrivers] = d]
    /\ ndrivers' = ndrivers + 1
    /\ Remember(d)
    /\ UNCHANGED <<initDone, open, overrun>>

\* sdb_register_driver on a full table, for which it does not look: what it writes
\* goes behind the table.
RegisterOutside(d) ==
    /\ d \notin registered
    /\ ndrivers = TableSize
    /\ overrun' = TRUE
    /\ UNCHANGED <<drivers, ndrivers, initDone, open, registered, early>>

\* sdb_query or sdb_open that names no driver: refused, unless the scan has gone
\* past the end of the table.
LookupFails(name) ==
    /\ \A i \in Entries : ~Lookup(Filled, name, i)
    /\ Initialised
    /\ overrun' = (overrun \/ LeavesTable(Filled, name))
    /\ UNCHANGED <<open, registered, early>>

\* sdb_query with a url: the driver is called, and nothing of it is kept.
Query(name, i) ==
    /\ Lookup(Filled, name, i)
    /\ Initialised
    /\ UNCHANGED <<open, registered, early, overrun>>

\* sdb_open.
OpenConnection(name, i, c) ==
    /\ open[c] = None
    /\ Lookup(Filled, name, i)
    /\ Initialised
    /\ open' = [open EXCEPT ![c] = [at |-> i, by |-> Filled[i]]]
    /\ UNCHANGED <<registered, early, overrun>>

\* sdb_close, which does not initialise the library.
CloseConnection(c) ==
    /\ open[c] # None
    /\ open' = [open EXCEPT ![c] = None]
    /\ UNCHANGED <<drivers, ndrivers, initDone, registered, early, overrun>>

\* What the library does after it has left its table is undefined.
RegistryNext ==
    /\ ~overrun
    /\ \/ InitLibrary
       \/ \E d \in AppDrivers : Register(d)
       \/ \E d \in AppDrivers : RegisterOutside(d)
       \/ \E name \in Names : LookupFails(name)
       \/ \E name \in Names, i \in Entries : Query(name, i)
       \/ \E name \in Names, i \in Entries, c \in Ids : OpenConnection(name, i, c)
       \/ \E c \in Ids : CloseConnection(c)

RegistrySpec == RegistryInit /\ [][RegistryNext]_registryVars

---------------------------------------------------------------------------
(* Properties *)

\* The entry that an open connection remembers still holds the driver that
\* opened it: sdb_query and sdb_close by id reach the driver whose object they
\* pass on (sdb.c:156-169, sdb.c:211-212).  Only a driver registered before
\* sdb_init can be replaced, when there were more of those than builtins: it then
\* stands behind ndrivers, where the next registration writes.
ConnectionsKeepTheirDriver ==
    \A c \in Ids : open[c] # None /\ open[c].by \notin early =>
        drivers[open[c].at] = open[c].by

\* Once a name leads to a driver, it leads to the same one for ever, whatever is
\* registered under that name later (sdb.c:104-125), unless the driver was
\* registered before sdb_init.
NamesKeepTheirDriver ==
    [][\A name \in Names, i \in Entries :
          initDone /\ Lookup(drivers, name, i) /\ drivers[i] \notin early =>
              Lookup(drivers', name, i) /\ drivers'[i] = drivers[i]]_registryVars

\* A driver that has been registered stays in the table, and its name leads to it
\* unless it leads to one that was there before.  The drivers registered before
\* sdb_init lose this when it runs: it starts again from the first entry
\* (sdb.c:246), although sdb.3:27-29 says that sdb_init need not be called.
RegisteredAreFound ==
    \A d \in registered :
        \/ initDone /\ d \in early
        \/ \E i, k \in Entries :
              i <= k /\ Lookup(drivers, NameOf[d], i) /\ drivers[k] = d

\* Neither a registration (sdb.c:96-100) nor a scan (sdb.c:118), which do not look
\* for the end of the table, leaves it before the application has registered as many
\* drivers as the builtins have left entries.
OnlyFullTablesOverrun ==
    overrun => Cardinality(registered) >= TableSize - Len(Builtin)

---------------------------------------------------------------------------
(* The inductive invariant.                                                *)

\* Before sdb_init, all that is registered is early, and the table holds nothing else.
OnlyEarlyBefore ==
    ~initDone => /\ early = registered
                 /\ \A i \in Entries : drivers[i] # None => drivers[i] \in early
                 /\ \A c \in Ids : open[c] = None

\* Below ndrivers every entry is named, and those of sdb_init and after it keep
\* their places; behind it stand only drivers that were registered too early.
Packed ==
    \A i \in Entries :
        IF i < ndrivers THEN drivers[i] # None /\ (initDone => drivers[i] \notin early)
                        ELSE drivers[i] = None \/ (initDone /\ drivers[i] \in early)

\* Every driver that no initialisation has taken away has its entry.
KeptAreThere ==
    \A d \in registered :
        \/ initDone /\ d \in early
        \/ \E k \in Entries : k < ndrivers /\ drivers[k] = d

\* No entry is named but for those of the builtins and one for every registration.
Crowded ==
    LET n == Len(Builtin) + Cardinality(registered) IN
        /\ ndrivers <= n
        /\ \A i \in Entries : drivers[i] # None => i < n

RegistryInv ==
    /\ RegistryTypes
    /\ OnlyEarlyBefore
    /\ Packed
    /\ KeptAreThere
    /\ Crowded
    /\ ConnectionsKeepTheirDriver
    /\ OnlyFullTablesOverrun
=============================================================================
