----------------------------- MODULE GdbmDriver -----------------------------
(***************************************************************************)
(* gdbm_driver.c: every command opens the database, works on it and closes *)
(* it again.  The gdbm library locks the file while it is open, shared for *)
(* reading and exclusive for writing; a lock that somebody else has, in    *)
(* the same process or another, makes the opening fail at once.  The rows  *)
(* of a fetch or a list are passed on with the file still open, and the    *)
(* callback may give commands of its own.  The library and its locks are   *)
(* external: the work on the open file is one step of it, as if nobody     *)
(* could see the file that a process leaves when it dies within the call,  *)
(* and a call of it that fails changes nothing.                            *)
(***************************************************************************)
EXTENDS Integers, Sequences, FiniteSets

CONSTANTS
    Procs,     \* the processes that use the database
    Depth,     \* bound: commands that a process may have underway, one inside another
    Commands,  \* the commands they give
    Failing,   \* the commands for which the library may fail when the database is open
    Data,      \* the keys and values
    Stores,    \* what the database may hold at first; NULL if there is no file
    Rebuilt,   \* does a process write its query string anew for each call?
    NULL

ASSUME GdbmAssumption ==
    /\ Depth \in Nat \ {0}
    /\ Rebuilt \in BOOLEAN
    /\ Failing \subseteq Commands
    /\ \A cmd \in Commands :
          /\ cmd.op \in {"store", "fetch", "delete", "list", "reorganize", "exists", "unknown"}
          /\ cmd.op \in {"store", "fetch", "delete", "exists"} => cmd.key \in Data
          /\ cmd.op = "store" => cmd.value \in Data

VARIABLES
    store,     \* the values of the keys that have one, or NULL
    calls,     \* for each caller: NULL, or its command, where it is in it, what it has
               \* passed on and its result
    lock,      \* for each caller: "none", "read" or "write"
    cut        \* the query strings that a call has left without their "="

vars == <<store, calls, lock, cut>>

Callers == Procs \X (1 .. Depth)

Writes(cmd) == cmd.op \in {"store", "delete", "reorganize"}

At(c, where) == calls[c] # NULL /\ calls[c].at = where

Op(c) == calls[c].cmd.op

Files == UNION {[K -> Data] : K \in SUBSET Data}

Answers == [n : {-1, 0}, rows : Seq(Data)]

Calls ==
    [cmd : Commands, at : {"called", "open", "callback", "answered"}, rows : Seq(Data), n : {-1, 0}]

\* NULL is no file, no call and no answer.
ASSUME NullAssumption ==
    /\ Stores \subseteq Files \cup {NULL}
    /\ NULL \notin Files /\ NULL \notin Calls /\ NULL \notin Answers
    /\ NULL \notin [cmd : Commands, answer : Answers \cup {NULL}]

TypeOK ==
    /\ store \in Files \cup {NULL}
    /\ calls \in [Callers -> Calls \cup {NULL}]
    /\ lock \in [Callers -> {"none", "read", "write"}]
    /\ cut \subseteq Callers \X Commands
    /\ \A c \in Callers :
          /\ At(c, "open") => lock[c] = IF Writes(calls[c].cmd) THEN "write" ELSE "read"
          /\ At(c, "callback") => lock[c] = "read"
          /\ At(c, "called") \/ calls[c] = NULL => lock[c] = "none"

Init ==
    /\ store \in Stores
    /\ calls = [c \in Callers |-> NULL]
    /\ lock = [c \in Callers |-> "none"]
    /\ cut = {}

Moved(c, where) == calls' = [calls EXCEPT ![c].at = where]

Answered(c, n) == calls' = [calls EXCEPT ![c].at = "answered", ![c].n = n]

---------------------------------------------------------------------------
(* Opening *)

\* The first command of a process, or one from within the callback of another.
Call(c, cmd) ==
    /\ calls[c] = NULL
    /\ c[2] > 1 => At(<<c[1], c[2] - 1>>, "callback")
    /\ calls' = [calls EXCEPT ![c] = [cmd |-> cmd, at |-> "called", rows |-> <<>>, n |-> -1]]
    /\ UNCHANGED <<store, lock, cut>>

\* No such command, or a store without a "=": a store cuts its query string there,
\* and when the same string is used again there is none.
Malformed(c) == Op(c) = "unknown" \/ <<c, calls[c].cmd>> \in cut

Problem(c) ==
    /\ At(c, "called")
    /\ Malformed(c)
    /\ Answered(c, -1)
    /\ UNCHANGED <<store, lock, cut>>

CutAfter(c) == IF Op(c) = "store" /\ ~Rebuilt THEN cut \cup {<<c, calls[c].cmd>>} ELSE cut

\* Slip: the database is opened for reading only to be written.
FreeForReading(c) == \A d \in Callers \ {c} : lock[d] # "write"

\* Can the database be locked for the command, and is there one to read?
Free(c) ==
    /\ \A d \in Callers \ {c} : lock[d] # "none" => lock[d] = "read" /\ ~Writes(calls[c].cmd)
    /\ store = NULL => Writes(calls[c].cmd)

\* openordie: GDBM_WRCREAT makes the file, GDBM_READER does not.
Open(c) ==
    /\ At(c, "called") /\ ~Malformed(c)
    /\ Free(c)
    /\ lock' = [lock EXCEPT ![c] = IF Writes(calls[c].cmd) THEN "write" ELSE "read"]
    /\ store' = IF store = NULL THEN <<>> ELSE store
    /\ cut' = CutAfter(c)
    /\ Moved(c, "open")

OpenFails(c) ==
    /\ At(c, "called") /\ ~Malformed(c)
    /\ ~Free(c)
    /\ cut' = CutAfter(c)
    /\ Answered(c, -1)
    /\ UNCHANGED <<store, lock>>

---------------------------------------------------------------------------
(* The commands *)

Found(c) == calls[c].cmd.key \in DOMAIN store

\* gdbm_store with GDBM_REPLACE.
Store(c) ==
    /\ At(c, "open") /\ Op(c) = "store"
    /\ LET cmd == calls[c].cmd
       IN  store' = [k \in DOMAIN store \cup {cmd.key} |->
                        IF k = cmd.key THEN cmd.value ELSE store[k]]
    /\ Answered(c, 0)
    /\ UNCHANGED <<lock, cut>>

Delete(c) ==
    /\ At(c, "open") /\ Op(c) = "delete"
    /\ store' = [k \in DOMAIN store \ {calls[c].cmd.key} |-> store[k]]
    /\ Answered(c, IF Found(c) THEN 0 ELSE -1)
    /\ UNCHANGED <<lock, cut>>

Reorganize(c) ==
    /\ At(c, "open") /\ Op(c) = "reorganize"
    /\ Answered(c, 0)
    /\ UNCHANGED <<store, lock, cut>>

Exists(c) ==
    /\ At(c, "open") /\ Op(c) = "exists"
    /\ Answered(c, IF Found(c) THEN 0 ELSE -1)
    /\ UNCHANGED <<store, lock, cut>>

\* The library fails: a value that cannot be read is one that is not there.
LibraryFails(c) ==
    /\ At(c, "open") /\ Op(c) \in {"store", "delete", "exists", "fetch"}
    /\ calls[c].cmd \in Failing
    /\ Answered(c, -1)
    /\ UNCHANGED <<store, lock, cut>>

\* A row is passed to the callback.
CallBack(c, row) ==
    calls' = [calls EXCEPT ![c].at = "callback", ![c].rows = Append(@, row)]

Fetch(c) ==
    /\ At(c, "open") /\ Op(c) = "fetch"
    /\ IF Found(c) THEN CallBack(c, store[calls[c].cmd.key]) ELSE Answered(c, -1)
    /\ UNCHANGED <<store, lock, cut>>

Listed(c) == {calls[c].rows[i] : i \in DOMAIN calls[c].rows}

\* gdbm_firstkey and gdbm_nextkey, in the order of the file.
ListKey(c) ==
    /\ At(c, "open") /\ Op(c) = "list"
    /\ \E k \in DOMAIN store \ Listed(c) : CallBack(c, k)
    /\ UNCHANGED <<store, lock, cut>>

\* No key follows, or the library cannot find it, which looks the same.
ListEnds(c) ==
    /\ At(c, "open") /\ Op(c) = "list"
    /\ DOMAIN store \subseteq Listed(c) \/ calls[c].cmd \in Failing
    /\ Answered(c, 0)
    /\ UNCHANGED <<store, lock, cut>>

\* The commands that the callback has given have returned, and so does it.
CallbackReturns(c) ==
    /\ At(c, "callback")
    /\ c[2] < Depth => calls[<<c[1], c[2] + 1>>] = NULL
    /\ IF Op(c) = "list" THEN Moved(c, "open") ELSE Answered(c, 0)
    /\ UNCHANGED <<store, lock, cut>>

\* Slip: the database stays open when the command has failed.
CloseUnlessFailed(c) ==
    /\ At(c, "answered")
    /\ lock' = IF calls[c].n = 0 THEN [lock EXCEPT ![c] = "none"] ELSE lock
    /\ calls' = [calls EXCEPT ![c] = NULL]
    /\ UNCHANGED <<store, cut>>

\* gdbm_close, and the return from the driver.
Close(c) ==
    /\ At(c, "answered")
    /\ lock' = [lock EXCEPT ![c] = "none"]
    /\ calls' = [calls EXCEPT ![c] = NULL]
    /\ UNCHANGED <<store, cut>>

\* The process dies; its locks go with its descriptors.
Crash(p) ==
    /\ \E c \in Callers : c[1] = p /\ calls[c] # NULL
    /\ calls' = [c \in Callers |-> IF c[1] = p THEN NULL ELSE calls[c]]
    /\ lock' = [c \in Callers |-> IF c[1] = p THEN "none" ELSE lock[c]]
    /\ cut' = {x \in cut : x[1][1] # p}
    /\ UNCHANGED store

Next ==
    \/ \E c \in Callers :
          \/ \E cmd \in Commands : Call(c, cmd)
          \/ Problem(c) \/ Open(c) \/ OpenFails(c)
          \/ Store(c) \/ Delete(c) \/ Reorganize(c) \/ Exists(c) \/ Fetch(c)
          \/ LibraryFails(c) \/ ListKey(c) \/ ListEnds(c) \/ CallbackReturns(c)
          \/ Close(c)
    \/ \E p \in Procs : Crash(p)

Spec == Init /\ [][Next]_vars

---------------------------------------------------------------------------
(* Properties *)

\* The answer is known once the database has been worked on.
AnswerOf(c) ==
    IF At(c, "answered") \/ (At(c, "callback") /\ Op(c) = "fetch")
    THEN [n |-> IF At(c, "callback") THEN 0 ELSE calls[c].n, rows |-> calls[c].rows]
    ELSE NULL

Promised ==
    [c \in Callers |->
        IF calls[c] = NULL THEN NULL ELSE [cmd |-> calls[c].cmd, answer |-> AnswerOf(c)]]

Promise == INSTANCE KeyValue WITH calls <- Promised

\* Whatever else is underway, in this process or another, each command takes
\* effect at one moment and on the whole database, a list names the keys of one
\* moment, although its callbacks may take any time and give commands; and a
\* command is refused only if it is malformed, has nothing to read, is kept out by
\* one that is underway, or fails in the library, when it has no effect; a list
\* that fails there names some of the keys (gdbm_driver.c:86-180).  The number is
\* that of KeyValue, and not the number of rows that sdb.3:38-39 has.  It is
\* assumed of the library that the death of a process within a call of it is
\* not seen by those who open the file next.
CommandsAreAtomic == Promise!Spec
=============================================================================
