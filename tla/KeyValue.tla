------------------------------ MODULE KeyValue ------------------------------
(***************************************************************************)
(* What a gdbm database gives to those who send it commands: a command     *)
(* takes effect at one moment between its call and its return, on the      *)
(* whole database, and is refused only for a reason.                       *)
(*                                                                         *)
(* The numbers are those of the driver and not of the manual, where a      *)
(* query returns the number of its rows, none is no error, and -1 is one   *)
(* (sdb.3:38-39): a fetch or a list answers 0 with the rows it passed on   *)
(* (gdbm_driver.c:117, 149), and a fetch, a test or a deletion of a key    *)
(* that is not there answers -1, as a command that has failed does.        *)
(***************************************************************************)
EXTENDS Integers, Sequences, SequencesExt

CONSTANTS
    Callers,   \* those who may have a command underway, one each
    Commands,  \* the commands they give
    Failing,   \* those for which the library may fail
    Stores,    \* what the database may hold at first; NULL if there is no file
    NULL

VARIABLES
    store,     \* the values of the keys that have one, or NULL
    calls      \* for each caller: NULL, or its command and how far it is

kvars == <<store, calls>>

Refused == [n |-> -1, rows |-> <<>>]

\* The commands that need the database for themselves; they make it if there is none.
Writes(cmd) == cmd.op \in {"store", "delete", "reorganize"}

WellFormed(cmd) == cmd.op # "unknown"

Put(s, k, v) == [x \in DOMAIN s \cup {k} |-> IF x = k THEN v ELSE s[x]]

Without(s, k) == [x \in DOMAIN s \ {k} |-> s[x]]

\* What a command leaves in the database.
After(cmd, s) ==
    CASE cmd.op = "store"  -> Put(s, cmd.key, cmd.value)
      [] cmd.op = "delete" -> Without(s, cmd.key)
      [] OTHER             -> s

\* The keys that a list names, every one but if the library fails.
Listings(cmd, s) == IF cmd \in Failing THEN SUBSET DOMAIN s ELSE {DOMAIN s}

\* What it may answer.  A list names each key once, in no particular order.
Answers(cmd, s) ==
    CASE cmd.op \in {"store", "reorganize"} -> {[n |-> 0, rows |-> <<>>]}
      [] cmd.op = "list" ->
            {[n |-> 0, rows |-> keys] : keys \in UNION {SetToSeqs(K) : K \in Listings(cmd, s)}}
      [] cmd.op \in {"fetch", "delete", "exists"} /\ cmd.key \notin DOMAIN s -> {Refused}
      [] cmd.op = "fetch" /\ cmd.key \in DOMAIN s -> {[n |-> 0, rows |-> <<s[cmd.key]>>]}
      [] OTHER -> {[n |-> 0, rows |-> <<>>]}

Init ==
    /\ store \in Stores
    /\ calls = [c \in Callers |-> NULL]

Underway(c) == calls[c] # NULL /\ calls[c].answer = NULL

Call(c, cmd) ==
    /\ calls[c] = NULL
    /\ calls' = [calls EXCEPT ![c] = [cmd |-> cmd, answer |-> NULL]]
    /\ UNCHANGED store

\* A command that writes makes the file.
Create(c) ==
    /\ Underway(c) /\ Writes(calls[c].cmd)
    /\ store = NULL
    /\ store' = <<>>
    /\ UNCHANGED calls

Apply(c) ==
    /\ Underway(c) /\ WellFormed(calls[c].cmd)
    /\ store # NULL
    /\ \E a \in Answers(calls[c].cmd, store) : calls' = [calls EXCEPT ![c].answer = a]
    /\ store' = After(calls[c].cmd, store)

\* The reasons: there is no such command, no file to read, somebody else at work,
\* one of the two in order to write, or the library has failed.
Refuse(c) ==
    /\ Underway(c)
    /\ LET cmd == calls[c].cmd
       IN  \/ ~WellFormed(cmd)
           \/ ~Writes(cmd) /\ store = NULL
           \/ cmd \in Failing /\ cmd.op \in {"store", "delete", "exists", "fetch"}
           \/ \E d \in Callers \ {c} :
                 calls[d] # NULL /\ (Writes(cmd) \/ Writes(calls[d].cmd))
    /\ calls' = [calls EXCEPT ![c].answer = Refused]
    /\ UNCHANGED store

Return(c) ==
    /\ calls[c] # NULL /\ calls[c].answer # NULL
    /\ calls' = [calls EXCEPT ![c] = NULL]
    /\ UNCHANGED store

\* A process dies with all its calls.
Crash(C) ==
    /\ calls' = [c \in Callers |-> IF c \in C THEN NULL ELSE calls[c]]
    /\ UNCHANGED store

Next ==
    \/ \E c \in Callers :
          \/ \E cmd \in Commands : Call(c, cmd)
          \/ Create(c) \/ Apply(c) \/ Refuse(c) \/ Return(c)
    \/ \E C \in SUBSET Callers : Crash(C)

Spec == Init /\ [][Next]_kvars
=============================================================================
