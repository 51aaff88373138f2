----------------------------- MODULE SdbdDaemon -----------------------------
(***************************************************************************)
(* The daemon sdbd around its sessions: it accepts connections, forks a    *)
(* child for each, and is told by SIGCHLD of the children that have ended. *)
(* A session is what SdbdSession makes of it; here it is a child that runs *)
(* until its client leaves, or less long.                                  *)
(*                                                                         *)
(* The kernel, which keeps the queue of connections, the descriptors and   *)
(* the zombies, is external.  A signal handler stays installed and its     *)
(* signal is held back while it runs, as with signal() of BSD and of       *)
(* glibc; signals that are held back are merged into one.                  *)
(***************************************************************************)
EXTENDS Integers, Sequences, FiniteSets

CONSTANTS
    Connections,     \* the connections that clients make
    Backlog,   \* how many of them may wait to be accepted
    MaxProcs,  \* how many children the system lets the daemon have, zombies included
    Daemon,    \* the process that accepts; a child has the name of its connection
    Listen,    \* the descriptor of the listening socket
    None

ASSUME DaemonAssumption ==
    /\ IsFiniteSet(Connections)
    /\ Daemon \notin Connections /\ Listen \notin Connections /\ None \notin Connections
    /\ Backlog \in Nat /\ MaxProcs \in Nat

VARIABLES
    main,      \* where main's loop is: "accept", "fork", "parent", or "dead" after sdb_error
    newsock,   \* newsockfd
    queue,     \* the connections that wait to be accepted
    left,      \* the clients that have gone
    child,     \* what has become of the child of each connection
    fds,       \* the descriptors that each process has open
    pending,   \* is a SIGCHLD on its way?
    handling,  \* is waitforchild running?
    merged     \* history: signals that found another one pending

daemonVars == <<main, newsock, queue, left, child, fds, pending, handling, merged>>

Processes == Connections \cup {Daemon}

Running == {c \in Connections : child[c] \in {"started", "serving"}}

Zombies == {c \in Connections : child[c] = "zombie"}

Waiting == {queue[i] : i \in DOMAIN queue}

DaemonTypes ==
    /\ main \in {"accept", "fork", "parent", "dead"}
    /\ newsock \in Connections \cup {None}
    /\ queue \in Seq(Connections)
    /\ left \subseteq Connections
    /\ child \in [Connections -> {"none", "started", "serving", "zombie", "reaped"}]
    /\ fds \in [Processes -> SUBSET (Connections \cup {Listen})]
    /\ pending \in BOOLEAN /\ handling \in BOOLEAN
    /\ merged \in 0 .. Cardinality(Connections)
    /\ main \in {"fork", "parent"} => newsock \in Connections
    /\ \A c \in Waiting : child[c] = "none" /\ \A p \in Processes : c \notin fds[p]

DaemonInit ==
    /\ main = "accept"
    /\ newsock = None
    /\ queue = <<>>
    /\ left = {}
    /\ child = [c \in Connections |-> "none"]
    /\ fds = [p \in Processes |-> IF p = Daemon THEN {Listen} ELSE {}]
    /\ pending = FALSE
    /\ handling = FALSE
    /\ merged = 0

---------------------------------------------------------------------------
(* Clients and the kernel *)

\* The last process that closes the listening socket resets what waits there.
SetFds(f) ==
    /\ fds' = f
    /\ queue' = IF \E p \in Processes : Listen \in f[p] THEN queue ELSE <<>>

Listening == \E p \in Processes : Listen \in fds[p]

\* A connection that was neither made nor reset yet.
Fresh(c) == c \notin Waiting \cup left /\ child[c] = "none" /\ c \notin fds[Daemon]

ClientConnects(c) ==
    /\ Fresh(c)
    /\ Listening
    /\ Len(queue) < Backlog
    /\ queue' = Append(queue, c)
    /\ UNCHANGED <<main, newsock, left, child, fds, pending, handling, merged>>

ClientLeaves(c) ==
    /\ ~Fresh(c)
    /\ c \notin left
    /\ left' = left \cup {c}
    /\ UNCHANGED <<main, newsock, queue, child, fds, pending, handling, merged>>

---------------------------------------------------------------------------
(* main; a handler interrupts it anywhere *)

Accept ==
    /\ main = "accept" /\ ~handling
    /\ queue # <<>>
    /\ newsock' = Head(queue)
    /\ queue' = Tail(queue)
    /\ fds' = [fds EXCEPT ![Daemon] = @ \cup {Head(queue)}]
    /\ main' = "fork"
    /\ UNCHANGED <<left, child, pending, handling, merged>>

\* Slip: the -1 of accept is not looked at, and a child is forked for it.
AcceptFailsUnseen ==
    /\ main = "accept" /\ ~handling
    /\ queue # <<>>
    /\ Head(queue) \in left
    /\ queue' = Tail(queue)
    /\ newsock' = None
    /\ main' = "fork"
    /\ UNCHANGED <<left, child, fds, pending, handling, merged>>

\* accept returns -1 for a client that has gone, and the loop goes on.
AcceptFails ==
    /\ main = "accept" /\ ~handling
    /\ queue # <<>>
    /\ Head(queue) \in left
    /\ queue' = Tail(queue)
    /\ UNCHANGED <<main, newsock, left, child, fds, pending, handling, merged>>

\* The child starts with a copy of every descriptor.
Fork ==
    /\ main = "fork" /\ ~handling
    /\ Cardinality(Running \cup Zombies) < MaxProcs
    /\ child' = [child EXCEPT ![newsock] = "started"]
    /\ fds' = [fds EXCEPT ![newsock] = fds[Daemon]]
    /\ main' = "parent"
    /\ UNCHANGED <<newsock, queue, left, pending, handling, merged>>

\* "Error on fork": the daemon exits, and init inherits its children.
ForkFails ==
    /\ main = "fork" /\ ~handling
    /\ Cardinality(Running \cup Zombies) >= MaxProcs
    /\ main' = "dead"
    /\ SetFds([fds EXCEPT ![Daemon] = {}])
    /\ child' = [c \in Connections |-> IF child[c] = "zombie" THEN "reaped" ELSE child[c]]
    /\ pending' = FALSE
    /\ UNCHANGED <<newsock, left, handling, merged>>

\* Slip: the parent keeps the connection.
ParentGoesOn ==
    /\ main = "parent" /\ ~handling
    /\ main' = "accept"
    /\ UNCHANGED <<newsock, queue, left, child, fds, pending, handling, merged>>

ParentCloses ==
    /\ main = "parent" /\ ~handling
    /\ fds' = [fds EXCEPT ![Daemon] = @ \ {newsock}]
    /\ main' = "accept"
    /\ UNCHANGED <<newsock, queue, left, child, pending, handling, merged>>

---------------------------------------------------------------------------
(* waitforchild *)

Deliver ==
    /\ pending /\ ~handling
    /\ pending' = FALSE
    /\ handling' = TRUE
    /\ UNCHANGED <<main, newsock, queue, left, child, fds, merged>>

\* Slip: the handler does not wait.
OnlyInstall ==
    /\ handling
    /\ handling' = FALSE
    /\ UNCHANGED <<main, newsock, queue, left, child, fds, pending, merged>>

\* One waitpid for each signal, with WNOHANG: of the children that have ended it
\* takes any one, and nothing if there is none.
WaitForChild ==
    /\ handling
    /\ handling' = FALSE
    /\ IF Zombies = {} THEN UNCHANGED child
       ELSE \E c \in Zombies : child' = [child EXCEPT ![c] = "reaped"]
    /\ UNCHANGED <<main, newsock, queue, left, fds, pending, merged>>

---------------------------------------------------------------------------
(* The child of a connection *)

\* Slip: the child keeps the listening socket.
ChildKeepsListening(c) ==
    /\ child[c] = "started"
    /\ child' = [child EXCEPT ![c] = "serving"]
    /\ UNCHANGED <<main, newsock, queue, left, fds, pending, handling, merged>>

ChildCloses(c) ==
    /\ child[c] = "started"
    /\ SetFds([fds EXCEPT ![c] = @ \ {Listen}])
    /\ child' = [child EXCEPT ![c] = "serving"]
    /\ UNCHANGED <<main, newsock, left, pending, handling, merged>>

\* dourl has come to its end, by whatever way.
ServingEnds(c) ==
    /\ child[c] = "serving"
    /\ SetFds([fds EXCEPT ![c] = {}])
    /\ child' = [child EXCEPT ![c] = IF main = "dead" THEN "reaped" ELSE "zombie"]
    /\ pending' = (main # "dead")
    /\ merged' = IF pending THEN merged + 1 ELSE merged
    /\ UNCHANGED <<main, newsock, left, handling>>

---------------------------------------------------------------------------
Main == Accept \/ AcceptFails \/ Fork \/ ForkFails \/ ParentCloses

Handler == Deliver \/ WaitForChild

DaemonNext ==
    \/ Main
    \/ Handler
    \/ \E c \in Connections : ClientConnects(c) \/ ClientLeaves(c) \/ ChildCloses(c) \/ ServingEnds(c)

DaemonSpec == DaemonInit /\ [][DaemonNext]_daemonVars

\* Processes run, and a child whose client has left comes to its end: this is
\* ChildrenEnd of SdbdSession.  Clients need do nothing.
DaemonFairness ==
    /\ WF_daemonVars(Main) /\ WF_daemonVars(Handler)
    /\ \A c \in Connections : WF_daemonVars(ChildCloses(c)) /\ WF_daemonVars(c \in left /\ ServingEnds(c))

DaemonFairSpec == DaemonSpec /\ DaemonFairness

---------------------------------------------------------------------------
(* Properties *)

\* A connection is open in its own child and, until the parent has closed it, in the
\* daemon: no child inherits the connection of another client (sdbd.c:209-228).
PrivateSockets ==
    /\ \A c \in Connections : fds[c] \cap Connections \subseteq {c}
    /\ fds[Daemon] \cap Connections \subseteq IF main \in {"fork", "parent"} THEN {newsock} ELSE {}

\* A zombie is one for which a signal is still to be handled, or one of those whose
\* signals were merged with that of another child: for each merged signal one
\* zombie may stay, and no other does (sdbd.c:48-53).
ZombiesAreAccounted ==
    Cardinality(Zombies) <=
        merged + (IF pending THEN 1 ELSE 0) + (IF handling THEN 1 ELSE 0)

\* The client of c can neither talk to a child nor see the end of its connection.
Stuck(c) == c \in Waiting \/ (c \notin Running /\ \E p \in Processes : c \in fds[p])

\* Every client that has connected is given a child or sees its connection closed,
\* also when the daemon dies while it waits; and when its child has ended, no
\* process keeps the connection open (sdbd.c:222-228).
NobodyIsLeftWaiting == \A c \in Connections : Stuck(c) ~> ~Stuck(c)
=============================================================================
