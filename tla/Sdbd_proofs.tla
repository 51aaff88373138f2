---------------------------- MODULE Sdbd_proofs ----------------------------
(***************************************************************************)
(* Proofs about the daemon sdbd: the dialogue between the driver in the    *)
(* application and a session (SdbdSession), and the processes and          *)
(* descriptors of the daemon around the sessions (SdbdDaemon).             *)
(*                                                                         *)
(* For the dialogue the queries, their answers and the number of           *)
(* connections may be any.  Its types hold whatever the network does; that *)
(* both sides agree, and that the application sees what QueryService       *)
(* allows, is proved for whole requests (WholeRequests): read() on the     *)
(* server returns all of a request, and no query is empty.                 *)
(*                                                                         *)
(* For the daemon the clients are finitely many; the length of its queue   *)
(* and the number of processes it may have are any.                        *)
(***************************************************************************)
EXTENDS SdbdSession, SdbdDaemon, SequenceTheorems, FiniteSetTheorems, TLAPS

---------------------------------------------------------------------------
(* The session: types *)

\* Where the client is in an answer.
Reading == {"ncol", "width", "data"}

\* What the client sends.
Words == Queries \cup {Url, OpenRequest}

\* What readno comes to.
Numbers == 0 .. 99

\* The states of the client ...
Clients == [pc : {"idle", "connect", "openConnect", "greet", "openGreet", "openAnswer",
                  "openPlus", "ncol", "width", "data", "spin", "dead"},
            sock : Conns \cup {NULL}, q : Queries \cup {NULL},
            rows : Seq(Seq(Seq(Chars))), no : Numbers, need : Numbers,
            cols : Seq(Seq(Chars)), col : Seq(Chars)]

\* The number of columns and each of the widths have one digit.
Framed(row) ==
    /\ row \in Rows
    /\ Len(row) \in 1 .. 9
    /\ \A k \in DOMAIN row : Len(Text(row[k])) \in 0 .. 9

\* The rows that can be told.
FramedRows == {row \in Rows : Framed(row)}

\* ... and of a connection.
Children == [pc : Serving \cup Over \cup {"unused", "ending"},
             toServer : Seq([of : Words, part : 1 .. 2]), toClient : Seq(Chars),
             open : BOOLEAN, doomed : BOOLEAN, rst : BOOLEAN,
             u : Words \cup {EmptyQuery, Garbled, NULL}, persist : BOOLEAN, db : BOOLEAN,
             todo : Seq(FramedRows), ok : BOOLEAN]

\* The types, and what a call has while it is where it is.
SessionTypes ==
    /\ cli \in Clients
    /\ ci \in Conns \cup {0, NULL}
    /\ conn \in [Conns -> Children]
    /\ cli.pc \in {"connect", "greet"} \cup Reading => cli.q \in Queries
    /\ cli.pc \in {"greet", "openGreet", "openAnswer", "openPlus"} \cup Reading =>
          cli.sock \in Conns

---------------------------------------------------------------------------
(* The session: the answer to a query as one sequence of characters *)

\* What the first rows of the answer come to.
Told(q) == Joined(<<>>, [i \in DOMAIN Answer[q] |-> RowChars(Answer[q][i])])

\* All the characters of an answer.
Whole(q) == Told(q)[Len(Answer[q])] \o TheEnd

\* What is in front of row i + 1, and of column k + 1 in a row.
RowAt(q, i) == Len(Told(q)[i])

ColumnAt(row, k) ==
    Len(Joined(Number(Len(row)), [j \in DOMAIN row |-> Column(row[j])])[k])

\* The rows that a client x has read, and the columns of the next one.
RowsRead(x) ==
    /\ Len(x.rows) <= Len(Answer[x.q])
    /\ \A j \in 1 .. Len(x.rows) : x.rows[j] = TextRows(Answer[x.q])[j]

ColumnsRead(x) ==
    LET row == Answer[x.q][Len(x.rows) + 1]
    IN /\ Len(x.rows) < Len(Answer[x.q]) /\ x.need = Len(row) /\ Len(x.cols) < Len(row)
       /\ \A j \in 1 .. Len(x.cols) : x.cols[j] = Text(row[j])

\* Where r characters of the answer have brought it: in front of a number of columns,
\* behind its digit, or behind the zero of the end ...
BeforeRow(x, r) == x.pc = "ncol" /\ x.no = 0 /\ r = RowAt(x.q, Len(x.rows))

BehindNumber(x, r) ==
    /\ x.pc = "ncol" /\ Len(x.rows) < Len(Answer[x.q])
    /\ x.no = Len(Answer[x.q][Len(x.rows) + 1])
    /\ r = RowAt(x.q, Len(x.rows)) + 1

BehindZero(x, r) ==
    /\ x.pc = "ncol" /\ Len(x.rows) = Len(Answer[x.q]) /\ x.no = 0
    /\ r = RowAt(x.q, Len(x.rows)) + 1

\* ... in front of a width, behind its digit, or in the text of a column.
NextColumn(x) == RowAt(x.q, Len(x.rows)) + ColumnAt(Answer[x.q][Len(x.rows) + 1], Len(x.cols))

NextText(x) == Text(Answer[x.q][Len(x.rows) + 1][Len(x.cols) + 1])

BeforeColumn(x, r) == x.pc = "width" /\ x.no = 0 /\ r = NextColumn(x)

BehindWidth(x, r) == x.pc = "width" /\ x.no = Len(NextText(x)) /\ r = NextColumn(x) + 1

InColumn(x, r) ==
    /\ x.pc = "data" /\ x.no = Len(NextText(x)) /\ Len(x.col) <= Len(NextText(x))
    /\ \A j \in 1 .. Len(x.col) : x.col[j] = NextText(x)[j]
    /\ r = NextColumn(x) + 2 + Len(x.col)

\* The client has read r characters of the answer.
HasRead(x, r) ==
    /\ RowsRead(x)
    /\ \/ BeforeRow(x, r) \/ BehindNumber(x, r) \/ BehindZero(x, r)
       \/ ColumnsRead(x) /\ (BeforeColumn(x, r) \/ BehindWidth(x, r) \/ InColumn(x, r))

\* On the way to the client are the characters of the answer after the r-th, up to
\* the p-th.
OnItsWay(s, q, r, p) ==
    /\ r + Len(s.toClient) = p
    /\ \A j \in 1 .. Len(s.toClient) : s.toClient[j] = Whole(q)[r + j]

\* Nothing but the first p characters of the answer has been sent to the client, which
\* has read some of them.
Upto(x, s, p) == \E r \in Nat : HasRead(x, r) /\ OnItsWay(s, x.q, r, p)

---------------------------------------------------------------------------
(* The session: the inductive invariant *)

\* The client has not closed the connection, and nothing has been lost on it.
Live(s) == s.open /\ ~s.doomed /\ ~s.rst

\* A request is underway, or an answer.
Asked(s, m) == s.toServer = Pieces(m) /\ s.toClient = <<>>

Answered(s, chars) == s.toServer = <<>> /\ s.toClient = chars

\* An open connection between two calls.
Resting(s) ==
    /\ Answered(s, <<>>)
    /\ \/ s.pc = "query" /\ s.u = Url /\ s.persist
       \/ s.pc \in Over \cup {"ending"} /\ ~s.ok

Greeting(s) ==
    \/ s.pc = "url" /\ Asked(s, Url) /\ ~s.persist
    \/ s.pc = "query" /\ Answered(s, <<" ">>) /\ s.u = Url /\ ~s.persist

OpenGreeting(s) ==
    \/ s.pc = "url" /\ Asked(s, OpenRequest)
    \/ s.pc = "openUrl" /\ Answered(s, <<" ">>)

OpenAnswering(s) ==
    \/ s.pc = "openUrl" /\ Asked(s, Url)
    \/ s.pc = "query" /\ s.u = Url /\ s.persist /\ Answered(s, <<"+", "0">>)
    \/ s.pc = "query" /\ Answered(s, TheEnd)

OpenAnswered(s) == s.pc = "query" /\ s.u = Url /\ s.persist /\ Answered(s, <<"0">>)

\* The query of the client x has not been read yet.  It is one on the connection that
\* the application keeps, or on one made for it.
Waits(x, s, kept) ==
    /\ s.pc = "query" /\ Asked(s, x.q) /\ s.u = Url
    /\ s.persist <=> kept
    /\ x.pc = "ncol" /\ x.rows = <<>> /\ x.no = 0

\* Its rows are being written.
Tells(x, s, kept) ==
    /\ s.pc = "rows" /\ s.toServer = <<>> /\ s.u = Url
    /\ s.persist <=> kept
    /\ LET n == Len(Answer[x.q])
       IN /\ Len(s.todo) <= n
          /\ \A j \in 1 .. Len(s.todo) : s.todo[j] = Answer[x.q][n - Len(s.todo) + j]
          /\ Upto(x, s, RowAt(x.q, n - Len(s.todo)))

\* They have been written, and the end behind them.
HasTold(x, s, kept) ==
    /\ s.toServer = <<>>
    /\ \/ s.pc = "query" /\ s.u = Url /\ s.persist /\ kept
       \/ s.pc \in {"ending", "exited", "crashed"} /\ (kept => ~s.ok)
    /\ Upto(x, s, RowAt(x.q, Len(Answer[x.q])) + 2)

\* There is nobody left to tell anything.
Silent(x, s, kept) ==
    /\ kept
    /\ s.pc \in Over \cup {"ending"} /\ ~s.ok
    /\ s.pc \in Over => s.toServer = <<>>
    /\ s.toClient = <<>>
    /\ x.pc = "ncol" /\ x.rows = <<>>
    /\ x.no = 0 \/ s.pc = "gone"

\* A query is underway.
Answering(x, s, kept) ==
    Waits(x, s, kept) \/ Tells(x, s, kept) \/ HasTold(x, s, kept) \/ Silent(x, s, kept)

\* Where the client is in sdb_open.
Opening == {"openConnect", "openGreet", "openAnswer", "openPlus"}

\* What a client is at, whatever its connections are.
Shaped(x) ==
    /\ x.pc = "idle" => x = Idle
    /\ x.pc \in Opening => ci = NULL /\ x.q = NULL /\ x.rows = <<>>
    /\ x.pc \in {"connect", "greet"} => x.rows = <<>> /\ x.no = 0
    /\ x.pc \in {"connect", "openConnect"} => x.sock = NULL
    /\ x.pc = "greet" => x.sock # ci

\* What its connection is at.
Dialogue(x, s, kept) ==
    /\ x.pc = "greet" => Greeting(s)
    /\ x.pc = "openGreet" => OpenGreeting(s)
    /\ x.pc = "openAnswer" => OpenAnswering(s)
    /\ x.pc = "openPlus" => OpenAnswered(s)
    /\ x.pc \in Reading => Answering(x, s, kept)

\* What both sides of every connection are at, and what is underway between them.
InSession ==
    /\ Shaped(cli)
    /\ ci \in Conns => Live(conn[ci]) /\ (cli.sock # ci => Resting(conn[ci]))
    /\ cli.sock \in Conns =>
          Live(conn[cli.sock]) /\ Dialogue(cli, conn[cli.sock], cli.sock = ci)

\* The invariant: a client that is dead or spins, after a read that failed, is in no
\* dialogue.
SessionInv == SessionTypes /\ (cli.pc \notin {"spin", "dead"} => InSession)

---------------------------------------------------------------------------
(* Sequences behind one another *)

\* Of some numbers one is the least: the numbers that are not below all of them could
\* otherwise be mapped to their predecessors one to one.
LEMMA Least ==
    ASSUME NEW T \in SUBSET Nat, NEW n \in T
    PROVE  \E i \in T : i <= n /\ \A k \in T : i <= k
<1> SUFFICES ASSUME \A i \in T : i <= n => \E k \in T : k < i
             PROVE  FALSE
  OBVIOUS
<1> DEFINE U == {x \in 0 .. n : \E k \in T : k <= x}
           pred == [x \in U |-> x - 1]
<1>1. \A x \in U : x - 1 \in U
  <2> TAKE x \in U
  <2>1. PICK k \in T : k <= x OBVIOUS
  <2>2. PICK j \in T : j < k BY <2>1
  <2>3. x - 1 \in 0 .. n /\ j <= x - 1 BY <2>1, <2>2
  <2> QED BY <2>3
<1>2. IsFiniteSet(U)
  <2>1. IsFiniteSet(0 .. n) BY FS_Interval
  <2> QED BY <2>1, FS_Subset
<1>3. pred \in Injection(U, U)
  <2>1. pred \in [U -> U] BY <1>1
  <2>2. \A a, b \in U : pred[a] = pred[b] => a = b OBVIOUS
  <2> HIDE DEF U
  <2> QED BY <2>1, <2>2 DEF Injection, IsInjective
<1>4. pred \in Surjection(U, U)
  <2> HIDE DEF pred, U
  <2> QED BY <1>2, <1>3, FS_Injection
<1>5. PICK x \in U : pred[x] = n
  <2>1. n \in U OBVIOUS
  <2> QED BY <1>4, <2>1 DEF Surjection
<1> QED BY <1>5

\* The equation of the recursive function in Joined, as far as its n-th value.
Solves(g, first, f, n) ==
    g = [k \in 0 .. n |-> IF k = 0 THEN first ELSE g[k - 1] \o f[k]]

\* The recursion is well founded.
LEMMA JoinedSolves ==
    ASSUME NEW X, NEW first \in Seq(X), NEW f \in Seq(Seq(X))
    PROVE  Solves(Joined(first, f), first, f, Len(f))
<1> DEFINE T == {n \in 0 .. Len(f) : \A g : ~Solves(g, first, f, n)}
<1>1. Len(f) \in Nat /\ \A k \in 1 .. Len(f) : f[k] \in Seq(X) OBVIOUS
<1>2. T = {}
  <2> SUFFICES ASSUME T # {} PROVE FALSE
    OBVIOUS
  <2>1. T \in SUBSET Nat BY <1>1
  <2>2. PICK n \in T : \A k \in T : n <= k
    <3> HIDE DEF T
    <3> QED BY <2>1, Least
  <2>3. n \in 0 .. Len(f) /\ \A g : ~Solves(g, first, f, n) BY <2>2
  <2>4. CASE n = 0
    <3> DEFINE g == [k \in 0 .. 0 |-> first]
    <3>1. g = [k \in 0 .. 0 |-> IF k = 0 THEN first ELSE g[k - 1] \o f[k]] OBVIOUS
    <3>2. Solves(g, first, f, 0) BY <3>1 DEF Solves
    <3> QED BY <2>3, <2>4, <3>2
  <2>5. CASE n # 0
    <3>1. n - 1 \in 0 .. Len(f) /\ n - 1 \notin T
      <4>1. n \in 1 .. Len(f) /\ ~(n <= n - 1) BY <1>1, <2>3, <2>5
      <4>2. n - 1 \notin T BY <2>2, <4>1
      <4> QED BY <1>1, <4>1, <4>2
    <3>2. PICK g : Solves(g, first, f, n - 1) BY <3>1
    <3> DEFINE new == g[n - 1] \o f[n]
               h == [k \in 0 .. n |-> IF k = n THEN new ELSE g[k]]
    <3>3. g = [k \in 0 .. n - 1 |-> IF k = 0 THEN first ELSE g[k - 1] \o f[k]]
       BY <3>2 DEF Solves
    <3> HIDE DEF new
    <3>4. \A k \in 0 .. n - 1 : h[k] = g[k] BY <1>1, <2>3, <2>5
    <3>5. h[n] = g[n - 1] \o f[n]
      <4>1. h[n] = new BY <1>1, <2>3, <2>5
      <4> QED BY <4>1 DEF new
    <3>6. \A k \in 0 .. n : h[k] = IF k = 0 THEN first ELSE h[k - 1] \o f[k]
      <4> TAKE k \in 0 .. n
      <4>1. CASE k = 0
        <5>1. g[0] = first BY <1>1, <2>3, <2>5, <3>3
        <5> QED BY <1>1, <2>3, <2>5, <3>4, <4>1, <5>1
      <4>2. CASE k = n
        <5>1. h[n - 1] = g[n - 1] BY <1>1, <2>3, <2>5, <3>4
        <5> QED BY <2>5, <3>5, <4>2, <5>1
      <4>3. CASE k # 0 /\ k # n
        <5>1. k \in 0 .. n - 1 /\ k - 1 \in 0 .. n - 1 BY <1>1, <2>3, <4>3
        <5>2. g[k] = g[k - 1] \o f[k] BY <3>3, <4>3, <5>1
        <5> QED BY <3>4, <4>3, <5>1, <5>2
      <4> QED BY <4>1, <4>2, <4>3
    <3>7. h = [k \in 0 .. n |-> h[k]] OBVIOUS
    <3>8. Solves(h, first, f, n)
      <4> HIDE DEF h
      <4> QED BY <3>6, <3>7 DEF Solves
    <3> QED BY <2>3, <3>8
  <2> QED BY <2>4, <2>5
<1>3. \E g : Solves(g, first, f, Len(f))
  <2>1. Len(f) \in 0 .. Len(f) BY <1>1
  <2>2. Len(f) \notin T BY <1>2
  <2> QED BY <2>1, <2>2
<1>4. Joined(first, f) =
          CHOOSE g : g = [k \in 0 .. Len(f) |-> IF k = 0 THEN first ELSE g[k - 1] \o f[k]]
   BY DEF Joined
<1> QED BY <1>3, <1>4 DEF Solves

\* What is joined are sequences, each of which follows on the one before.
LEMMA JoinedNext ==
    ASSUME NEW X, NEW first \in Seq(X), NEW f \in Seq(Seq(X)), NEW k \in 1 .. Len(f)
    PROVE  Joined(first, f)[k] = Joined(first, f)[k - 1] \o f[k]
<1> DEFINE J == Joined(first, f)
<1>1. Solves(J, first, f, Len(f)) BY JoinedSolves
<1>2. k \in 0 .. Len(f) /\ k # 0 OBVIOUS
<1> HIDE DEF J
<1>3. J[k] = J[k - 1] \o f[k] BY <1>1, <1>2 DEF Solves
<1> QED BY <1>3 DEF J

\* Nothing joined is the first sequence.
LEMMA JoinedFirst ==
    ASSUME NEW X, NEW first \in Seq(X), NEW f \in Seq(Seq(X))
    PROVE  Joined(first, f)[0] = first
<1> DEFINE J == Joined(first, f)
<1>1. Solves(J, first, f, Len(f)) BY JoinedSolves
<1>2. 0 \in 0 .. Len(f) OBVIOUS
<1> HIDE DEF J
<1>3. J[0] = first BY <1>1, <1>2 DEF Solves
<1> QED BY <1>3 DEF J

\* What has been joined is a sequence of the same elements.
LEMMA JoinedIs ==
    ASSUME NEW X, NEW first \in Seq(X), NEW f \in Seq(Seq(X)), NEW at \in 0 .. Len(f)
    PROVE  Joined(first, f)[at] \in Seq(X)
<1> DEFINE J == Joined(first, f)
           U == {k \in 0 .. Len(f) : J[k] \notin Seq(X)}
<1>1. Len(f) \in Nat /\ \A k \in 1 .. Len(f) : f[k] \in Seq(X) OBVIOUS
<1>2. J[0] = first BY JoinedFirst
<1>3. \A k \in 1 .. Len(f) : J[k] = J[k - 1] \o f[k] BY JoinedNext
<1> HIDE DEF J
<1>4. U = {}
  <2> SUFFICES ASSUME U # {} PROVE FALSE
    OBVIOUS
  <2>1. U \in SUBSET Nat BY <1>1
  <2>2. PICK n \in U : \A k \in U : n <= k
    <3> HIDE DEF U
    <3> QED BY <2>1, Least
  <2>3. n # 0 BY <1>2
  <2>4. n - 1 \in 0 .. Len(f) /\ n \in 1 .. Len(f) /\ ~(n <= n - 1) BY <1>1, <2>2, <2>3
  <2>5. J[n - 1] \in Seq(X) BY <2>2, <2>4
  <2>6. f[n] \in Seq(X) /\ J[n] = J[n - 1] \o f[n] BY <1>1, <1>3, <2>4
  <2>7. J[n] \in Seq(X) BY <2>5, <2>6
  <2> QED BY <2>2, <2>7
<1> QED BY <1>4 DEF J

\* Behind its first a elements, s is t.
SaysAt(s, a, t) == \A x \in 1 .. Len(t) : s[a + x] = t[x]

\* What has been joined stays in front.
LEMMA JoinedGrows ==
    ASSUME NEW X, NEW first \in Seq(X), NEW f \in Seq(Seq(X)),
           NEW k \in 0 .. Len(f), NEW i \in 0 .. k
    PROVE  /\ Len(Joined(first, f)[i]) <= Len(Joined(first, f)[k])
           /\ SaysAt(Joined(first, f)[k], 0, Joined(first, f)[i])
<1> DEFINE J == Joined(first, f)
           Front(n) == /\ Len(J[i]) <= Len(J[n])
                       /\ \A x \in 1 .. Len(J[i]) : J[n][x] = J[i][x]
           T == {n \in 0 .. Len(f) : i <= n /\ ~Front(n)}
<1>0. /\ \A n \in 0 .. Len(f) : J[n] \in Seq(X)
      /\ \A n \in 1 .. Len(f) : J[n] = J[n - 1] \o f[n]
  <2>1. \A n \in 0 .. Len(f) : J[n] \in Seq(X) BY JoinedIs
  <2>2. \A n \in 1 .. Len(f) : J[n] = J[n - 1] \o f[n] BY JoinedNext
  <2> QED BY <2>1, <2>2
<1> HIDE DEF J
<1>1. /\ Len(f) \in Nat /\ i \in Nat /\ k \in Nat
      /\ \A n \in 0 .. Len(f) : J[n] \in Seq(X) /\ Len(J[n]) \in Nat
      /\ \A n \in 1 .. Len(f) : f[n] \in Seq(X)
  BY <1>0
<1>2. T = {}
  <2> SUFFICES ASSUME T # {} PROVE FALSE
    OBVIOUS
  <2>1. T \in SUBSET Nat BY <1>1
  <2>2. PICK n \in T : \A m \in T : n <= m
    <3> HIDE DEF T
    <3> QED BY <2>1, Least
  <2>3. n \in 0 .. Len(f) /\ i <= n /\ ~Front(n) BY <2>2
  <2>4. n # i
    <3>1. i \in 0 .. Len(f) BY <1>1
    <3>2. Front(i) BY <1>1, <3>1
    <3> QED BY <2>3, <3>2
  <2>5. n - 1 \in 0 .. Len(f) /\ i <= n - 1 /\ n \in 1 .. Len(f) /\ ~(n <= n - 1)
     BY <1>1, <2>3, <2>4
  <2>6. Front(n - 1) BY <2>2, <2>5
  <2> HIDE DEF T
  <2>7. /\ J[n - 1] \in Seq(X) /\ f[n] \in Seq(X) /\ Len(J[i]) \in Nat
        /\ J[n] = J[n - 1] \o f[n]
    <3>1. J[n] = J[n - 1] \o f[n] BY <1>0, <2>5
    <3>2. i \in 0 .. Len(f) BY <1>1
    <3> QED BY <1>1, <2>5, <3>1, <3>2
  <2>8. /\ Len(J[n]) = Len(J[n - 1]) + Len(f[n]) /\ Len(J[n - 1]) \in Nat /\ Len(f[n]) \in Nat
        /\ \A x \in 1 .. Len(J[n - 1]) : J[n][x] = J[n - 1][x]
    <3> DEFINE a == J[n - 1]
               z == f[n]
               m == J[n]
    <3>1. a \in Seq(X) /\ z \in Seq(X) /\ m = a \o z BY <2>7
    <3> HIDE DEF a, z, m
    <3>2. /\ Len(m) = Len(a) + Len(z) /\ Len(a) \in Nat /\ Len(z) \in Nat
          /\ \A x \in 1 .. Len(a) : m[x] = a[x]
       BY <3>1
    <3> QED BY <3>2 DEF a, z, m
  <2>9. Front(n)
    <3> DEFINE a == Len(J[i])
               z == Len(J[n - 1])
               d == Len(f[n])
               m == Len(J[n])
    <3>0. a \in Nat /\ z \in Nat /\ d \in Nat /\ a <= z /\ m = z + d
       BY <2>6, <2>7, <2>8
    <3>1. a <= m
      <4> HIDE DEF a, z, d, m
      <4> QED BY <3>0
    <3>2. ASSUME NEW x \in 1 .. Len(J[i]) PROVE J[n][x] = J[i][x]
      <4>1. x \in 1 .. Len(J[n - 1]) BY <2>6, <2>7, <2>8
      <4> QED BY <2>6, <2>8, <4>1
    <3> QED BY <3>1, <3>2
  <2> QED BY <2>3, <2>9
<1>3. Front(k) BY <1>1, <1>2, SMTT(30)
<1>4. SaysAt(J[k], 0, J[i])
  <2> DEFINE a == J[k]
             z == J[i]
  <2>1. \A x \in 1 .. Len(z) : a[x] = z[x] BY <1>3
  <2> HIDE DEF a, z
  <2>2. \A x \in 1 .. Len(z) : a[0 + x] = z[x] BY <2>1
  <2> QED BY <2>2, Zenon DEF SaysAt, a, z
<1>5. Len(J[i]) <= Len(J[k]) BY <1>3
<1> QED BY <1>4, <1>5, Zenon DEF J

---------------------------------------------------------------------------
(* The characters of an answer *)

\* The digits are characters of their own, and what they stand for is one number.
LEMMA Digits ==
    /\ \A n \in 0 .. 9 :
          /\ Digit[n + 1] \in Chars /\ IsDigit(Digit[n + 1]) /\ Value(Digit[n + 1]) = n
    /\ {" ", "+", "nul", "?", "0", "5"} \subseteq Chars
    /\ ~IsDigit(" ") /\ ~IsDigit("nul") /\ ~IsDigit("+") /\ ~IsDigit("?")
    /\ IsDigit("0") /\ Value("0") = 0 /\ IsDigit("5") /\ Value("5") = 5
<1>1. /\ Digit[1] = "0" /\ Digit[2] = "1" /\ Digit[3] = "2" /\ Digit[4] = "3"
      /\ Digit[5] = "4" /\ Digit[6] = "5" /\ Digit[7] = "6" /\ Digit[8] = "7"
      /\ Digit[9] = "8" /\ Digit[10] = "9"
   BY DEF Digit
<1>2. ASSUME NEW n \in 0 .. 9, NEW m \in 0 .. 9, Digit[n + 1] = Digit[m + 1] PROVE n = m
  <2>1. n \in {0, 1, 2, 3, 4, 5, 6, 7, 8, 9} /\ m \in {0, 1, 2, 3, 4, 5, 6, 7, 8, 9} OBVIOUS
  <2> QED BY <1>1, <1>2, <2>1
<1>3. ASSUME NEW n \in 0 .. 9
      PROVE  /\ Digit[n + 1] \in Chars /\ IsDigit(Digit[n + 1])
             /\ Value(Digit[n + 1]) = n
  <2>1. n + 1 \in 1 .. 10 OBVIOUS
  <2>2. Digit[n + 1] \in {Digit[i] : i \in 1 .. 10} BY <2>1
  <2>3. Value(Digit[n + 1]) \in 0 .. 9 /\ Digit[Value(Digit[n + 1]) + 1] = Digit[n + 1]
     BY DEF Value
  <2>4. Value(Digit[n + 1]) = n BY <1>2, <2>3
  <2>5. IsDigit(Digit[n + 1]) BY DEF IsDigit
  <2> QED BY <2>2, <2>4, <2>5 DEF Chars
<1>4. /\ ~IsDigit(" ") /\ ~IsDigit("nul") /\ ~IsDigit("+") /\ ~IsDigit("?")
  <2>1. ASSUME NEW n \in 0 .. 9
        PROVE  Digit[n + 1] \in {"0", "1", "2", "3", "4", "5", "6", "7", "8", "9"}
    <3>1. n \in {0, 1, 2, 3, 4, 5, 6, 7, 8, 9} OBVIOUS
    <3> QED BY <1>1, <3>1
  <2>2. /\ " " \notin {"0", "1", "2", "3", "4", "5", "6", "7", "8", "9"}
        /\ "nul" \notin {"0", "1", "2", "3", "4", "5", "6", "7", "8", "9"}
        /\ "+" \notin {"0", "1", "2", "3", "4", "5", "6", "7", "8", "9"}
        /\ "?" \notin {"0", "1", "2", "3", "4", "5", "6", "7", "8", "9"}
     OBVIOUS
  <2> QED BY <2>1, <2>2, Zenon DEF IsDigit
<1>5. "0" = Digit[0 + 1] /\ "5" = Digit[5 + 1] BY <1>1
<1>6. /\ "0" \in Chars /\ IsDigit("0") /\ Value("0") = 0
      /\ "5" \in Chars /\ IsDigit("5") /\ Value("5") = 5
  <2>1. 0 \in 0 .. 9 /\ 5 \in 0 .. 9 OBVIOUS
  <2>2. Digit[0 + 1] \in Chars /\ IsDigit(Digit[0 + 1]) /\ Value(Digit[0 + 1]) = 0
     BY <1>3, <2>1
  <2>3. Digit[5 + 1] \in Chars /\ IsDigit(Digit[5 + 1]) /\ Value(Digit[5 + 1]) = 5
     BY <1>3, <2>1
  <2> QED BY <1>5, <2>2, <2>3
<1>7. {" ", "+", "nul", "?"} \subseteq Chars BY DEF Chars
<1> QED BY <1>3, <1>4, <1>6, <1>7

\* The rows of an answer are framed.
LEMMA RowsFramed ==
    ASSUME NEW q \in Queries, NEW i \in 1 .. Len(Answer[q])
    PROVE  Framed(Answer[q][i])
<1>1. Answer[q] \in Seq(Rows) BY SessionAssumption DEF SessionAssumption
<1>2. i \in DOMAIN Answer[q] /\ Answer[q][i] \in Rows BY <1>1
<1> QED BY <1>2, SessionAssumption DEF SessionAssumption, Framed

\* The text of a column is a sequence of characters.
LEMMA TextIs ==
    ASSUME NEW row, Framed(row), NEW k \in 1 .. Len(row)
    PROVE  /\ Text(row[k]) \in Seq(Chars)
           /\ Len(Text(row[k])) \in 0 .. 9 /\ k \in DOMAIN row
<1>1. row \in Seq(Seq(Chars) \cup {NULL}) BY DEF Framed, Rows
<1>2. k \in DOMAIN row /\ row[k] \in Seq(Chars) \cup {NULL} BY <1>1
<1>3. Text(row[k]) \in Seq(Chars) BY <1>2 DEF Text
<1> QED BY <1>2, <1>3 DEF Framed

\* A sequence of two.
LEMMA PairIs ==
    ASSUME NEW X, NEW a \in X, NEW b \in X
    PROVE  <<a, b>> \in Seq(X) /\ Len(<<a, b>>) = 2 /\ <<a, b>>[1] = a /\ <<a, b>>[2] = b
OBVIOUS

\* A sequence of one.
LEMMA OneIs ==
    ASSUME NEW X, NEW a \in X
    PROVE  <<a>> \in Seq(X) /\ Len(<<a>>) = 1 /\ <<a>>[1] = a
OBVIOUS

\* One sequence behind another.
LEMMA BehindIs ==
    ASSUME NEW X, NEW s \in Seq(X), NEW t \in Seq(X)
    PROVE  /\ s \o t \in Seq(X) /\ Len(s \o t) = Len(s) + Len(t)
           /\ \A x \in 1 .. Len(s) : (s \o t)[x] = s[x]
           /\ \A x \in 1 .. Len(t) : (s \o t)[Len(s) + x] = t[x]
OBVIOUS

\* The same, for a first sequence of n.
LEMMA BehindLen ==
    ASSUME NEW X, NEW s \in Seq(X), NEW t \in Seq(X), NEW n, n = Len(s)
    PROVE  /\ s \o t \in Seq(X) /\ Len(s \o t) = n + Len(t)
           /\ \A x \in 1 .. n : (s \o t)[x] = s[x]
           /\ \A x \in 1 .. Len(t) : (s \o t)[n + x] = t[x]
OBVIOUS

\* A number of one digit.
LEMMA NumberIs ==
    ASSUME NEW n \in 0 .. 9
    PROVE  /\ Number(n) \in Seq(Chars) /\ Len(Number(n)) = 2
           /\ Number(n)[1] = Digit[n + 1] /\ Number(n)[2] = " "
<1>1. Digit[n + 1] \in Chars /\ " " \in Chars BY Digits
<1> DEFINE d == Digit[n + 1]
<1> HIDE DEF d
<1>2. d \in Chars BY <1>1 DEF d
<1>3. /\ <<d, " ">> \in Seq(Chars) /\ Len(<<d, " ">>) = 2
      /\ <<d, " ">>[1] = d /\ <<d, " ">>[2] = " "
   BY <1>1, <1>2, PairIs
<1>4. Number(n) = <<d, " ">> BY DEF Number, d
<1>5. /\ Number(n) \in Seq(Chars) /\ Len(Number(n)) = 2
      /\ Number(n)[1] = d /\ Number(n)[2] = " "
   BY <1>3, <1>4, Zenon
<1> QED BY <1>5 DEF d

\* A column is its width and its text.
LEMMA ColumnIs ==
    ASSUME NEW row, Framed(row), NEW k \in 1 .. Len(row)
    PROVE  /\ Column(row[k]) \in Seq(Chars)
           /\ Len(Column(row[k])) = 2 + Len(Text(row[k]))
           /\ Column(row[k])[1] = Digit[Len(Text(row[k])) + 1]
           /\ Column(row[k])[2] = " "
           /\ \A x \in 1 .. Len(Text(row[k])) : Column(row[k])[2 + x] = Text(row[k])[x]
<1> DEFINE t == Text(row[k])
           w == Number(Len(t))
<1>1. t \in Seq(Chars) /\ Len(t) \in 0 .. 9 BY TextIs
<1>2. w \in Seq(Chars) /\ Len(w) = 2 /\ w[1] = Digit[Len(t) + 1] /\ w[2] = " "
  <2> HIDE DEF t
  <2> QED BY <1>1, NumberIs
<1>3. Column(row[k]) = w \o t BY DEF Column
<1> HIDE DEF t, w
<1> DEFINE v == w \o t
           n == Len(w)
<1>4. /\ v \in Seq(Chars) /\ Len(v) = n + Len(t)
      /\ \A x \in 1 .. n : v[x] = w[x]
      /\ \A x \in 1 .. Len(t) : v[n + x] = t[x]
  <2>1. w \in Seq(Chars) BY <1>2
  <2>2. t \in Seq(Chars) BY <1>1
  <2> QED BY <2>1, <2>2, BehindLen
<1>5. n = 2 BY <1>2
<1> HIDE DEF v, n
<1>6. /\ v \in Seq(Chars) /\ Len(v) = 2 + Len(t)
      /\ \A x \in 1 .. 2 : v[x] = w[x]
      /\ \A x \in 1 .. Len(t) : v[2 + x] = t[x]
   BY <1>4, <1>5, Zenon
<1>7. v[1] = w[1] /\ v[2] = w[2] BY <1>6
<1> QED BY <1>2, <1>3, <1>6, <1>7 DEF t, v

\* Where the next sequence ends.
LEMMA JoinedLength ==
    ASSUME NEW X, NEW first \in Seq(X), NEW f \in Seq(Seq(X)), NEW k \in 1 .. Len(f)
    PROVE  Len(Joined(first, f)[k]) = Len(Joined(first, f)[k - 1]) + Len(f[k])
<1> DEFINE a == Joined(first, f)[k - 1]
           z == f[k]
           m == Joined(first, f)[k]
<1>1. k - 1 \in 0 .. Len(f) OBVIOUS
<1>2. a \in Seq(X)
  <2> HIDE DEF a
  <2>1. Joined(first, f)[k - 1] \in Seq(X) BY <1>1, JoinedIs
  <2> QED BY <2>1 DEF a
<1>3. m = a \o z BY JoinedNext
<1>4. z \in Seq(X) OBVIOUS
<1> HIDE DEF a, z, m
<1>5. Len(m) = Len(a) + Len(z) BY <1>2, <1>3, <1>4
<1> QED BY <1>5 DEF a, z, m

\* Where a sequence can be found in what has been joined.
LEMMA JoinedPart ==
    ASSUME NEW X, NEW first \in Seq(X), NEW f \in Seq(Seq(X)),
           NEW k \in 1 .. Len(f), NEW n \in k .. Len(f)
    PROVE  SaysAt(Joined(first, f)[n], Len(Joined(first, f)[k - 1]), f[k])
<1> DEFINE a == Joined(first, f)[k - 1]
           z == f[k]
           m == Joined(first, f)[k]
           l == Joined(first, f)[n]
<1>1. k - 1 \in 0 .. Len(f) /\ k \in 0 .. n /\ n \in 0 .. Len(f) OBVIOUS
<1>2. a \in Seq(X)
  <2> HIDE DEF a
  <2>1. Joined(first, f)[k - 1] \in Seq(X) BY <1>1, JoinedIs
  <2> QED BY <2>1 DEF a
<1>3. m = a \o z BY JoinedNext
<1>4. z \in Seq(X) OBVIOUS
<1>5. SaysAt(Joined(first, f)[n], 0, Joined(first, f)[k]) BY <1>1, JoinedGrows
<1>6. SaysAt(l, 0, m) BY <1>5
<1> HIDE DEF a, z, m, l
<1>7. ASSUME NEW x \in 1 .. Len(z) PROVE l[Len(a) + x] = z[x]
  <2>1. Len(a) + x \in 1 .. Len(m) /\ m[Len(a) + x] = z[x] BY <1>2, <1>3, <1>4, SMTT(30)
  <2>2. l[0 + (Len(a) + x)] = m[Len(a) + x] BY <1>6, <2>1 DEF SaysAt
  <2>3. 0 + (Len(a) + x) = Len(a) + x BY <2>1
  <2> QED BY <2>1, <2>2, <2>3
<1>8. SaysAt(l, Len(a), z) BY <1>7 DEF SaysAt
<1> QED BY <1>8 DEF a, z, l

\* A row is joined from its columns.
Columns(row) == [j \in DOMAIN row |-> Column(row[j])]

\* The columns of a row as sequences of characters.
LEMMA ColumnsAre ==
    ASSUME NEW row, Framed(row)
    PROVE  /\ row \in Seq(Seq(Chars) \cup {NULL}) /\ Len(row) \in 1 .. 9
           /\ Columns(row) \in Seq(Seq(Chars)) /\ Len(Columns(row)) = Len(row)
           /\ \A k \in 1 .. Len(row) : Columns(row)[k] = Column(row[k])
           /\ Number(Len(row)) \in Seq(Chars)
           /\ RowChars(row) = Joined(Number(Len(row)), Columns(row))[Len(row)]
           /\ \A k : ColumnAt(row, k) = Len(Joined(Number(Len(row)), Columns(row))[k])
<1>1. row \in Seq(Seq(Chars) \cup {NULL}) /\ Len(row) \in 1 .. 9 BY DEF Framed, Rows
<1>2. DOMAIN row = 1 .. Len(row) BY <1>1
<1>3. \A k \in 1 .. Len(row) : Column(row[k]) \in Seq(Chars) BY ColumnIs
<1>4. Columns(row) \in Seq(Seq(Chars)) /\ Len(Columns(row)) = Len(row)
  <2>1. Columns(row) = [k \in 1 .. Len(row) |-> Column(row[k])] BY <1>2 DEF Columns
  <2> QED BY <1>1, <1>3, <2>1
<1>5. \A k \in 1 .. Len(row) : Columns(row)[k] = Column(row[k]) BY <1>2 DEF Columns
<1>6. Number(Len(row)) \in Seq(Chars)
  <2>1. Len(row) \in 0 .. 9 BY <1>1
  <2> QED BY <2>1, NumberIs
<1>7. RowChars(row) = Joined(Number(Len(row)), Columns(row))[Len(row)]
   BY Zenon DEF RowChars, Columns
<1>8. \A k : ColumnAt(row, k) = Len(Joined(Number(Len(row)), Columns(row))[k])
   BY Zenon DEF ColumnAt, Columns
<1> QED BY <1>1, <1>4, <1>5, <1>6, <1>7, <1>8

\* A row begins with the number of its columns.
LEMMA RowBegins ==
    ASSUME NEW row, Framed(row)
    PROVE  /\ RowChars(row) \in Seq(Chars)
           /\ RowChars(row)[1] = Digit[Len(row) + 1] /\ RowChars(row)[2] = " "
           /\ Len(RowChars(row)) = ColumnAt(row, Len(row))
           /\ ColumnAt(row, 0) = 2
<1> DEFINE w == Number(Len(row))
           f == Columns(row)
           n == Len(row)
<1>1. /\ f \in Seq(Seq(Chars)) /\ Len(f) = n /\ w \in Seq(Chars) /\ n \in 1 .. 9
      /\ RowChars(row) = Joined(w, f)[n] /\ \A k : ColumnAt(row, k) = Len(Joined(w, f)[k])
   BY ColumnsAre, Zenon
<1>2. Len(w) = 2 /\ w[1] = Digit[n + 1] /\ w[2] = " "
  <2>1. Len(row) \in 0 .. 9 BY DEF Framed
  <2> QED BY <2>1, NumberIs
<1> HIDE DEF w, f, n
<1>3. n \in 0 .. Len(f) /\ 0 \in 0 .. n BY <1>1
<1>4. Joined(w, f)[n] \in Seq(Chars) BY <1>1, <1>3, JoinedIs
<1>5. Joined(w, f)[0] = w BY <1>1, JoinedFirst
<1>6. SaysAt(Joined(w, f)[n], 0, Joined(w, f)[0])
  <2>1. w \in Seq(Chars) /\ f \in Seq(Seq(Chars)) BY <1>1, Zenon
  <2> QED BY <2>1, <1>3, JoinedGrows, Zenon
<1> DEFINE l == Joined(w, f)[n]
<1>7. SaysAt(l, 0, w) BY <1>5, <1>6, Zenon
<1> HIDE DEF l
<1>8. l[1] = w[1] /\ l[2] = w[2]
  <2>1. 1 \in 1 .. Len(w) /\ 2 \in 1 .. Len(w)
    <3>1. 1 \in 1 .. 2 /\ 2 \in 1 .. 2 OBVIOUS
    <3> QED BY <1>2, <3>1, Zenon
  <2>2. l[0 + 1] = w[1] /\ l[0 + 2] = w[2] BY <1>7, <2>1, Zenon DEF SaysAt
  <2> QED BY <2>2
<1>9. RowChars(row) \in Seq(Chars) /\ RowChars(row)[1] = w[1] /\ RowChars(row)[2] = w[2]
   BY <1>1, <1>4, <1>8, Zenon DEF l
<1>10. Len(RowChars(row)) = ColumnAt(row, n) /\ ColumnAt(row, 0) = 2
   BY <1>1, <1>2, <1>5, Zenon
<1> QED BY <1>2, <1>9, <1>10, Zenon DEF n

\* Each column follows on the ones before it.
LEMMA RowGoesOn ==
    ASSUME NEW row, Framed(row), NEW k \in 1 .. Len(row)
    PROVE  /\ ColumnAt(row, k - 1) \in Nat /\ Len(RowChars(row)) \in Nat
           /\ ColumnAt(row, k) = ColumnAt(row, k - 1) + 2 + Len(Text(row[k]))
           /\ ColumnAt(row, k) <= Len(RowChars(row))
<1> DEFINE w == Number(Len(row))
           f == Columns(row)
           n == Len(row)
<1>1. /\ f \in Seq(Seq(Chars)) /\ Len(f) = n /\ w \in Seq(Chars) /\ n \in 1 .. 9
      /\ RowChars(row) = Joined(w, f)[n] /\ \A j : ColumnAt(row, j) = Len(Joined(w, f)[j])
   BY ColumnsAre, Zenon
<1>2. Len(f[k]) = 2 + Len(Text(row[k])) /\ Len(Text(row[k])) \in Nat
  <2>1. f[k] = Column(row[k]) BY ColumnsAre
  <2>2. Len(Column(row[k])) = 2 + Len(Text(row[k])) BY ColumnIs
  <2>3. Len(Text(row[k])) \in 0 .. 9 BY TextIs
  <2> HIDE DEF f
  <2> QED BY <2>1, <2>2, <2>3
<1>3. k \in 1 .. n OBVIOUS
<1> HIDE DEF w, f, n
<1>4. k - 1 \in 0 .. Len(f) /\ k \in 0 .. n /\ n \in 0 .. Len(f) /\ k \in 1 .. Len(f)
   BY <1>1, <1>3
<1>5. Joined(w, f)[k - 1] \in Seq(Chars) BY <1>1, <1>4, JoinedIs
<1>6. Joined(w, f)[n] \in Seq(Chars) BY <1>1, <1>4, JoinedIs
<1>7. Len(Joined(w, f)[k]) = Len(Joined(w, f)[k - 1]) + Len(f[k]) 
  <2>1. w \in Seq(Chars) /\ f \in Seq(Seq(Chars)) /\ k \in 1 .. Len(f) BY <1>1, <1>4, Zenon
  <2> QED BY <2>1, JoinedLength, Zenon
<1>8. Len(Joined(w, f)[k]) <= Len(Joined(w, f)[n]) BY <1>1, <1>4, JoinedGrows, Zenon
<1> DEFINE a == ColumnAt(row, k - 1)
           z == ColumnAt(row, k)
           l == Len(RowChars(row))
           t == Len(Text(row[k]))
<1>9. /\ a = Len(Joined(w, f)[k - 1]) /\ z = Len(Joined(w, f)[k])
      /\ l = Len(Joined(w, f)[n])
   BY <1>1, Zenon
<1>10. a \in Nat /\ l \in Nat
  <2>1. Len(Joined(w, f)[k - 1]) \in Nat BY <1>5, LenProperties
  <2>2. Len(Joined(w, f)[n]) \in Nat BY <1>6, LenProperties
  <2> QED BY <1>9, <2>1, <2>2, Zenon
<1>11. z = a + Len(f[k]) /\ z <= l BY <1>7, <1>8, <1>9, Zenon
<1> HIDE DEF a, z, l
<1>12. z = a + 2 + t BY <1>2, <1>10, <1>11
<1> QED BY <1>10, <1>11, <1>12, Zenon DEF a, z, l

\* What column k + 1 says, and where.
LEMMA RowSays ==
    ASSUME NEW row, Framed(row), NEW k \in 1 .. Len(row)
    PROVE  /\ RowChars(row)[ColumnAt(row, k - 1) + 1] = Digit[Len(Text(row[k])) + 1]
           /\ RowChars(row)[ColumnAt(row, k - 1) + 2] = " "
           /\ SaysAt(RowChars(row), ColumnAt(row, k - 1) + 2, Text(row[k]))
<1> DEFINE w == Number(Len(row))
           f == Columns(row)
           n == Len(row)
           a == ColumnAt(row, k - 1)
           l == RowChars(row)
           t == Text(row[k])
           v == f[k]
<1>1. /\ f \in Seq(Seq(Chars)) /\ Len(f) = n /\ w \in Seq(Chars) /\ n \in 1 .. 9
      /\ l = Joined(w, f)[n] /\ a = Len(Joined(w, f)[k - 1])
   BY ColumnsAre, Zenon
<1>2. k \in 1 .. Len(f) /\ n \in k .. Len(f)
  <2>1. k \in 1 .. n OBVIOUS
  <2> HIDE DEF n, f
  <2> QED BY <1>1, <2>1
<1>3. v = Column(row[k]) BY ColumnsAre
<1>4. /\ v[1] = Digit[Len(t) + 1] /\ v[2] = " " /\ Len(v) = 2 + Len(t)
      /\ \A x \in 1 .. Len(t) : v[2 + x] = t[x]
  <2> HIDE DEF v
  <2>1. /\ Column(row[k])[1] = Digit[Len(Text(row[k])) + 1] /\ Column(row[k])[2] = " "
        /\ Len(Column(row[k])) = 2 + Len(Text(row[k]))
        /\ \A x \in 1 .. Len(Text(row[k])) : Column(row[k])[2 + x] = Text(row[k])[x]
     BY ColumnIs, ZenonT(60)
  <2> QED BY <1>3, <2>1, Zenon
<1>5. Len(t) \in Nat /\ a \in Nat
  <2>1. Len(Text(row[k])) \in 0 .. 9 BY TextIs
  <2>2. ColumnAt(row, k - 1) \in Nat BY RowGoesOn
  <2> QED BY <2>1, <2>2
<1> HIDE DEF w, f, n, a, l, t
<1>6. SaysAt(l, a, v)
  <2>1. w \in Seq(Chars) /\ f \in Seq(Seq(Chars)) BY <1>1, Zenon
  <2>2. SaysAt(Joined(w, f)[n], Len(Joined(w, f)[k - 1]), f[k])
     BY <2>1, <1>2, JoinedPart, Zenon
  <2> QED BY <1>1, <2>2, Zenon
<1> HIDE DEF v
<1> DEFINE c == Len(v)
           y == Len(t)
<1>7. c = 2 + y /\ y \in Nat BY <1>4, <1>5, Zenon
<1>8. \A x \in 1 .. c : l[a + x] = v[x] BY <1>6 DEF SaysAt
<1> HIDE DEF c, y
<1>9. l[a + 1] = v[1] /\ l[a + 2] = v[2]
  <2>1. 1 \in 1 .. c /\ 2 \in 1 .. c BY <1>7
  <2> QED BY <1>8, <2>1, Zenon
<1>10. ASSUME NEW x \in 1 .. y PROVE l[a + 2 + x] = t[x]
  <2>1. 2 + x \in 1 .. c /\ a + (2 + x) = a + 2 + x BY <1>5, <1>7
  <2>2. l[a + (2 + x)] = v[2 + x] BY <1>8, <2>1
  <2>3. v[2 + x] = t[x] BY <1>4 DEF y
  <2> QED BY <2>1, <2>2, <2>3, Zenon
<1>11. SaysAt(l, a + 2, t) BY <1>10, Zenon DEF y, SaysAt
<1> QED BY <1>4, <1>9, <1>11, Zenon DEF a, l, t

\* An answer is joined from its rows.
Rowwise(q) == [i \in DOMAIN Answer[q] |-> RowChars(Answer[q][i])]

\* The rows of an answer as sequences of characters.
LEMMA RowsAre ==
    ASSUME NEW q \in Queries
    PROVE  /\ Answer[q] \in Seq(Rows) /\ <<>> \in Seq(Chars)
           /\ Rowwise(q) \in Seq(Seq(Chars)) /\ Len(Rowwise(q)) = Len(Answer[q])
           /\ \A i \in 1 .. Len(Answer[q]) : Rowwise(q)[i] = RowChars(Answer[q][i])
           /\ Told(q) = Joined(<<>>, Rowwise(q))
<1>1. Answer[q] \in Seq(Rows) BY SessionAssumption DEF SessionAssumption
<1>2. DOMAIN Answer[q] = 1 .. Len(Answer[q]) BY <1>1
<1>3. \A i \in 1 .. Len(Answer[q]) : RowChars(Answer[q][i]) \in Seq(Chars)
  <2> TAKE i \in 1 .. Len(Answer[q])
  <2>1. Framed(Answer[q][i]) BY RowsFramed
  <2> QED BY <2>1, RowBegins
<1>4. Rowwise(q) \in Seq(Seq(Chars)) /\ Len(Rowwise(q)) = Len(Answer[q])
  <2>1. Rowwise(q) = [i \in 1 .. Len(Answer[q]) |-> RowChars(Answer[q][i])]
     BY <1>2 DEF Rowwise
  <2> QED BY <1>1, <1>3, <2>1
<1>5. \A i \in 1 .. Len(Answer[q]) : Rowwise(q)[i] = RowChars(Answer[q][i])
   BY <1>2 DEF Rowwise
<1>6. Told(q) = Joined(<<>>, Rowwise(q)) BY Zenon DEF Told, Rowwise
<1>7. <<>> \in Seq(Chars) OBVIOUS
<1> QED BY <1>1, <1>4, <1>5, <1>6, <1>7

\* Where the rows of an answer are.
LEMMA AnswerBegins ==
    ASSUME NEW q \in Queries
    PROVE  RowAt(q, 0) = 0
<1>1. Joined(<<>>, Rowwise(q))[0] = <<>> BY RowsAre, JoinedFirst
<1>2. Told(q) = Joined(<<>>, Rowwise(q)) BY RowsAre
<1>3. Told(q)[0] = <<>> BY <1>1, <1>2, Zenon
<1> QED BY <1>3 DEF RowAt

\* Every row begins within the answer.
LEMMA RowAtIs ==
    ASSUME NEW q \in Queries, NEW i \in 0 .. Len(Answer[q])
    PROVE  RowAt(q, i) \in Nat /\ RowAt(q, i) <= RowAt(q, Len(Answer[q]))
<1> DEFINE f == Rowwise(q)
           n == Len(Answer[q])
<1>1. /\ f \in Seq(Seq(Chars)) /\ Len(f) = n /\ <<>> \in Seq(Chars)
      /\ Told(q) = Joined(<<>>, f) /\ n \in Nat
  <2>1. n \in Nat BY RowsAre, LenProperties
  <2> QED BY <2>1, RowsAre, Zenon
<1>2. i \in 0 .. n OBVIOUS
<1> HIDE DEF f, n
<1>3. i \in 0 .. Len(f) /\ n \in 0 .. Len(f) BY <1>1, <1>2
<1>4. Joined(<<>>, f)[i] \in Seq(Chars) BY <1>1, <1>3, JoinedIs
<1>5. Len(Joined(<<>>, f)[i]) <= Len(Joined(<<>>, f)[n]) BY <1>1, <1>2, <1>3, JoinedGrows
<1>6. Len(Joined(<<>>, f)[i]) \in Nat BY <1>4, LenProperties
<1> QED BY <1>1, <1>5, <1>6, Zenon DEF RowAt, n

\* A row begins where the one before it ends.
LEMMA AnswerGoesOn ==
    ASSUME NEW q \in Queries, NEW i \in 1 .. Len(Answer[q])
    PROVE  RowAt(q, i) = RowAt(q, i - 1) + Len(RowChars(Answer[q][i]))
<1> DEFINE f == Rowwise(q)
<1>1. /\ f \in Seq(Seq(Chars)) /\ Len(f) = Len(Answer[q]) /\ <<>> \in Seq(Chars)
      /\ Told(q) = Joined(<<>>, f) /\ f[i] = RowChars(Answer[q][i])
   BY RowsAre, Zenon
<1> HIDE DEF f
<1>2. i \in 1 .. Len(f) BY <1>1
<1>3. Len(Joined(<<>>, f)[i]) = Len(Joined(<<>>, f)[i - 1]) + Len(f[i])
   BY <1>1, <1>2, JoinedLength
<1> QED BY <1>1, <1>3, Zenon DEF RowAt

\* What the answer says: its rows, and its end.
LEMMA WholeIs ==
    ASSUME NEW q \in Queries
    PROVE  /\ Whole(q) \in Seq(Chars)
           /\ Len(Whole(q)) = RowAt(q, Len(Answer[q])) + 2
           /\ \A x \in 1 .. RowAt(q, Len(Answer[q])) : Whole(q)[x] = Told(q)[Len(Answer[q])][x]
           /\ Whole(q)[RowAt(q, Len(Answer[q])) + 1] = "0"
           /\ Whole(q)[RowAt(q, Len(Answer[q])) + 2] = "nul"
<1> DEFINE f == Rowwise(q)
           n == Len(Answer[q])
           s == Told(q)[n]
<1>1. /\ f \in Seq(Seq(Chars)) /\ Len(f) = n /\ <<>> \in Seq(Chars)
      /\ Told(q) = Joined(<<>>, f) /\ n \in Nat
  <2>1. n \in Nat BY RowsAre, LenProperties
  <2> QED BY <2>1, RowsAre, Zenon
<1> HIDE DEF f
<1>2. n \in 0 .. Len(f) BY <1>1
<1>3. s \in Seq(Chars)
  <2>1. Joined(<<>>, f)[n] \in Seq(Chars) BY <1>1, <1>2, JoinedIs
  <2> QED BY <1>1, <2>1, Zenon
<1>4. /\ TheEnd \in Seq(Chars) /\ Len(TheEnd) = 2
      /\ TheEnd[1] = "0" /\ TheEnd[2] = "nul"
  <2>1. "0" \in Chars /\ "nul" \in Chars BY Digits
  <2>2. /\ <<"0", "nul">> \in Seq(Chars) /\ Len(<<"0", "nul">>) = 2
        /\ <<"0", "nul">>[1] = "0" /\ <<"0", "nul">>[2] = "nul"
     BY <2>1, PairIs
  <2> QED BY <2>2, Zenon DEF TheEnd
<1>5. Whole(q) = s \o TheEnd BY DEF Whole
<1>6. Len(s) = RowAt(q, n) BY DEF RowAt
<1> HIDE DEF s
<1> DEFINE v == s \o TheEnd
           l == Len(s)
<1>7. /\ v \in Seq(Chars) /\ Len(v) = l + Len(TheEnd)
      /\ \A x \in 1 .. l : v[x] = s[x]
      /\ \A x \in 1 .. Len(TheEnd) : v[l + x] = TheEnd[x]
  <2>1. TheEnd \in Seq(Chars) BY <1>4
  <2> QED BY <1>3, <2>1, BehindLen
<1> HIDE DEF v, l
<1>8. 1 \in 1 .. Len(TheEnd) /\ 2 \in 1 .. Len(TheEnd) BY <1>4
<1>9. v[l + 1] = "0" /\ v[l + 2] = "nul" BY <1>4, <1>7, <1>8, Zenon
<1>10. Len(v) = l + 2 BY <1>4, <1>7, Zenon
<1>11. Whole(q) = v /\ l = RowAt(q, n) BY <1>5, <1>6 DEF v, l
<1> QED BY <1>7, <1>9, <1>10, <1>11, Zenon DEF s, n

\* Where a row begins, the answer has the characters of that row.
LEMMA WholeSays ==
    ASSUME NEW q \in Queries, NEW i \in 1 .. Len(Answer[q])
    PROVE  SaysAt(Whole(q), RowAt(q, i - 1), RowChars(Answer[q][i]))
<1> DEFINE f == Rowwise(q)
           n == Len(Answer[q])
           a == RowAt(q, i - 1)
           t == RowAt(q, n)
           row == RowChars(Answer[q][i])
           c == Len(row)
<1>1. /\ f \in Seq(Seq(Chars)) /\ Len(f) = n /\ <<>> \in Seq(Chars)
      /\ Told(q) = Joined(<<>>, f) /\ n \in Nat
      /\ f[i] = RowChars(Answer[q][i])
  <2>1. n \in Nat BY RowsAre, LenProperties
  <2> QED BY <2>1, RowsAre, Zenon
<1>2. i \in 1 .. n /\ i \in 0 .. n /\ i - 1 \in 0 .. n BY <1>1
<1> HIDE DEF f, n
<1>3. i \in 1 .. Len(f) /\ n \in i .. Len(f) BY <1>1, <1>2
<1>4. SaysAt(Told(q)[n], a, row)
  <2>1. f \in Seq(Seq(Chars)) /\ <<>> \in Seq(Chars) BY <1>1, Zenon
  <2>2. SaysAt(Joined(<<>>, f)[n], Len(Joined(<<>>, f)[i - 1]), f[i])
     BY <1>3, <2>1, JoinedPart, Zenon
  <2> QED BY <1>1, <2>2, Zenon DEF RowAt
<1>5. RowAt(q, i) = a + c BY AnswerGoesOn
<1>6. RowAt(q, i) <= t /\ t \in Nat
  <2>1. n \in 0 .. n BY <1>1
  <2> QED BY <1>2, <2>1, RowAtIs DEF n
<1>7. a \in Nat BY <1>2, RowAtIs DEF n
<1>8. c \in Nat
  <2>1. Framed(Answer[q][i]) BY RowsFramed
  <2>2. RowChars(Answer[q][i]) \in Seq(Chars) BY <2>1, RowBegins
  <2> QED BY <2>2, LenProperties
<1>9. \A y \in 1 .. t : Whole(q)[y] = Told(q)[n][y] BY WholeIs, Zenon DEF t, n
<1>10. \A x \in 1 .. c : Told(q)[n][a + x] = row[x] BY <1>4 DEF SaysAt
<1> HIDE DEF a, t, row, c
<1>11. ASSUME NEW x \in 1 .. c PROVE Whole(q)[a + x] = row[x]
  <2>1. a + x \in 1 .. t BY <1>5, <1>6, <1>7, <1>8
  <2>2. Whole(q)[a + x] = Told(q)[n][a + x] BY <1>9, <2>1, Zenon
  <2> QED BY <1>10, <2>2, Zenon
<1>12. SaysAt(Whole(q), a, row) BY <1>11 DEF SaysAt, c
<1> QED BY <1>12, Zenon DEF a, row

---------------------------------------------------------------------------
(* The session: every step is well typed *)

\* What a request is sent as.
LEMMA PiecesAre ==
    ASSUME NEW m \in Words
    PROVE  Pieces(m) \in Seq([of : Words, part : 1 .. 2])
<1> DEFINE X == [of : Words, part : 1 .. 2]
           a == [of |-> m, part |-> 1]
           z == [of |-> m, part |-> 2]
<1>1. a \in X /\ z \in X OBVIOUS
<1>2. <<>> \in Seq(X) OBVIOUS
<1> HIDE DEF X
<1>3. <<a, z>> \in Seq(X)
  <2> HIDE DEF a, z
  <2> QED BY <1>1, PairIs
<1>4. Pieces(m) = <<>> \/ Pieces(m) = <<a, z>> BY DEF Pieces
<1> QED BY <1>2, <1>3, <1>4, Zenon DEF X

\* What becomes of a child that exits.
LEMMA ExitedIs ==
    ASSUME NEW s \in Children
    PROVE  /\ Exited(s) \in Children
           /\ Exited(s).pc = (IF s.toServer = <<>> THEN "exited" ELSE "aborted")
           /\ Exited(s).toServer = <<>> /\ Exited(s).toClient = s.toClient
           /\ Exited(s).open = s.open /\ Exited(s).ok = s.ok
           /\ Exited(s).doomed = FALSE /\ Exited(s).rst = FALSE
<1> DEFINE pc == IF s.toServer = <<>> THEN "exited" ELSE "aborted"
<1>1. Exited(s) = [pc |-> pc, toServer |-> <<>>, toClient |-> s.toClient, open |-> s.open,
                   doomed |-> FALSE, rst |-> FALSE, u |-> NULL, persist |-> FALSE,
                   db |-> FALSE, todo |-> <<>>, ok |-> s.ok]
  <2>1. Exited(s) = [Unused EXCEPT !.pc = pc, !.toClient = s.toClient,
                                   !.open = s.open, !.ok = s.ok]
     BY DEF Exited
  <2> HIDE DEF pc
  <2> QED BY <2>1 DEF Unused
<1>2. pc \in {"exited", "aborted"} OBVIOUS
<1> HIDE DEF pc
<1>3. /\ s.toClient \in Seq(Chars) /\ s.open \in BOOLEAN /\ s.ok \in BOOLEAN
      /\ <<>> \in Seq([of : Words, part : 1 .. 2]) /\ <<>> \in Seq(FramedRows)
      /\ pc \in Serving \cup Over \cup {"unused", "ending"}
   BY <1>2 DEF Children, Over
<1>4. Exited(s) \in Children BY <1>1, <1>3 DEF Children
<1>5. /\ Exited(s).pc = pc
      /\ Exited(s).toServer = <<>> /\ Exited(s).toClient = s.toClient
      /\ Exited(s).open = s.open /\ Exited(s).ok = s.ok
      /\ Exited(s).doomed = FALSE /\ Exited(s).rst = FALSE
   BY <1>1
<1> QED BY <1>4, <1>5 DEF pc

\* What becomes of a child that writes.
LEMMA WrittenIs ==
    ASSUME NEW s \in Children, NEW chars \in Seq(Chars),
           NEW pc \in {"openUrl", "query", "rows", "ending"}
    PROVE  Written(s, chars, pc) \in Children
<1>1. Exited(s) \in Children BY ExitedIs
<1>2. s.toClient \o chars \in Seq(Chars)
  <2>1. s.toClient \in Seq(Chars) BY DEF Children
  <2> HIDE DEF Children
  <2> QED BY <2>1, BehindIs
<1> DEFINE t == s.toClient \o chars
<1> HIDE DEF t
<1>3. t \in Seq(Chars) BY <1>2 DEF t
<1>4. pc \in Serving \cup Over \cup {"unused", "ending"} BY DEF Serving
<1>5. [s EXCEPT !.toClient = t, !.pc = pc] \in Children BY <1>3, <1>4 DEF Children
<1>6. [s EXCEPT !.doomed = TRUE, !.pc = pc] \in Children BY <1>4 DEF Children
<1>7. Written(s, chars, pc) \in {Exited(s), [s EXCEPT !.toClient = t, !.pc = pc],
                                 [s EXCEPT !.doomed = TRUE, !.pc = pc]}
   BY DEF Written, t
<1> QED BY <1>1, <1>5, <1>6, <1>7, Zenon

\* What becomes of a connection on which the client sends a request.
LEMMA SentIs ==
    ASSUME NEW s \in Children, NEW m \in Words
    PROVE  Sent(s, m) \in Children
<1>1. Pieces(m) \in Seq([of : Words, part : 1 .. 2]) BY PiecesAre
<1>2. s.toServer \in Seq([of : Words, part : 1 .. 2]) BY DEF Children
<1> DEFINE t == s.toServer \o Pieces(m)
           X == [of : Words, part : 1 .. 2]
<1>3. t \in Seq(X)
  <2> HIDE DEF X
  <2>1. Pieces(m) \in Seq(X) /\ s.toServer \in Seq(X) BY <1>1, <1>2 DEF X
  <2> QED BY <2>1, BehindIs
<1> HIDE DEF t
<1>4. [s EXCEPT !.toServer = t] \in Children BY <1>3 DEF Children
<1>5. Sent(s, m) \in {s, [s EXCEPT !.toServer = t]} BY DEF Sent, t
<1> QED BY <1>4, <1>5, Zenon

\* What becomes of a connection that the client closes.
LEMMA ClosedIs ==
    ASSUME NEW s \in Children
    PROVE  ClosedByClient(s) \in Children
<1> DEFINE d == s.doomed \/ (s.pc \in Serving /\ s.toClient # <<>>)
<1>1. d \in BOOLEAN BY DEF Children
<1>2. ClosedByClient(s) = [s EXCEPT !.open = FALSE, !.toClient = <<>>, !.doomed = d]
   BY DEF ClosedByClient
<1> HIDE DEF d
<1>3. <<>> \in Seq(Chars) OBVIOUS
<1> QED BY <1>1, <1>2, <1>3 DEF Children

\* Some of the pieces that have arrived.
LEMMA PartIs ==
    ASSUME NEW X, NEW s \in Seq(X), s # <<>>, NEW k \in 1 .. Len(s)
    PROVE  /\ SubSeq(s, 1, k) \in Seq(X) /\ SubSeq(s, 1, k) # <<>>
           /\ SubSeq(s, 1, k)[1] \in X
           /\ SubSeq(s, k + 1, Len(s)) \in Seq(X)
OBVIOUS

\* What read() on the server may return, and leave.
LEMMA RequestsAre ==
    ASSUME NEW s \in Children, NEW r \in Requests(s)
    PROVE  /\ r.m \in Words \cup {EmptyQuery, Garbled}
           /\ r.after \in Children
<1> DEFINE X == [of : Words, part : 1 .. 2]
           p == s.toServer
<1>1. p \in Seq(X) BY DEF Children
<1>2. CASE p = <<>>
  <2>1. r = [m |-> EmptyQuery, after |-> s] BY <1>2 DEF Requests
  <2> QED BY <2>1
<1>3. CASE p # <<>>
  <2>0. Len(p) \in 1 .. Len(p)
    <3> HIDE DEF X, p
    <3>1. Len(p) \in Nat /\ Len(p) # 0 BY <1>1, <1>3, EmptySeq
    <3> QED BY <3>1
  <2>1. PICK k \in 1 .. Len(p) :
           r = [m |-> Understood(SubSeq(p, 1, k)),
                after |-> [s EXCEPT !.toServer = SubSeq(p, k + 1, Len(p))]]
     BY <1>3, <2>0 DEF Requests
  <2> DEFINE a == SubSeq(p, 1, k)
             z == SubSeq(p, k + 1, Len(p))
  <2>2. a \in Seq(X) /\ a # <<>> /\ a[1] \in X /\ z \in Seq(X)
    <3> HIDE DEF X, p
    <3> QED BY <1>1, <1>3, PartIs
  <2>3. r = [m |-> Understood(a), after |-> [s EXCEPT !.toServer = z]] BY <2>1
  <2> HIDE DEF a, z
  <2>4. Understood(a) \in Words \cup {EmptyQuery, Garbled}
    <3>1. a[1].of \in Words BY <2>2
    <3> QED BY <2>2, <3>1 DEF Understood
  <2>5. [s EXCEPT !.toServer = z] \in Children BY <2>2 DEF Children
  <2> QED BY <2>3, <2>4, <2>5
<1> QED BY <1>2, <1>3

\* What a query or sdb_open may come to on the server.
LEMMA OutcomesAre ==
    ASSUME NEW u, NEW q, NEW o \in Outcomes(u, q)
    PROVE  o.rows \in Seq(FramedRows) /\ o.ok \in BOOLEAN
<1>1. <<>> \in Seq(FramedRows) OBVIOUS
<1>2. ASSUME q \in Queries PROVE Answer[q] \in Seq(FramedRows)
  <2>1. Answer[q] \in Seq(Rows) BY <1>2, SessionAssumption DEF SessionAssumption
  <2>2. ASSUME NEW i \in 1 .. Len(Answer[q]) PROVE Answer[q][i] \in FramedRows
    <3>1. Framed(Answer[q][i]) BY <1>2, RowsFramed
    <3> QED BY <3>1 DEF Framed, FramedRows
  <2> QED BY <2>1, <2>2
<1>3. CASE q \in Queries /\ o = [rows |-> Answer[q], ok |-> TRUE] BY <1>2, <1>3
<1>4. CASE \E ok \in BOOLEAN : o = [rows |-> <<>>, ok |-> ok] BY <1>1, <1>4
<1> QED BY <1>3, <1>4 DEF Outcomes

\* One character, read by the client.
LEMMA CharsAre ==
    ASSUME SessionTypes, NEW c \in Conns, NEW r \in CharsRead(c)
    PROVE  r.char \in Chars /\ r.after \in Children /\ r.failed \in BOOLEAN
<1>1. conn[c] \in Children BY DEF SessionTypes
<1>2. conn[c].toClient \in Seq(Chars) BY <1>1 DEF Children
<1>3. CASE conn[c].toClient # <<>>
  <2> DEFINE h == Head(conn[c].toClient)
             t == Tail(conn[c].toClient)
  <2>1. h \in Chars /\ t \in Seq(Chars)
    <3>1. conn[c].toClient # <<>> BY <1>3
    <3> QED BY <1>2, <3>1, HeadTailProperties
  <2>2. r = [char |-> h, failed |-> FALSE, after |-> [conn[c] EXCEPT !.toClient = t]]
     BY <1>3 DEF CharsRead
  <2> HIDE DEF h, t
  <2>3. [conn[c] EXCEPT !.toClient = t] \in Children BY <1>1, <2>1 DEF Children
  <2> QED BY <2>1, <2>2, <2>3
<1>4. CASE conn[c].toClient = <<>>
  <2>1. PICK j \in Junk :
           r = [char |-> j, failed |-> TRUE, after |-> [conn[c] EXCEPT !.pc = "gone"]]
     BY <1>4 DEF CharsRead
  <2>2. Junk \subseteq Chars BY Digits DEF Junk
  <2>3. "gone" \in Serving \cup Over \cup {"unused", "ending"} BY DEF Over
  <2>4. [conn[c] EXCEPT !.pc = "gone"] \in Children BY <1>1, <2>3 DEF Children
  <2> QED BY <2>1, <2>2, <2>4
<1> QED BY <1>3, <1>4

\* Where a client waits for characters.
AtSocket == {"greet", "openGreet", "openAnswer", "openPlus"} \cup Reading

\* The numbers that occur have two digits at most.
LEMMA NumbersAre == 0 \in Numbers /\ \A n \in 0 .. 99 : n \in Numbers
BY DEF Numbers

\* No call is a state of the client.
LEMMA IdleIs == Idle \in Clients
<1>1. <<>> \in Seq(Seq(Seq(Chars))) /\ <<>> \in Seq(Seq(Chars)) /\ <<>> \in Seq(Chars)
  OBVIOUS
<1> QED BY <1>1, NumbersAre DEF Idle, Clients

\* A connection that was never made is a connection.
LEMMA UnusedIs == Unused \in Children
<1>1. /\ <<>> \in Seq([of : Words, part : 1 .. 2]) /\ <<>> \in Seq(Chars)
      /\ <<>> \in Seq(FramedRows)
  OBVIOUS
<1> QED BY <1>1 DEF Unused, Children

\* The steps of the application and the driver.
LEMMA ClientTyped ==
    ASSUME SessionTypes,
           \/ \E q \in Queries : QueryStarts(q) \/ QueryStartsOnSocket(q)
           \/ OpenStarts \/ InDriver \/ Close \/ ApplicationEnds
    PROVE  SessionTypes'
<1>0. /\ cli \in Clients /\ ci \in Conns \cup {0, NULL} /\ conn \in [Conns -> Children]
      /\ cli.pc \in {"connect", "greet"} \cup Reading => cli.q \in Queries
      /\ cli.pc \in AtSocket => cli.sock \in Conns
   BY DEF SessionTypes, AtSocket
<1>w. Url \in Words /\ OpenRequest \in Words /\ Queries \subseteq Words BY DEF Words
<1> DEFINE Goal ==
        /\ cli' \in Clients /\ ci' \in Conns \cup {0, NULL} /\ conn' \in [Conns -> Children]
        /\ cli'.pc \in {"connect", "greet"} \cup Reading => cli'.q \in Queries
        /\ cli'.pc \in AtSocket => cli'.sock \in Conns
<1> SUFFICES Goal
   BY DEF SessionTypes, AtSocket
<1>1. ASSUME NEW q \in Queries, QueryStarts(q) PROVE Goal
  <2>1. cli' = [Idle EXCEPT !.pc = "connect", !.q = q] /\ UNCHANGED <<ci, conn>>
     BY <1>1 DEF QueryStarts
  <2>2. cli' \in Clients /\ cli'.pc = "connect" /\ cli'.q = q
     BY <2>1, IdleIs DEF Clients
  <2> QED BY <1>0, <2>1, <2>2 DEF AtSocket, Reading
<1>2. ASSUME NEW q \in Queries, QueryStartsOnSocket(q) PROVE Goal
  <2>1. /\ cli' = [Idle EXCEPT !.pc = "ncol", !.q = q, !.sock = ci] /\ ci' = ci
        /\ ci \in Conns /\ conn' = [conn EXCEPT ![ci] = Sent(conn[ci], q)]
     BY <1>2 DEF QueryStartsOnSocket
  <2>2. cli' \in Clients /\ cli'.q = q /\ cli'.sock = ci
     BY <2>1, IdleIs DEF Clients
  <2>3. Sent(conn[ci], q) \in Children BY <1>0, <1>w, <2>1, SentIs
  <2>4. conn' \in [Conns -> Children] BY <1>0, <2>1, <2>3
  <2> QED BY <1>0, <2>1, <2>2, <2>4
<1>3. ASSUME OpenStarts PROVE Goal
  <2>1. cli' = [Idle EXCEPT !.pc = "openConnect"] /\ UNCHANGED <<ci, conn>>
     BY <1>3 DEF OpenStarts
  <2>2. cli' \in Clients /\ cli'.pc = "openConnect"
     BY <2>1, IdleIs DEF Clients
  <2> QED BY <1>0, <2>1, <2>2 DEF AtSocket, Reading
<1>4. ASSUME NEW c \in Conns, Connects(c) PROVE Goal
  <2> DEFINE begun == [Unused EXCEPT !.pc = "url", !.open = TRUE]
             first == IF cli.pc = "connect" THEN Url ELSE OpenRequest
  <2>1. /\ cli' = [cli EXCEPT !.sock = c,
                              !.pc = IF cli.pc = "connect" THEN "greet" ELSE "openGreet"]
        /\ ci' = ci /\ conn' = [conn EXCEPT ![c] = Sent(begun, first)]
        /\ cli.pc \in {"connect", "openConnect"}
     BY <1>4 DEF Connects
  <2>2. /\ cli' \in Clients /\ cli'.q = cli.q /\ cli'.sock = c
        /\ cli'.pc = IF cli.pc = "connect" THEN "greet" ELSE "openGreet"
    <3> DEFINE pc == IF cli.pc = "connect" THEN "greet" ELSE "openGreet"
    <3>1. pc \in {"greet", "openGreet"} /\ cli' = [cli EXCEPT !.sock = c, !.pc = pc] BY <2>1
    <3> HIDE DEF pc
    <3>2. cli' \in Clients /\ cli'.q = cli.q /\ cli'.sock = c /\ cli'.pc = pc
       BY <1>0, <3>1 DEF Clients
    <3> QED BY <3>2 DEF pc
  <2>3. first \in Words BY <1>w
  <2>4. begun \in Children BY UnusedIs DEF Children, Serving
  <2> HIDE DEF begun, first
  <2>5. Sent(begun, first) \in Children BY <2>3, <2>4, SentIs
  <2>6. conn' \in [Conns -> Children] BY <1>0, <2>1, <2>5
  <2> QED BY <1>0, <2>1, <2>2, <2>6 DEF Reading
<1>5. ASSUME ConnectFails PROVE Goal
  <2>1. cli' = Idle /\ UNCHANGED <<ci, conn>> BY <1>5 DEF ConnectFails
  <2> QED BY <1>0, <2>1, IdleIs DEF Idle, AtSocket, Reading
<1>6. ASSUME Spins PROVE Goal
  <2>1. cli' = [cli EXCEPT !.pc = "spin"] /\ UNCHANGED <<ci, conn>> BY <1>6 DEF Spins
  <2>2. cli' \in Clients /\ cli'.pc = "spin" BY <1>0, <2>1 DEF Clients
  <2> QED BY <1>0, <2>1, <2>2 DEF AtSocket, Reading
<1>7. ASSUME ReadGreeting PROVE Goal
  <2>1. cli.sock \in Conns /\ cli.q \in Queries BY <1>0, <1>7 DEF ReadGreeting, AtSocket
  <2>2. PICK r \in CharsRead(cli.sock) :
           conn' = [conn EXCEPT ![cli.sock] = Sent(r.after, cli.q)]
     BY <1>7 DEF ReadGreeting
  <2>3. r.after \in Children BY <2>1, CharsAre
  <2>4. Sent(r.after, cli.q) \in Children BY <1>w, <2>1, <2>3, SentIs
  <2>5. conn' \in [Conns -> Children] BY <1>0, <2>1, <2>2, <2>4
  <2>6. cli' = [cli EXCEPT !.pc = "ncol"] /\ ci' = ci BY <1>7 DEF ReadGreeting
  <2>7. cli' \in Clients /\ cli'.sock = cli.sock /\ cli'.q = cli.q BY <1>0, <2>6 DEF Clients
  <2> QED BY <1>0, <2>1, <2>5, <2>6, <2>7
<1>8. ASSUME ReadOpenGreeting PROVE Goal
  <2>1. cli.sock \in Conns BY <1>0, <1>8 DEF ReadOpenGreeting, AtSocket
  <2>2. PICK r \in CharsRead(cli.sock) :
           conn' = [conn EXCEPT ![cli.sock] = Sent(r.after, Url)]
     BY <1>8 DEF ReadOpenGreeting
  <2>3. r.after \in Children BY <2>1, CharsAre
  <2>4. Sent(r.after, Url) \in Children BY <1>w, <2>1, <2>3, SentIs
  <2>5. conn' \in [Conns -> Children] BY <1>0, <2>1, <2>2, <2>4
  <2>6. cli' = [cli EXCEPT !.pc = "openAnswer"] /\ ci' = ci BY <1>8 DEF ReadOpenGreeting
  <2>7. cli' \in Clients /\ cli'.sock = cli.sock /\ cli'.pc = "openAnswer"
     BY <1>0, <2>6 DEF Clients
  <2> QED BY <1>0, <2>1, <2>5, <2>6, <2>7 DEF Reading
<1>9. ASSUME ReadOpenAnswer PROVE Goal
  <2>1. cli.sock \in Conns BY <1>0, <1>9 DEF ReadOpenAnswer, AtSocket
  <2>2. PICK r \in CharsRead(cli.sock) :
          \/ /\ conn' = [conn EXCEPT ![cli.sock] = r.after]
             /\ cli' = [cli EXCEPT !.pc = "openPlus"]
             /\ ci' = ci
          \/ /\ conn' = [conn EXCEPT ![cli.sock] = ClosedByClient(r.after)]
             /\ cli' = Idle
             /\ ci' = 0
     BY <1>9 DEF ReadOpenAnswer
  <2>3. r.after \in Children BY <2>1, CharsAre
  <2>4. ClosedByClient(r.after) \in Children BY <2>3, ClosedIs
  <2>5. conn' \in [Conns -> Children] BY <1>0, <2>1, <2>2, <2>3, <2>4
  <2>6. CASE cli' = Idle /\ ci' = 0
     BY <1>0, <2>5, <2>6, IdleIs DEF Idle, AtSocket, Reading
  <2>7. CASE cli' = [cli EXCEPT !.pc = "openPlus"] /\ ci' = ci
    <3>1. cli' \in Clients /\ cli'.sock = cli.sock /\ cli'.pc = "openPlus"
       BY <1>0, <2>7 DEF Clients
    <3> QED BY <1>0, <2>1, <2>5, <2>7, <3>1 DEF Reading
  <2> QED BY <2>2, <2>6, <2>7
<1>10. ASSUME ReadOpenPlus PROVE Goal
  <2>1. cli.sock \in Conns BY <1>0, <1>10 DEF ReadOpenPlus, AtSocket
  <2>2. PICK r \in CharsRead(cli.sock) : conn' = [conn EXCEPT ![cli.sock] = r.after]
     BY <1>10 DEF ReadOpenPlus
  <2>3. r.after \in Children BY <2>1, CharsAre
  <2>4. conn' \in [Conns -> Children] BY <1>0, <2>1, <2>2, <2>3
  <2>5. cli' = Idle /\ ci' = cli.sock BY <1>10 DEF ReadOpenPlus
  <2> QED BY <2>1, <2>4, <2>5, IdleIs DEF Idle, AtSocket, Reading
<1>11. ASSUME ReadDigit PROVE Goal
  <2>1. cli.sock \in Conns BY <1>0, <1>11 DEF ReadDigit, AtSocket, Reading
  <2>2. PICK r \in CharsRead(cli.sock) :
          /\ IsDigit(r.char)
          /\ cli.no < 10
          /\ conn' = [conn EXCEPT ![cli.sock] = r.after]
          /\ cli' = [cli EXCEPT !.no = 10 * cli.no + Value(r.char)]
     BY <1>11 DEF ReadDigit
  <2>3. r.after \in Children BY <2>1, CharsAre
  <2>4. conn' \in [Conns -> Children] BY <1>0, <2>1, <2>2, <2>3
  <2>5. Value(r.char) \in 0 .. 9 BY <2>2 DEF IsDigit, Value
  <2> DEFINE n == 10 * cli.no + Value(r.char)
  <2>6. n \in Numbers
    <3>1. cli.no \in 0 .. 99 BY <1>0 DEF Clients, Numbers
    <3> QED BY <2>2, <2>5, <3>1 DEF Numbers
  <2> HIDE DEF n
  <2>7. cli' = [cli EXCEPT !.no = n] BY <2>2 DEF n
  <2>8. /\ cli' \in Clients /\ cli'.sock = cli.sock /\ cli'.pc = cli.pc /\ cli'.q = cli.q
     BY <1>0, <2>6, <2>7 DEF Clients
  <2>9. ci' = ci BY <1>11 DEF ReadDigit
  <2> QED BY <1>0, <2>4, <2>8, <2>9
<1>12. ASSUME ReadColumns PROVE Goal
  <2>1. cli.sock \in Conns /\ cli.q \in Queries /\ ci' = ci
     BY <1>0, <1>12 DEF ReadColumns, AtSocket, Reading
  <2>2. PICK r \in CharsRead(cli.sock) :
          \/ /\ cli' = [cli EXCEPT !.pc = "width", !.need = cli.no, !.no = 0,
                                   !.cols = <<>>, !.col = <<>>]
             /\ conn' = [conn EXCEPT ![cli.sock] = r.after]
          \/ /\ cli' = Idle
             /\ conn' = [conn EXCEPT ![cli.sock] =
                           IF cli.sock = ci THEN r.after ELSE ClosedByClient(r.after)]
     BY <1>12 DEF ReadColumns
  <2>3. r.after \in Children BY <2>1, CharsAre
  <2>4. ClosedByClient(r.after) \in Children BY <2>3, ClosedIs
  <2>5. conn' \in [Conns -> Children] BY <1>0, <2>1, <2>2, <2>3, <2>4
  <2>6. CASE cli' = Idle
     BY <1>0, <2>1, <2>5, <2>6, IdleIs DEF Idle, AtSocket, Reading
  <2>7. CASE cli' = [cli EXCEPT !.pc = "width", !.need = cli.no, !.no = 0,
                                !.cols = <<>>, !.col = <<>>]
    <3>1. <<>> \in Seq(Seq(Chars)) /\ <<>> \in Seq(Chars) OBVIOUS
    <3>2. cli' \in Clients /\ cli'.sock = cli.sock /\ cli'.q = cli.q
       BY <1>0, <2>7, <3>1, NumbersAre DEF Clients
    <3> QED BY <1>0, <2>1, <2>5, <3>2
  <2> QED BY <2>2, <2>6, <2>7
<1>13. ASSUME ReadWidth PROVE Goal
  <2>1. cli.sock \in Conns /\ cli.q \in Queries /\ ci' = ci
     BY <1>0, <1>13 DEF ReadWidth, AtSocket, Reading
  <2>2. PICK r \in CharsRead(cli.sock) : conn' = [conn EXCEPT ![cli.sock] = r.after]
     BY <1>13 DEF ReadWidth
  <2>3. r.after \in Children BY <2>1, CharsAre
  <2>4. conn' \in [Conns -> Children] BY <1>0, <2>1, <2>2, <2>3
  <2>5. cli' = [cli EXCEPT !.pc = "data", !.col = <<>>] BY <1>13 DEF ReadWidth
  <2>6. <<>> \in Seq(Chars) OBVIOUS
  <2>7. cli' \in Clients /\ cli'.sock = cli.sock /\ cli'.q = cli.q
     BY <1>0, <2>5, <2>6 DEF Clients
  <2> QED BY <1>0, <2>1, <2>4, <2>7
<1>14. ASSUME ReadData PROVE Goal
  <2>1. cli.sock \in Conns /\ cli.q \in Queries /\ ci' = ci
     BY <1>0, <1>14 DEF ReadData, AtSocket, Reading
  <2>2. PICK r \in CharsRead(cli.sock) :
          /\ conn' = [conn EXCEPT ![cli.sock] = r.after]
          /\ \/ cli' = [cli EXCEPT !.no = Len(cli.col)]
             \/ cli' = [cli EXCEPT !.col = Append(cli.col, r.char)]
     BY <1>14 DEF ReadData
  <2>3. r.after \in Children /\ r.char \in Chars BY <2>1, CharsAre
  <2>4. conn' \in [Conns -> Children] BY <1>0, <2>1, <2>2, <2>3
  <2>5. cli.col \in Seq(Chars) BY <1>0 DEF Clients
  <2> DEFINE n == Len(cli.col)
             s == Append(cli.col, r.char)
  <2>6. s \in Seq(Chars) BY <2>3, <2>5
  <2>7. n \in Numbers
    <3>1. n \in Nat BY <2>5, LenProperties
    <3>2. cli.no \in 0 .. 99 BY <1>0 DEF Clients, Numbers
    <3>3. n < cli.no BY <1>14 DEF ReadData
    <3> HIDE DEF n
    <3> QED BY <3>1, <3>2, <3>3 DEF Numbers
  <2> HIDE DEF n, s
  <2>8. CASE cli' = [cli EXCEPT !.no = n]
    <3>1. cli' \in Clients /\ cli'.sock = cli.sock /\ cli'.q = cli.q
       BY <1>0, <2>7, <2>8 DEF Clients
    <3> QED BY <1>0, <2>1, <2>4, <3>1
  <2>9. CASE cli' = [cli EXCEPT !.col = s]
    <3>1. cli' \in Clients /\ cli'.sock = cli.sock /\ cli'.q = cli.q
       BY <1>0, <2>6, <2>9 DEF Clients
    <3> QED BY <1>0, <2>1, <2>4, <3>1
  <2> QED BY <2>2, <2>8, <2>9 DEF n, s
<1>15. ASSUME TakeColumn PROVE Goal
  <2> DEFINE cols == Append(cli.cols, cli.col)
             rows == Append(cli.rows, cols)
  <2>1. /\ cli.sock \in Conns /\ cli.q \in Queries /\ ci' = ci /\ conn' = conn
        /\ \/ cli' = [cli EXCEPT !.pc = "ncol", !.no = 0, !.need = 0, !.cols = <<>>,
                                 !.col = <<>>, !.rows = rows]
           \/ cli' = [cli EXCEPT !.pc = "width", !.no = 0, !.cols = cols, !.col = <<>>]
     BY <1>0, <1>15 DEF TakeColumn, AtSocket, Reading
  <2>2. /\ cli.col \in Seq(Chars) /\ cli.cols \in Seq(Seq(Chars))
        /\ cli.rows \in Seq(Seq(Seq(Chars)))
     BY <1>0 DEF Clients
  <2>3. cols \in Seq(Seq(Chars)) BY <2>2
  <2> HIDE DEF cols
  <2>4. rows \in Seq(Seq(Seq(Chars))) BY <2>2, <2>3
  <2> HIDE DEF rows
  <2>5. <<>> \in Seq(Seq(Chars)) /\ <<>> \in Seq(Chars) OBVIOUS
  <2>6. cli' \in Clients /\ cli'.sock = cli.sock /\ cli'.q = cli.q
    <3>1. CASE cli' = [cli EXCEPT !.pc = "ncol", !.no = 0, !.need = 0, !.cols = <<>>,
                                  !.col = <<>>, !.rows = rows]
       BY <1>0, <2>4, <2>5, <3>1, NumbersAre DEF Clients
    <3>2. CASE cli' = [cli EXCEPT !.pc = "width", !.no = 0, !.cols = cols, !.col = <<>>]
       BY <1>0, <2>3, <2>5, <3>2, NumbersAre DEF Clients
    <3> QED BY <2>1, <3>1, <3>2
  <2> QED BY <1>0, <2>1, <2>6
<1>16. ASSUME Close PROVE Goal
  <2>1. /\ cli' = cli /\ ci' = NULL
        /\ conn' = conn \/ (ci \in Conns /\ conn' = [conn EXCEPT ![ci] = ClosedByClient(conn[ci])])
     BY <1>0, <1>16 DEF Close
  <2>2. ci \in Conns => ClosedByClient(conn[ci]) \in Children BY <1>0, ClosedIs
  <2>3. conn' \in [Conns -> Children] BY <1>0, <2>1, <2>2
  <2> QED BY <1>0, <2>1, <2>3
<1>17. ASSUME ApplicationEnds PROVE Goal
  <2>1. /\ cli' = [cli EXCEPT !.pc = "dead"] /\ ci' = NULL
        /\ conn' = [c \in Conns |-> IF conn[c].open THEN ClosedByClient(conn[c]) ELSE conn[c]]
     BY <1>17 DEF ApplicationEnds
  <2>2. \A c \in Conns : ClosedByClient(conn[c]) \in Children BY <1>0, ClosedIs
  <2>3. conn' \in [Conns -> Children] BY <1>0, <2>1, <2>2
  <2>4. cli' \in Clients /\ cli'.pc = "dead" BY <1>0, <2>1 DEF Clients
  <2> QED BY <2>1, <2>3, <2>4 DEF AtSocket, Reading
<1> HIDE DEF Goal
<1> QED
  BY <1>1, <1>2, <1>3, <1>4, <1>5, <1>6, <1>7, <1>8, <1>9, <1>10, <1>11, <1>12, <1>13,
     <1>14, <1>15, <1>16, <1>17, Zenon DEF InDriver

\* The steps of the children, and of the network.
LEMMA ChildTyped ==
    ASSUME SessionTypes, NEW c \in Conns, Child(c) \/ ResetArrives(c)
    PROVE  /\ UNCHANGED <<cli, ci, returned>>
           /\ \E s \in Children : conn' = [conn EXCEPT ![c] = s]
<1>0. conn[c] \in Children BY DEF SessionTypes
<1> DEFINE Goal == /\ UNCHANGED <<cli, ci, returned>>
                   /\ \E s \in Children : conn' = [conn EXCEPT ![c] = s]
<1>1. ASSUME ServeUrl(c) PROVE Goal
  <2>1. PICK r \in Requests(conn[c]) :
          conn' = [conn EXCEPT ![c] =
                     Written([r.after EXCEPT !.u = r.m], <<" ">>,
                             IF r.m = OpenRequest THEN "openUrl" ELSE "query")]
     BY <1>1 DEF ServeUrl
  <2>2. r.m \in Words \cup {EmptyQuery, Garbled} /\ r.after \in Children
     BY <1>0, RequestsAre
  <2>3. [r.after EXCEPT !.u = r.m] \in Children BY <2>2 DEF Children
  <2>4. <<" ">> \in Seq(Chars)
    <3>1. " " \in Chars BY Digits
    <3> QED BY <3>1, OneIs
  <2> DEFINE s == [r.after EXCEPT !.u = r.m]
             pc == IF r.m = OpenRequest THEN "openUrl" ELSE "query"
  <2>5. pc \in {"openUrl", "query", "rows", "ending"} OBVIOUS
  <2> HIDE DEF s, pc
  <2>6. Written(s, <<" ">>, pc) \in Children BY <2>3, <2>4, <2>5, WrittenIs DEF s
  <2>7. UNCHANGED <<cli, ci, returned>> BY <1>1 DEF ServeUrl
  <2> QED BY <2>1, <2>6, <2>7 DEF s, pc
<1>2. ASSUME ServeOpen(c) PROVE Goal
  <2>1. PICK r \in Requests(conn[c]) :
           \E ok \in IF r.m = Url THEN ServerOpens ELSE {FALSE} :
             conn' = [conn EXCEPT ![c] =
                        Written([r.after EXCEPT !.u = r.m, !.persist = TRUE, !.db = ok],
                                IF ok THEN <<"+", "0">> ELSE TheEnd, "query")]
     BY <1>2 DEF ServeOpen
  <2>2. PICK ok \in IF r.m = Url THEN ServerOpens ELSE {FALSE} :
             conn' = [conn EXCEPT ![c] =
                        Written([r.after EXCEPT !.u = r.m, !.persist = TRUE, !.db = ok],
                                IF ok THEN <<"+", "0">> ELSE TheEnd, "query")]
     BY <2>1
  <2>3. r.m \in Words \cup {EmptyQuery, Garbled} /\ r.after \in Children
     BY <1>0, RequestsAre
  <2>4. ok \in BOOLEAN BY <2>2, SessionAssumption DEF SessionAssumption
  <2>5. [r.after EXCEPT !.u = r.m, !.persist = TRUE, !.db = ok] \in Children
     BY <2>3, <2>4 DEF Children
  <2> DEFINE s == [r.after EXCEPT !.u = r.m, !.persist = TRUE, !.db = ok]
             chars == IF ok THEN <<"+", "0">> ELSE TheEnd
  <2>6. chars \in Seq(Chars)
    <3>1. "+" \in Chars /\ "0" \in Chars /\ "nul" \in Chars BY Digits
    <3>2. <<"+", "0">> \in Seq(Chars) /\ <<"0", "nul">> \in Seq(Chars) BY <3>1, PairIs
    <3> QED BY <3>2, Zenon DEF TheEnd
  <2> HIDE DEF s, chars
  <2>7. Written(s, chars, "query") \in Children BY <2>5, <2>6, WrittenIs DEF s
  <2>8. UNCHANGED <<cli, ci, returned>> BY <1>2 DEF ServeOpen
  <2> QED BY <2>2, <2>7, <2>8 DEF s, chars
<1>3. ASSUME ServeQuery(c) PROVE Goal
  <2>0. PICK r \in Requests(conn[c]) :
          \E o \in Outcomes(conn[c].u, r.m) :
             conn' = [conn EXCEPT ![c] =
                        [r.after EXCEPT !.pc = "rows", !.todo = o.rows, !.ok = o.ok]]
     BY <1>3 DEF ServeQuery
  <2>1. PICK o \in Outcomes(conn[c].u, r.m) :
             conn' = [conn EXCEPT ![c] =
                        [r.after EXCEPT !.pc = "rows", !.todo = o.rows, !.ok = o.ok]]
     BY <2>0
  <2>2. r.after \in Children BY <1>0, RequestsAre
  <2>3. o.rows \in Seq(FramedRows) /\ o.ok \in BOOLEAN BY OutcomesAre
  <2>4. [r.after EXCEPT !.pc = "rows", !.todo = o.rows, !.ok = o.ok] \in Children
     BY <2>2, <2>3 DEF Children, Serving
  <2>5. UNCHANGED <<cli, ci, returned>> BY <1>3 DEF ServeQuery
  <2> QED BY <2>1, <2>4, <2>5
<1>4. ASSUME ReadFails(c) PROVE Goal
  <2>1. conn' = [conn EXCEPT ![c] = Exited(conn[c])] /\ UNCHANGED <<cli, ci, returned>>
     BY <1>4 DEF ReadFails
  <2>2. Exited(conn[c]) \in Children BY <1>0, ExitedIs
  <2> QED BY <2>1, <2>2
<1>5. ASSUME ServeRow(c) PROVE Goal
  <2> DEFINE s == [conn[c] EXCEPT !.todo = Tail(conn[c].todo)]
             chars == RowChars(Head(conn[c].todo))
  <2>1. /\ conn[c].todo # <<>> /\ UNCHANGED <<cli, ci, returned>>
        /\ conn' = [conn EXCEPT ![c] = Written(s, chars, "rows")]
     BY <1>5 DEF ServeRow
  <2>2. conn[c].todo \in Seq(FramedRows) BY <1>0 DEF Children
  <2>3. Head(conn[c].todo) \in FramedRows /\ Tail(conn[c].todo) \in Seq(FramedRows)
     BY <2>1, <2>2, HeadTailProperties
  <2>4. s \in Children BY <1>0, <2>3 DEF Children
  <2>5. chars \in Seq(Chars)
    <3>1. Framed(Head(conn[c].todo)) BY <2>3 DEF FramedRows
    <3> QED BY <3>1, RowBegins
  <2> HIDE DEF s, chars
  <2>6. Written(s, chars, "rows") \in Children BY <2>4, <2>5, WrittenIs
  <2> QED BY <2>1, <2>6
<1>6. ASSUME ServeEnd(c) PROVE Goal
  <2> DEFINE pc == IF conn[c].persist /\ conn[c].ok THEN "query" ELSE "ending"
  <2>1. /\ UNCHANGED <<cli, ci, returned>>
        /\ conn' = [conn EXCEPT ![c] = Written(conn[c], TheEnd, pc)]
     BY <1>6 DEF ServeEnd
  <2>2. TheEnd \in Seq(Chars)
    <3>1. "0" \in Chars /\ "nul" \in Chars BY Digits
    <3>2. <<"0", "nul">> \in Seq(Chars) BY <3>1, PairIs
    <3> QED BY <3>2, Zenon DEF TheEnd
  <2>3. pc \in {"openUrl", "query", "rows", "ending"} OBVIOUS
  <2> HIDE DEF pc
  <2>4. Written(conn[c], TheEnd, pc) \in Children BY <1>0, <2>2, <2>3, WrittenIs
  <2> QED BY <2>1, <2>4
<1>7. ASSUME ChildEnds(c) PROVE Goal
  <2>1. /\ UNCHANGED <<cli, ci, returned>>
        /\ conn' = [conn EXCEPT ![c] = IF conn[c].persist /\ ~conn[c].db
                                       THEN [Exited(conn[c]) EXCEPT !.pc = "crashed"]
                                       ELSE Exited(conn[c])]
     BY <1>7 DEF ChildEnds
  <2>2. Exited(conn[c]) \in Children BY <1>0, ExitedIs
  <2>3. [Exited(conn[c]) EXCEPT !.pc = "crashed"] \in Children
     BY <2>2 DEF Children, Over
  <2> QED BY <2>1, <2>2, <2>3
<1>8. ASSUME ResetArrives(c) PROVE Goal
  <2>1. /\ UNCHANGED <<cli, ci, returned>>
        /\ conn' = [conn EXCEPT ![c] = [conn[c] EXCEPT !.rst = TRUE]]
     BY <1>8 DEF ResetArrives
  <2>2. [conn[c] EXCEPT !.rst = TRUE] \in Children BY <1>0 DEF Children
  <2> QED BY <2>1, <2>2
<1> HIDE DEF Goal
<1>9. Goal BY <1>1, <1>2, <1>3, <1>4, <1>5, <1>6, <1>7, <1>8, Zenon DEF Child
<1> QED BY <1>9 DEF Goal

\* Every action keeps the types, the application that dies or spins included.
LEMMA SessionTyped ==
    ASSUME SessionTypes, [Next]_vars
    PROVE  SessionTypes'
<1>1. ASSUME UNCHANGED vars PROVE SessionTypes'
   BY <1>1 DEF SessionTypes, vars
<1>2. ASSUME NEW c \in Conns, Child(c) \/ ResetArrives(c) PROVE SessionTypes'
  <2>1. UNCHANGED <<cli, ci>> /\ \E s \in Children : conn' = [conn EXCEPT ![c] = s]
     BY <1>2, ChildTyped
  <2>2. conn' \in [Conns -> Children] BY <2>1 DEF SessionTypes
  <2> QED BY <2>1, <2>2 DEF SessionTypes
<1>3. ASSUME \/ \E q \in Queries : QueryStarts(q) \/ QueryStartsOnSocket(q)
             \/ OpenStarts \/ InDriver \/ Close \/ ApplicationEnds
      PROVE  SessionTypes'
   BY <1>3, ClientTyped
<1> QED BY <1>1, <1>2, <1>3, Zenon DEF Next

\* (theorem) The session is well typed.
THEOREM SessionTypesAlways == Spec => []TypeOK
<1>1. Init => SessionTypes
  <2> SUFFICES ASSUME Init PROVE SessionTypes
    OBVIOUS
  <2>1. cli \in Clients /\ cli.pc = "idle" BY IdleIs DEF Init, Idle
  <2>2. conn \in [Conns -> Children] BY UnusedIs DEF Init
  <2> QED BY <2>1, <2>2 DEF Init, SessionTypes, Reading
<1>2. SessionTypes /\ [Next]_vars => SessionTypes' BY SessionTyped
<1>3. SessionTypes => TypeOK
  <2> SUFFICES ASSUME SessionTypes PROVE TypeOK
    OBVIOUS
  <2>1. /\ cli.pc \in {"idle", "connect", "openConnect", "greet", "openGreet", "openAnswer",
                       "openPlus", "ncol", "width", "data", "spin", "dead"}
        /\ cli.sock \in Conns \cup {NULL}
        /\ cli.q \in Queries \cup {NULL}
        /\ cli.no \in 0 .. 99 /\ cli.need \in 0 .. 99
        /\ cli.col \in Seq(Chars)
        /\ ci \in Conns \cup {0, NULL}
     BY DEF SessionTypes, Clients, Numbers
  <2>2. ASSUME NEW c \in Conns
        PROVE  /\ conn[c].pc \in Serving \cup Over \cup {"unused", "ending"}
               /\ conn[c].toClient \in Seq(Chars)
               /\ conn[c].todo \in Seq(Rows)
    <3>1. conn[c] \in Children BY DEF SessionTypes
    <3>2. /\ conn[c].pc \in Serving \cup Over \cup {"unused", "ending"}
          /\ conn[c].toClient \in Seq(Chars) /\ conn[c].todo \in Seq(FramedRows)
       BY <3>1 DEF Children
    <3>3. FramedRows \subseteq Rows BY DEF FramedRows
    <3>4. conn[c].todo \in Seq(Rows)
      <4> HIDE DEF Children
      <4> QED BY <3>2, <3>3
    <3> QED BY <3>2, <3>4
  <2> QED BY <2>1, <2>2 DEF TypeOK
<1> QED BY <1>1, <1>2, <1>3, PTL DEF Spec

---------------------------------------------------------------------------
(* The session: what the client reads next *)

\* Row i + 1 in the answer.
LEMMA RowOf ==
    ASSUME NEW q \in Queries, NEW i \in Nat, i < Len(Answer[q])
    PROVE  /\ Framed(Answer[q][i + 1]) /\ Len(Answer[q][i + 1]) \in 1 .. 9
           /\ RowAt(q, i) \in Nat
           /\ Whole(q)[RowAt(q, i) + 1] = Digit[Len(Answer[q][i + 1]) + 1]
           /\ Whole(q)[RowAt(q, i) + 2] = " "
           /\ RowAt(q, i + 1) =
                 RowAt(q, i) + ColumnAt(Answer[q][i + 1], Len(Answer[q][i + 1]))
<1> DEFINE row == Answer[q][i + 1]
           a == RowAt(q, i)
           w == Whole(q)
           l == RowChars(row)
           n == Len(Answer[q])
           m == Len(row)
<1>0. n \in Nat BY RowsAre, LenProperties
<1>1. i + 1 \in 1 .. n /\ i \in 0 .. n /\ (i + 1) - 1 = i
  <2> HIDE DEF n
  <2> QED BY <1>0 DEF n
<1>2. Framed(row)
  <2> HIDE DEF row
  <2> QED BY <1>1, RowsFramed DEF row
<1>3. m \in 1 .. 9 BY <1>2 DEF Framed
<1>4. a \in Nat BY <1>1, RowAtIs
<1>5. SaysAt(Whole(q), RowAt(q, (i + 1) - 1), RowChars(row)) BY <1>1, WholeSays
<1>6. RowAt(q, i + 1) = RowAt(q, (i + 1) - 1) + Len(RowChars(row)) BY <1>1, AnswerGoesOn
<1>7. SaysAt(w, a, l) /\ RowAt(q, i + 1) = a + Len(l) BY <1>1, <1>5, <1>6
<1>8. l \in Seq(Chars) /\ l[1] = Digit[m + 1] /\ l[2] = " " /\ Len(l) = ColumnAt(row, m)
   BY <1>2, RowBegins
<1>9. 1 \in 1 .. Len(l) /\ 2 \in 1 .. Len(l)
  <2>1. ColumnAt(row, 0) = 2 BY <1>2, RowBegins
  <2>2. 1 \in 1 .. m /\ 1 - 1 = 0
    <3> HIDE DEF m
    <3> QED BY <1>3
  <2>3. /\ ColumnAt(row, 1) = ColumnAt(row, 1 - 1) + 2 + Len(Text(row[1]))
        /\ ColumnAt(row, 1) <= Len(l) /\ Len(l) \in Nat
    <3> HIDE DEF row
    <3> QED BY <1>2, <2>2, RowGoesOn
  <2>4. Len(Text(row[1])) \in 0 .. 9
    <3> HIDE DEF row
    <3> QED BY <1>2, <2>2, TextIs
  <2> DEFINE x == Len(l)
             y == ColumnAt(row, 1)
             z == Len(Text(row[1]))
  <2>5. x \in Nat /\ y <= x /\ y = 2 + 2 + z /\ z \in Nat
    <3>1. y = 2 + 2 + z BY <2>1, <2>2, <2>3
    <3>2. z \in Nat BY <2>4
    <3> QED BY <2>3, <3>1, <3>2
  <2> HIDE DEF x, y, z
  <2>6. 1 \in 1 .. x /\ 2 \in 1 .. x BY <2>5
  <2> QED BY <2>6 DEF x
<1> HIDE DEF row, a, w, l, m, n
<1>10. w[a + 1] = l[1] /\ w[a + 2] = l[2] BY <1>7, <1>9, Zenon DEF SaysAt
<1> QED BY <1>2, <1>3, <1>4, <1>7, <1>8, <1>10, Zenon DEF row, a, w, m

\* Column k + 1 of that row: where it is, and what is in it.
IsColumn(q, i, k, row, at, t) ==
    /\ q \in Queries /\ i \in Nat /\ i < Len(Answer[q])
    /\ row = Answer[q][i + 1] /\ k \in Nat /\ k < Len(row)
    /\ at = RowAt(q, i) + ColumnAt(row, k)
    /\ t = Text(row[k + 1])

SaysColumn(q, i, k, row, at, t) ==
    /\ at \in Nat /\ t \in Seq(Chars) /\ Len(t) \in 0 .. 9
    /\ Whole(q)[at + 1] = Digit[Len(t) + 1] /\ Whole(q)[at + 2] = " "
    /\ SaysAt(Whole(q), at + 2, t)
    /\ RowAt(q, i) + ColumnAt(row, k + 1) = at + 2 + Len(t)

\* Where a column begins, the answer has its width and its text.
LEMMA ColumnOf ==
    ASSUME NEW q, NEW i, NEW k, NEW row, NEW at, NEW t, IsColumn(q, i, k, row, at, t)
    PROVE  SaysColumn(q, i, k, row, at, t)
<1> DEFINE a == RowAt(q, i)
           w == Whole(q)
           l == RowChars(row)
           n == Len(Answer[q])
           m == Len(row)
           b == ColumnAt(row, k)
           d == ColumnAt(row, k + 1)
           e == Len(l)
           z == Len(t)
<1> q \in Queries /\ i \in Nat /\ i < Len(Answer[q]) BY DEF IsColumn
<1> row = Answer[q][i + 1] /\ k \in Nat /\ k < Len(row) BY DEF IsColumn
<1> at = RowAt(q, i) + ColumnAt(row, k) /\ t = Text(row[k + 1]) BY DEF IsColumn
<1>0. n \in Nat BY RowsAre, LenProperties
<1>1. i + 1 \in 1 .. n /\ i \in 0 .. n /\ (i + 1) - 1 = i
  <2> HIDE DEF n
  <2> QED BY <1>0 DEF n
<1>2. Framed(row) /\ m \in 1 .. 9 /\ a \in Nat BY RowOf
<1>3. SaysAt(Whole(q), RowAt(q, (i + 1) - 1), RowChars(Answer[q][i + 1])) BY <1>1, WholeSays
<1>4. SaysAt(w, a, l) BY <1>1, <1>3
<1>5. k + 1 \in 1 .. m /\ (k + 1) - 1 = k
  <2> HIDE DEF m
  <2> QED BY <1>2 DEF m
<1>6. t \in Seq(Chars) /\ z \in 0 .. 9 BY <1>2, <1>5, TextIs
<1>7. /\ ColumnAt(row, (k + 1) - 1) \in Nat /\ Len(RowChars(row)) \in Nat
      /\ ColumnAt(row, k + 1) = ColumnAt(row, (k + 1) - 1) + 2 + Len(Text(row[k + 1]))
      /\ ColumnAt(row, k + 1) <= Len(RowChars(row))
   BY <1>2, <1>5, RowGoesOn
<1>8. b \in Nat /\ e \in Nat /\ d = b + 2 + z /\ d <= e BY <1>5, <1>7, Zenon
<1>9. /\ RowChars(row)[ColumnAt(row, (k + 1) - 1) + 1] = Digit[Len(Text(row[k + 1])) + 1]
      /\ RowChars(row)[ColumnAt(row, (k + 1) - 1) + 2] = " "
      /\ SaysAt(RowChars(row), ColumnAt(row, (k + 1) - 1) + 2, Text(row[k + 1]))
  <2> DEFINE j == k + 1
  <2>1. Framed(row) /\ j \in 1 .. Len(row) BY <1>2, <1>5
  <2> HIDE DEF j
  <2>2. /\ RowChars(row)[ColumnAt(row, j - 1) + 1] = Digit[Len(Text(row[j])) + 1]
        /\ RowChars(row)[ColumnAt(row, j - 1) + 2] = " "
        /\ SaysAt(RowChars(row), ColumnAt(row, j - 1) + 2, Text(row[j]))
     BY <2>1, RowSays
  <2> QED BY <2>2, Zenon DEF j
<1>10. /\ l[b + 1] = Digit[z + 1] /\ l[b + 2] = " "
       /\ \A x \in 1 .. z : l[b + 2 + x] = t[x]
  <2>1. SaysAt(l, b + 2, t) BY <1>5, <1>9, Zenon
  <2> QED BY <1>5, <1>9, <2>1, Zenon DEF SaysAt
<1>11. at = a + b OBVIOUS
<1>12. \A x \in 1 .. e : w[a + x] = l[x] BY <1>4 DEF SaysAt
<1> HIDE DEF a, w, l, n, m, b, d, e, z
<1>13. b + 1 \in 1 .. e /\ b + 2 \in 1 .. e BY <1>6, <1>8
<1>14. w[a + (b + 1)] = Digit[z + 1] /\ w[a + (b + 2)] = " " BY <1>10, <1>12, <1>13, Zenon
<1>15. w[at + 1] = Digit[z + 1] /\ w[at + 2] = " "
  <2>1. a + (b + 1) = at + 1 /\ a + (b + 2) = at + 2 BY <1>2, <1>8, <1>11
  <2> QED BY <1>14, <2>1
<1>16. ASSUME NEW x \in 1 .. z PROVE w[at + 2 + x] = t[x]
  <2>1. b + 2 + x \in 1 .. e /\ a + (b + 2 + x) = at + 2 + x
    <3>1. /\ a \in Nat /\ b \in Nat /\ z \in 0 .. 9 /\ e \in Nat /\ d = b + 2 + z /\ d <= e
          /\ at = a + b
       BY <1>2, <1>6, <1>8, <1>11, Zenon
    <3> HIDE DEF a
    <3> QED BY <3>1, SMTT(30)
  <2>2. w[a + (b + 2 + x)] = l[b + 2 + x] BY <1>12, <2>1, Zenon
  <2> QED BY <1>10, <2>1, <2>2
<1>17. a + d = at + 2 + z /\ at \in Nat
  <2>1. a \in Nat /\ b \in Nat /\ z \in 0 .. 9 /\ d = b + 2 + z
     BY <1>2, <1>6, <1>8, ZenonT(30)
  <2> QED BY <1>11, <2>1, SMTT(30)
<1>18. SaysAt(w, at + 2, t) BY <1>16, Zenon DEF SaysAt, z
<1> QED BY <1>6, <1>15, <1>17, <1>18, Zenon DEF SaysColumn, a, w, d, z

\* The parts of a client.
LEMMA ClientIs ==
    ASSUME NEW x \in Clients
    PROVE  /\ x.rows \in Seq(Seq(Seq(Chars))) /\ Len(x.rows) \in Nat
           /\ x.cols \in Seq(Seq(Chars)) /\ Len(x.cols) \in Nat
           /\ x.col \in Seq(Chars) /\ Len(x.col) \in Nat
           /\ x.no \in Nat
<1>1. /\ x.rows \in Seq(Seq(Seq(Chars))) /\ x.cols \in Seq(Seq(Chars)) /\ x.col \in Seq(Chars)
      /\ x.no \in Numbers
   BY DEF Clients
<1>2. x.no \in Nat
  <2>1. x.no \in Numbers BY <1>1
  <2> QED BY <2>1 DEF Numbers
<1> QED BY <1>1, <1>2, LenProperties

\* In front of a number of columns, or of the zero of the end, comes a digit.
LEMMA NumberRead ==
    ASSUME NEW x \in Clients, x.q \in Queries, NEW r, RowsRead(x), BeforeRow(x, r),
           NEW y, y = [x EXCEPT !.no = 10 * x.no + Value(Whole(x.q)[r + 1])]
    PROVE  r \in Nat /\ IsDigit(Whole(x.q)[r + 1]) /\ HasRead(y, r + 1)
<1> DEFINE q == x.q
           i == Len(x.rows)
           n == Len(Answer[q])
           v == 10 * x.no + Value(Whole(x.q)[r + 1])
<1>0. i \in Nat /\ n \in Nat /\ i <= n
  <2>1. n \in Nat BY RowsAre, LenProperties
  <2>2. i <= n BY DEF RowsRead
  <2> QED BY <2>1, <2>2, ClientIs
<1>1. y = [x EXCEPT !.no = v] OBVIOUS
<1> HIDE DEF v
<1>2. y.pc = x.pc /\ y.q = x.q /\ y.rows = x.rows /\ y.no = v BY <1>1 DEF Clients
<1>3. RowsRead(y) BY <1>2, Zenon DEF RowsRead
<1>4. x.pc = "ncol" /\ x.no = 0 /\ r = RowAt(q, i) BY DEF BeforeRow
<1>5. CASE i < n
  <2>1. /\ Len(Answer[q][i + 1]) \in 1 .. 9 /\ RowAt(q, i) \in Nat
        /\ Whole(q)[RowAt(q, i) + 1] = Digit[Len(Answer[q][i + 1]) + 1]
    <3> HIDE DEF q, i
    <3> QED BY <1>0, <1>5, RowOf DEF q, n
  <2> DEFINE m == Len(Answer[q][i + 1])
  <2>2. Whole(q)[r + 1] = Digit[m + 1] BY <1>4, <2>1, Zenon
  <2>3. IsDigit(Digit[m + 1]) /\ Value(Digit[m + 1]) = m
    <3>1. m \in 0 .. 9 BY <2>1
    <3> HIDE DEF m
    <3> QED BY <3>1, Digits
  <2>4. v = m
    <3>1. Value(Whole(x.q)[r + 1]) = m BY <2>2, <2>3, Zenon
    <3>2. m \in Nat BY <2>1, SMTT(30)
    <3> HIDE DEF m
    <3> QED BY <1>4, <3>1, <3>2 DEF v
  <2>5. BehindNumber(y, r + 1) BY <1>2, <1>4, <1>5, <2>4, Zenon DEF BehindNumber
  <2>6. IsDigit(Whole(x.q)[r + 1]) BY <2>2, <2>3, Zenon
  <2>7. HasRead(y, r + 1) BY <1>3, <2>5, Zenon DEF HasRead
  <2> QED BY <1>4, <2>1, <2>6, <2>7, Zenon
<1>6. CASE i = n
  <2>1. Whole(q)[RowAt(q, n) + 1] = "0" /\ RowAt(q, n) \in Nat
    <3>1. n \in 0 .. n
      <4> HIDE DEF n
      <4> QED BY <1>0
    <3> QED BY <3>1, WholeIs, RowAtIs
  <2>2. Whole(q)[r + 1] = "0" BY <1>4, <1>6, <2>1, Zenon
  <2>3. v = 0
    <3>1. Value(Whole(x.q)[r + 1]) = 0 BY <2>2, Digits, Zenon
    <3> QED BY <1>4, <3>1 DEF v
  <2>4. BehindZero(y, r + 1) BY <1>2, <1>4, <1>6, <2>3, Zenon DEF BehindZero
  <2>5. IsDigit(Whole(x.q)[r + 1]) BY <2>2, Digits, Zenon
  <2>6. HasRead(y, r + 1) BY <1>3, <2>4, Zenon DEF HasRead
  <2> QED BY <1>4, <1>6, <2>1, <2>5, <2>6, Zenon
<1> HIDE DEF i, n
<1>7. i < n \/ i = n BY <1>0
<1> QED BY <1>5, <1>6, <1>7 DEF i, n

\* Behind a number of columns comes a blank, and then the first column.
LEMMA NumberEnds ==
    ASSUME NEW x \in Clients, x.q \in Queries, NEW r, RowsRead(x), BehindNumber(x, r),
           NEW y, y = [x EXCEPT !.pc = "width", !.need = x.no, !.no = 0,
                                !.cols = <<>>, !.col = <<>>]
    PROVE  r \in Nat /\ Whole(x.q)[r + 1] = " " /\ x.no > 0 /\ HasRead(y, r + 1)
<1> DEFINE q == x.q
           i == Len(x.rows)
           row == Answer[q][i + 1]
           m == Len(row)
           a == RowAt(q, i)
<1>0. i \in Nat BY ClientIs
<1>1. /\ y.pc = "width" /\ y.q = q /\ y.rows = x.rows /\ y.no = 0 /\ y.need = x.no
      /\ y.cols = <<>>
   BY DEF Clients
<1>2. RowsRead(y) BY <1>1, Zenon DEF RowsRead
<1>3. i < Len(Answer[q]) /\ x.no = m /\ r = a + 1 BY DEF BehindNumber
<1>4. Framed(row) /\ m \in 1 .. 9 /\ a \in Nat /\ Whole(q)[a + 2] = " "
  <2> HIDE DEF q, i
  <2> QED BY <1>0, <1>3, RowOf DEF q
<1>5. ColumnAt(row, 0) = 2 BY <1>4, RowBegins
<1>6. Len(y.cols) = 0 BY <1>1
<1>7. NextColumn(y) = a + 2 BY <1>1, <1>5, <1>6, Zenon DEF NextColumn
<1> HIDE DEF a, m
<1>8. r \in Nat /\ r + 1 = a + 2 /\ m > 0
  <2>1. r = a + 1 /\ a \in Nat /\ m \in 1 .. 9 BY <1>3, <1>4, Zenon
  <2> QED BY <2>1
<1>9. BeforeColumn(y, r + 1) BY <1>1, <1>7, <1>8, Zenon DEF BeforeColumn
<1>10. ColumnsRead(y)
  <2>1. Len(y.cols) < m BY <1>6, <1>8
  <2>2. \A j \in 1 .. Len(y.cols) : y.cols[j] = Text(row[j])
    <3>1. 1 .. Len(y.cols) = {} BY <1>6
    <3> QED BY <3>1
  <2> QED BY <1>1, <1>3, <2>1, <2>2, Zenon DEF ColumnsRead, m
<1>11. HasRead(y, r + 1) BY <1>2, <1>9, <1>10, Zenon DEF HasRead
<1>12. Whole(q)[r + 1] = " " BY <1>4, <1>8, Zenon
<1>13. x.no > 0 BY <1>3, <1>8, Zenon
<1> QED BY <1>8, <1>11, <1>12, <1>13, Zenon

\* Behind the zero of the end comes a null byte, and all the rows have been read.
LEMMA AnswerEnds ==
    ASSUME NEW x \in Clients, x.q \in Queries, NEW r, RowsRead(x), BehindZero(x, r)
    PROVE  /\ r \in Nat /\ Whole(x.q)[r + 1] = "nul" /\ x.no = 0
           /\ r + 1 = RowAt(x.q, Len(Answer[x.q])) + 2
           /\ x.rows = TextRows(Answer[x.q])
<1> DEFINE q == x.q
           n == Len(Answer[q])
           a == RowAt(q, n)
           l == TextRows(Answer[q])
<1>1. Len(x.rows) = n /\ x.no = 0 /\ r = a + 1 BY DEF BehindZero
<1>2. Whole(q)[a + 2] = "nul" BY WholeIs
<1>3. a \in Nat
  <2>1. n \in Nat BY RowsAre, LenProperties
  <2>2. n \in 0 .. n
    <3> HIDE DEF n
    <3> QED BY <2>1
  <2> QED BY <2>2, RowAtIs
<1>4. x.rows = l
  <2>1. Answer[q] \in Seq(Rows) /\ x.rows \in Seq(Seq(Seq(Chars))) BY RowsAre, ClientIs
  <2>2. l = [j \in DOMAIN Answer[q] |-> l[j]] BY DEF TextRows
  <2>3. DOMAIN Answer[q] = 1 .. n BY <2>1
  <2>4. x.rows = [j \in 1 .. Len(x.rows) |-> x.rows[j]] BY <2>1
  <2>5. \A j \in 1 .. n : x.rows[j] = l[j] BY <1>1 DEF RowsRead
  <2> HIDE DEF l, n
  <2> QED BY <1>1, <2>2, <2>3, <2>4, <2>5
<1> HIDE DEF a
<1>5. r \in Nat /\ r + 1 = a + 2 BY <1>1, <1>3
<1>6. Whole(q)[r + 1] = "nul" BY <1>2, <1>5, Zenon
<1> QED BY <1>1, <1>4, <1>5, <1>6, Zenon DEF a

\* The next column of a client that has read some columns.
LEMMA ColumnNext ==
    ASSUME NEW x \in Clients, x.q \in Queries, ColumnsRead(x)
    PROVE  /\ NextColumn(x) \in Nat /\ NextText(x) \in Seq(Chars)
           /\ Len(NextText(x)) \in 0 .. 9
           /\ Whole(x.q)[NextColumn(x) + 1] = Digit[Len(NextText(x)) + 1]
           /\ Whole(x.q)[NextColumn(x) + 2] = " "
           /\ SaysAt(Whole(x.q), NextColumn(x) + 2, NextText(x))
           /\ RowAt(x.q, Len(x.rows)) + ColumnAt(Answer[x.q][Len(x.rows) + 1], Len(x.cols) + 1)
                 = NextColumn(x) + 2 + Len(NextText(x))
<1> DEFINE q == x.q
           i == Len(x.rows)
           k == Len(x.cols)
           row == Answer[q][i + 1]
           at == NextColumn(x)
           t == NextText(x)
<1>1. i \in Nat /\ k \in Nat BY ClientIs
<1>2. i < Len(Answer[q]) /\ k < Len(Answer[q][i + 1]) BY DEF ColumnsRead
<1>3. at = RowAt(q, i) + ColumnAt(row, k) /\ t = Text(row[k + 1])
   BY DEF NextColumn, NextText
<1>4. q \in Queries OBVIOUS
<1>5. row = Answer[q][i + 1] OBVIOUS
<1> HIDE DEF q, i, k, row, at, t
<1>6. /\ at \in Nat /\ t \in Seq(Chars) /\ Len(t) \in 0 .. 9
      /\ Whole(q)[at + 1] = Digit[Len(t) + 1] /\ Whole(q)[at + 2] = " "
      /\ SaysAt(Whole(q), at + 2, t)
      /\ RowAt(q, i) + ColumnAt(row, k + 1) = at + 2 + Len(t)
  <2>1. IsColumn(q, i, k, row, at, t)
     BY <1>1, <1>2, <1>3, <1>4, <1>5, Zenon DEF IsColumn
  <2>2. SaysColumn(q, i, k, row, at, t) BY <2>1, ColumnOf
  <2> QED BY <2>2, Zenon DEF SaysColumn
<1> QED BY <1>6, Zenon DEF q, i, k, row, at, t

\* In front of a column comes the digit of its width ...
LEMMA WidthRead ==
    ASSUME NEW x \in Clients, x.q \in Queries, NEW r, RowsRead(x), ColumnsRead(x),
           BeforeColumn(x, r),
           NEW y, y = [x EXCEPT !.no = 10 * x.no + Value(Whole(x.q)[r + 1])]
    PROVE  r \in Nat /\ IsDigit(Whole(x.q)[r + 1]) /\ HasRead(y, r + 1)
<1> DEFINE v == 10 * x.no + Value(Whole(x.q)[r + 1])
           at == NextColumn(x)
           z == Len(NextText(x))
<1>1. y = [x EXCEPT !.no = v] OBVIOUS
<1> HIDE DEF v
<1>2. /\ y.pc = x.pc /\ y.q = x.q /\ y.rows = x.rows /\ y.no = v /\ y.need = x.need
      /\ y.cols = x.cols
   BY <1>1 DEF Clients
<1>3. RowsRead(y) /\ ColumnsRead(y) BY <1>2, Zenon DEF RowsRead, ColumnsRead
<1>4. NextColumn(y) = at /\ NextText(y) = NextText(x)
   BY <1>2, Zenon DEF NextColumn, NextText
<1>5. x.pc = "width" /\ x.no = 0 /\ r = at BY DEF BeforeColumn
<1>6. at \in Nat /\ z \in 0 .. 9 /\ Whole(x.q)[at + 1] = Digit[z + 1] BY ColumnNext
<1> HIDE DEF at, z
<1>7. IsDigit(Digit[z + 1]) /\ Value(Digit[z + 1]) = z BY <1>6, Digits
<1>8. Value(Whole(x.q)[r + 1]) = z /\ IsDigit(Whole(x.q)[r + 1]) BY <1>5, <1>6, <1>7, Zenon
<1>9. v = z BY <1>5, <1>6, <1>8 DEF v
<1>10. BehindWidth(y, r + 1) BY <1>2, <1>4, <1>5, <1>9, Zenon DEF BehindWidth, z
<1>11. HasRead(y, r + 1) BY <1>3, <1>10, Zenon DEF HasRead
<1> QED BY <1>5, <1>6, <1>8, <1>11, Zenon

\* ... behind which comes a blank, and then its text.
LEMMA WidthEnds ==
    ASSUME NEW x \in Clients, x.q \in Queries, NEW r, RowsRead(x), ColumnsRead(x),
           BehindWidth(x, r), NEW y, y = [x EXCEPT !.pc = "data", !.col = <<>>]
    PROVE  r \in Nat /\ Whole(x.q)[r + 1] = " " /\ HasRead(y, r + 1)
<1> DEFINE at == NextColumn(x)
           z == Len(NextText(x))
<1>1. /\ y.pc = "data" /\ y.q = x.q /\ y.rows = x.rows /\ y.no = x.no /\ y.need = x.need
      /\ y.cols = x.cols /\ y.col = <<>>
   BY DEF Clients
<1>2. RowsRead(y) /\ ColumnsRead(y) BY <1>1, Zenon DEF RowsRead, ColumnsRead
<1>3. NextColumn(y) = at /\ NextText(y) = NextText(x)
   BY <1>1, Zenon DEF NextColumn, NextText
<1>4. x.no = z /\ r = at + 1 BY DEF BehindWidth
<1>5. at \in Nat /\ z \in 0 .. 9 /\ Whole(x.q)[at + 2] = " " BY ColumnNext
<1>6. Len(y.col) = 0 BY <1>1
<1> HIDE DEF at, z
<1>7. r \in Nat /\ r + 1 = at + 2 /\ r + 1 = at + 2 + 0 /\ 0 <= z
  <2>1. r = at + 1 /\ at \in Nat /\ z \in 0 .. 9 BY <1>4, <1>5, Zenon
  <2> QED BY <2>1
<1>8. \A j \in 1 .. Len(y.col) : y.col[j] = NextText(y)[j]
  <2>1. 1 .. Len(y.col) = {} BY <1>6
  <2> QED BY <2>1
<1>9. InColumn(y, r + 1)
   BY <1>1, <1>3, <1>4, <1>6, <1>7, <1>8, Zenon DEF InColumn, z
<1>10. HasRead(y, r + 1) BY <1>2, <1>9, Zenon DEF HasRead
<1>11. Whole(x.q)[r + 1] = " " BY <1>5, <1>7, Zenon
<1> QED BY <1>7, <1>10, <1>11, Zenon

\* A character of the text is read.
LEMMA TextRead ==
    ASSUME NEW x \in Clients, x.q \in Queries, NEW r, RowsRead(x), ColumnsRead(x),
           InColumn(x, r), Len(x.col) < x.no,
           NEW y, y = [x EXCEPT !.col = Append(x.col, Whole(x.q)[r + 1])]
    PROVE  r \in Nat /\ HasRead(y, r + 1)
<1> DEFINE at == NextColumn(x)
           t == NextText(x)
           z == Len(t)
           c == Len(x.col)
           s == Append(x.col, Whole(x.q)[r + 1])
<1>1. /\ y.pc = "data" /\ y.q = x.q /\ y.rows = x.rows /\ y.no = x.no /\ y.need = x.need
      /\ y.cols = x.cols /\ y.col = s
  <2> HIDE DEF s
  <2>1. y = [x EXCEPT !.col = s] BY DEF s
  <2>2. x.pc = "data" BY DEF InColumn
  <2> QED BY <2>1, <2>2 DEF Clients
<1>2. RowsRead(y) /\ ColumnsRead(y)
  <2> HIDE DEF s
  <2> QED BY <1>1, Zenon DEF RowsRead, ColumnsRead
<1>3. NextColumn(y) = at /\ NextText(y) = t
  <2> HIDE DEF s
  <2> QED BY <1>1, Zenon DEF NextColumn, NextText
<1>4. /\ x.no = z /\ r = at + 2 + c /\ c < z
      /\ \A j \in 1 .. c : x.col[j] = t[j]
   BY DEF InColumn
<1>5. at \in Nat /\ t \in Seq(Chars) /\ z \in 0 .. 9 /\ SaysAt(Whole(x.q), at + 2, t)
   BY ColumnNext
<1>6. x.col \in Seq(Chars) /\ c \in Nat BY ClientIs
<1> HIDE DEF at
<1>7. Whole(x.q)[r + 1] = t[c + 1]
  <2>1. \A j \in 1 .. z : Whole(x.q)[at + 2 + j] = t[j] BY <1>5 DEF SaysAt
  <2> HIDE DEF t, z, c
  <2>2. c + 1 \in 1 .. z /\ at + 2 + (c + 1) = r + 1
    <3>1. r = at + 2 + c /\ c < z /\ at \in Nat /\ z \in 0 .. 9 /\ c \in Nat
       BY <1>4, <1>5, <1>6, Zenon
    <3> QED BY <3>1, SMTT(30)
  <2>3. Whole(x.q)[at + 2 + (c + 1)] = t[c + 1] BY <2>1, <2>2, Zenon
  <2> QED BY <2>2, <2>3
<1>8. Whole(x.q)[r + 1] \in Chars
  <2> HIDE DEF t
  <2>1. c + 1 \in 1 .. Len(t)
    <3> HIDE DEF c
    <3> QED BY <1>4, <1>5, <1>6
  <2> QED BY <1>5, <1>7, <2>1
<1>9. Len(s) = c + 1 /\ \A j \in 1 .. c + 1 : s[j] = t[j]
  <2> DEFINE h == Whole(x.q)[r + 1]
  <2> HIDE DEF h, t
  <2>1. h \in Chars /\ h = t[c + 1] BY <1>7, <1>8 DEF h
  <2>2. s = Append(x.col, h) BY DEF h
  <2> HIDE DEF s
  <2> QED BY <1>4, <1>6, <2>1, <2>2
<1> HIDE DEF t, z, c, s
<1>10. Len(y.col) = c + 1 /\ \A j \in 1 .. Len(y.col) : y.col[j] = t[j] BY <1>1, <1>9, Zenon
<1>11. r \in Nat /\ r + 1 = at + 2 + (c + 1) /\ c + 1 <= z BY <1>4, <1>5, <1>6, SMTT(30)
<1>12. InColumn(y, r + 1)
   BY <1>1, <1>3, <1>4, <1>10, <1>11, Zenon DEF InColumn, z
<1>13. HasRead(y, r + 1) BY <1>2, <1>12, Zenon DEF HasRead
<1> QED BY <1>11, <1>13, Zenon

\* A column whose text has been read is whole.
LEMMA TextWhole ==
    ASSUME NEW x \in Clients, x.q \in Queries, NEW r, ColumnsRead(x), InColumn(x, r),
           Len(x.col) = x.no
    PROVE  /\ r \in Nat
           /\ Append(x.cols, x.col) \in Seq(Seq(Chars))
           /\ Len(Append(x.cols, x.col)) = Len(x.cols) + 1
           /\ \A j \in 1 .. Len(x.cols) + 1 :
                 Append(x.cols, x.col)[j] = Text(Answer[x.q][Len(x.rows) + 1][j])
<1> DEFINE t == NextText(x)
           z == Len(t)
           c == Len(x.col)
           k == Len(x.cols)
           row == Answer[x.q][Len(x.rows) + 1]
           s == Append(x.cols, x.col)
<1>1. /\ x.no = z /\ r = NextColumn(x) + 2 + c
      /\ \A j \in 1 .. c : x.col[j] = t[j]
   BY DEF InColumn
<1>2. NextColumn(x) \in Nat /\ t \in Seq(Chars) /\ z \in 0 .. 9 BY ColumnNext
<1>3. x.col \in Seq(Chars) /\ c \in Nat /\ x.cols \in Seq(Seq(Chars)) /\ k \in Nat BY ClientIs
<1>4. r \in Nat
  <2> HIDE DEF c
  <2>1. r = NextColumn(x) + 2 + c /\ NextColumn(x) \in Nat /\ c \in Nat
     BY <1>1, <1>2, <1>3, Zenon
  <2> QED BY <2>1
<1>5. x.col = t
  <2>1. c = z BY <1>1
  <2> HIDE DEF t
  <2> QED BY <1>1, <1>2, <1>3, <2>1, SMTT(30)
<1>6. t = Text(row[k + 1]) BY DEF NextText
<1>7. \A j \in 1 .. k : x.cols[j] = Text(row[j]) BY DEF ColumnsRead
<1> HIDE DEF row, t
<1>8. s \in Seq(Seq(Chars)) /\ Len(s) = k + 1 BY <1>3
<1>9. \A j \in 1 .. k + 1 : s[j] = Text(row[j])
  <2>1. t \in Seq(Chars) /\ x.cols \in Seq(Seq(Chars)) BY <1>2, <1>3
  <2>2. s = Append(x.cols, t) BY <1>5
  <2> HIDE DEF s
  <2>3. (\A j \in 1 .. k : s[j] = x.cols[j]) /\ s[k + 1] = t BY <2>1, <2>2
  <2> HIDE DEF k
  <2>4. \A j \in 1 .. k + 1 : j \in 1 .. k \/ j = k + 1 BY <1>3
  <2> QED BY <1>6, <1>7, <2>3, <2>4, Zenon
<1> HIDE DEF s, k
<1> QED BY <1>4, <1>8, <1>9, Zenon DEF row, s, k

\* There are columns left.
LEMMA ColumnTaken ==
    ASSUME NEW x \in Clients, x.q \in Queries, NEW r, RowsRead(x), ColumnsRead(x),
           InColumn(x, r), Len(x.col) = x.no, Len(Append(x.cols, x.col)) # x.need,
           NEW y, y = [x EXCEPT !.pc = "width", !.no = 0, !.cols = Append(x.cols, x.col),
                                !.col = <<>>]
    PROVE  r \in Nat /\ HasRead(y, r)
<1> DEFINE s == Append(x.cols, x.col)
           k == Len(x.cols)
           i == Len(x.rows)
           row == Answer[x.q][i + 1]
           m == Len(row)
<1>1. /\ r \in Nat /\ s \in Seq(Seq(Chars)) /\ Len(s) = k + 1
      /\ \A j \in 1 .. k + 1 : s[j] = Text(row[j])
   BY TextWhole, Zenon
<1>2. /\ y.pc = "width" /\ y.q = x.q /\ y.rows = x.rows /\ y.no = 0 /\ y.need = x.need
      /\ y.cols = s
  <2> HIDE DEF s
  <2>1. y = [x EXCEPT !.pc = "width", !.no = 0, !.cols = s, !.col = <<>>] BY DEF s
  <2> QED BY <2>1 DEF Clients
<1>3. RowsRead(y)
  <2> HIDE DEF s
  <2> QED BY <1>2, Zenon DEF RowsRead
<1>4. i < Len(Answer[x.q]) /\ x.need = m /\ k < m BY DEF ColumnsRead
<1>5. k + 1 < m
  <2>1. i \in Nat /\ k \in Nat BY ClientIs
  <2>2. m \in 1 .. 9
    <3> HIDE DEF i
    <3> QED BY <1>4, <2>1, RowOf
  <2>3. k + 1 # m BY <1>1, <1>4
  <2> HIDE DEF k, m
  <2> QED BY <1>4, <2>1, <2>2, <2>3
<1>6. ColumnsRead(y)
  <2> HIDE DEF s, k, m
  <2> QED BY <1>1, <1>2, <1>4, <1>5, Zenon DEF ColumnsRead, m
<1>7. r = NextColumn(y)
  <2>1. NextColumn(x) + 2 + Len(NextText(x)) = RowAt(x.q, i) + ColumnAt(row, k + 1)
    <3> HIDE DEF i, k, row
    <3> QED BY ColumnNext DEF i, k, row
  <2>2. r = NextColumn(x) + 2 + Len(NextText(x))
    <3>1. r = NextColumn(x) + 2 + Len(x.col) /\ Len(x.col) = Len(NextText(x))
       BY DEF InColumn
    <3> QED BY <3>1, Zenon
  <2>3. NextColumn(y) = RowAt(x.q, i) + ColumnAt(row, k + 1)
    <3> HIDE DEF s, k
    <3> QED BY <1>1, <1>2, Zenon DEF NextColumn
  <2> QED BY <2>1, <2>2, <2>3, Zenon
<1>8. BeforeColumn(y, r) BY <1>2, <1>7, Zenon DEF BeforeColumn
<1>9. HasRead(y, r) BY <1>3, <1>6, <1>8, Zenon DEF HasRead
<1> QED BY <1>1, <1>9, Zenon

\* The row is complete: it is the next one of the answer.
LEMMA RowTaken ==
    ASSUME NEW x \in Clients, x.q \in Queries, NEW r, RowsRead(x), ColumnsRead(x),
           InColumn(x, r), Len(x.col) = x.no, Len(Append(x.cols, x.col)) = x.need,
           NEW y, y = [x EXCEPT !.pc = "ncol", !.no = 0, !.need = 0, !.cols = <<>>,
                                !.col = <<>>,
                                !.rows = Append(x.rows, Append(x.cols, x.col))]
    PROVE  /\ r \in Nat /\ HasRead(y, r)
           /\ Len(x.rows) < Len(Answer[x.q])
           /\ Append(x.cols, x.col) = TextRows(Answer[x.q])[Len(x.rows) + 1]
<1> DEFINE s == Append(x.cols, x.col)
           k == Len(x.cols)
           i == Len(x.rows)
           row == Answer[x.q][i + 1]
           m == Len(row)
           n == Len(Answer[x.q])
           l == TextRows(Answer[x.q])
           rows == Append(x.rows, s)
<1>1. /\ r \in Nat /\ s \in Seq(Seq(Chars)) /\ Len(s) = k + 1
      /\ \A j \in 1 .. k + 1 : s[j] = Text(row[j])
   BY TextWhole, Zenon
<1>2. y.pc = "ncol" /\ y.q = x.q /\ y.rows = rows /\ y.no = 0
  <2> HIDE DEF rows
  <2>1. y = [x EXCEPT !.pc = "ncol", !.no = 0, !.need = 0, !.cols = <<>>,
                      !.col = <<>>, !.rows = rows]
     BY DEF rows
  <2> QED BY <2>1 DEF Clients
<1>3. i < n /\ x.need = m /\ k < m BY DEF ColumnsRead
<1>4. i \in Nat /\ k \in Nat /\ x.rows \in Seq(Seq(Seq(Chars))) BY ClientIs
<1>5. n \in Nat /\ Answer[x.q] \in Seq(Rows) BY RowsAre, LenProperties
<1>6. Framed(row) /\ m \in 1 .. 9
  <2> HIDE DEF i, row, m
  <2> QED BY <1>3, <1>4, RowOf DEF n, row, m
<1>7. k + 1 = m BY <1>1, <1>3
<1>8. i + 1 \in 1 .. n
  <2> HIDE DEF i, n
  <2> QED BY <1>3, <1>4, <1>5
<1>9. s = l[i + 1]
  <2>1. l[i + 1] = [j \in DOMAIN row |-> Text(row[j])]
    <3>1. i + 1 \in DOMAIN Answer[x.q]
      <4> HIDE DEF i
      <4> QED BY <1>5, <1>8
    <3> HIDE DEF i
    <3> QED BY <3>1 DEF TextRows
  <2>2. DOMAIN row = 1 .. m
    <3>1. row \in Seq(Seq(Chars) \cup {NULL}) BY <1>6 DEF Framed, Rows
    <3> HIDE DEF row
    <3> QED BY <3>1 DEF m
  <2>3. s = [j \in 1 .. m |-> s[j]]
    <3>1. Len(s) = m BY <1>1, <1>7, Zenon
    <3> HIDE DEF s
    <3> QED BY <1>1, <3>1
  <2>4. \A j \in 1 .. m : s[j] = Text(row[j]) BY <1>1, <1>7, Zenon
  <2> HIDE DEF s, row, m, l
  <2> QED BY <2>1, <2>2, <2>3, <2>4
<1>10. Len(rows) = i + 1 /\ \A j \in 1 .. i + 1 : rows[j] = l[j]
  <2>1. \A j \in 1 .. i : x.rows[j] = l[j] BY DEF RowsRead
  <2> HIDE DEF s, l
  <2>2. /\ Len(rows) = i + 1 /\ rows[i + 1] = s
        /\ \A j \in 1 .. i : rows[j] = x.rows[j]
     BY <1>1, <1>4
  <2> HIDE DEF rows, i
  <2>3. \A j \in 1 .. i + 1 : j \in 1 .. i \/ j = i + 1 BY <1>4
  <2> QED BY <1>9, <2>1, <2>2, <2>3, Zenon
<1>11. RowsRead(y)
  <2>1. i + 1 <= n
    <3> HIDE DEF i, n
    <3> QED BY <1>3, <1>4, <1>5
  <2> HIDE DEF rows, i, n, l
  <2> QED BY <1>2, <1>10, <2>1, Zenon DEF RowsRead, n, l
<1>12. r = RowAt(y.q, Len(y.rows))
  <2>1. NextColumn(x) + 2 + Len(NextText(x)) = RowAt(x.q, i) + ColumnAt(row, k + 1)
    <3> HIDE DEF i, k, row
    <3> QED BY ColumnNext DEF i, k, row
  <2>2. r = NextColumn(x) + 2 + Len(NextText(x))
    <3>1. r = NextColumn(x) + 2 + Len(x.col) /\ Len(x.col) = Len(NextText(x))
       BY DEF InColumn
    <3> QED BY <3>1, Zenon
  <2>3. RowAt(x.q, i + 1) = RowAt(x.q, i) + ColumnAt(row, m)
    <3> HIDE DEF i, n
    <3> QED BY <1>3, <1>4, RowOf DEF n
  <2>4. y.q = x.q /\ Len(y.rows) = i + 1
    <3> HIDE DEF rows
    <3> QED BY <1>2, <1>10, Zenon
  <2> HIDE DEF i, k, row, m
  <2> QED BY <1>7, <2>1, <2>2, <2>3, <2>4, Zenon
<1>13. BeforeRow(y, r)
  <2> HIDE DEF rows
  <2> QED BY <1>2, <1>12, Zenon DEF BeforeRow
<1>14. HasRead(y, r) BY <1>11, <1>13, Zenon DEF HasRead
<1> QED BY <1>1, <1>3, <1>9, <1>14, Zenon

---------------------------------------------------------------------------
(* The session: both ends of an answer *)

\* What a client makes of the next character.
NextClient(x, ch, y) ==
    \/ x.pc \in {"ncol", "width"} /\ IsDigit(ch) /\ y = [x EXCEPT !.no = 10 * x.no + Value(ch)]
    \/ /\ x.pc = "ncol" /\ ~IsDigit(ch) /\ x.no > 0
       /\ y = [x EXCEPT !.pc = "width", !.need = x.no, !.no = 0, !.cols = <<>>, !.col = <<>>]
    \/ x.pc = "width" /\ ~IsDigit(ch) /\ y = [x EXCEPT !.pc = "data", !.col = <<>>]
    \/ x.pc = "data" /\ Len(x.col) < x.no /\ y = [x EXCEPT !.col = Append(x.col, ch)]

\* It goes on to know where it is.
LEMMA ReadsOn ==
    ASSUME NEW x \in Clients, x.q \in Queries, NEW r \in Nat, HasRead(x, r),
           NEW y, NextClient(x, Whole(x.q)[r + 1], y)
    PROVE  HasRead(y, r + 1)
<1> DEFINE ch == Whole(x.q)[r + 1]
<1>0. RowsRead(x) BY DEF HasRead
<1>1. ~IsDigit(" ") /\ ~IsDigit("nul") BY Digits
<1>2. CASE BeforeRow(x, r)
  <2>1. r \in Nat /\ IsDigit(ch) /\ \A z : z = [x EXCEPT !.no = 10 * x.no + Value(ch)] => HasRead(z, r + 1)
     BY <1>0, <1>2, NumberRead
  <2>2. x.pc = "ncol" BY <1>2 DEF BeforeRow
  <2> QED BY <2>1, <2>2 DEF NextClient
<1>3. CASE BehindNumber(x, r)
  <2>1. /\ ch = " " /\ x.no > 0
        /\ \A z : z = [x EXCEPT !.pc = "width", !.need = x.no, !.no = 0,
                                !.cols = <<>>, !.col = <<>>] => HasRead(z, r + 1)
     BY <1>0, <1>3, NumberEnds
  <2>2. x.pc = "ncol" BY <1>3 DEF BehindNumber
  <2> QED BY <1>1, <2>1, <2>2 DEF NextClient
<1>4. CASE BehindZero(x, r)
  <2>1. ch = "nul" /\ x.no = 0 BY <1>0, <1>4, AnswerEnds
  <2>2. x.pc = "ncol" BY <1>4 DEF BehindZero
  <2>3. ~IsDigit(ch) BY <1>1, <2>1, Zenon
  <2>4. ~(x.no > 0)
    <3>1. x.no = 0 BY <2>1
    <3> QED BY <3>1
  <2> HIDE DEF ch
  <2> QED BY <2>2, <2>3, <2>4 DEF NextClient, ch
<1>5. CASE ColumnsRead(x) /\ BeforeColumn(x, r)
  <2>1. IsDigit(ch) /\ \A z : z = [x EXCEPT !.no = 10 * x.no + Value(ch)] => HasRead(z, r + 1)
     BY <1>0, <1>5, WidthRead
  <2>2. x.pc = "width" BY <1>5 DEF BeforeColumn
  <2> QED BY <2>1, <2>2 DEF NextClient
<1>6. CASE ColumnsRead(x) /\ BehindWidth(x, r)
  <2>1. ch = " " /\ \A z : z = [x EXCEPT !.pc = "data", !.col = <<>>] => HasRead(z, r + 1)
     BY <1>0, <1>6, WidthEnds
  <2>2. x.pc = "width" BY <1>6 DEF BehindWidth
  <2> QED BY <1>1, <2>1, <2>2 DEF NextClient
<1>7. CASE ColumnsRead(x) /\ InColumn(x, r)
  <2>1. x.pc = "data" BY <1>7 DEF InColumn
  <2>2. Len(x.col) < x.no /\ y = [x EXCEPT !.col = Append(x.col, ch)] BY <2>1 DEF NextClient
  <2> QED BY <1>0, <1>7, <2>2, TextRead
<1> QED BY <1>2, <1>3, <1>4, <1>5, <1>6, <1>7 DEF HasRead

\* The end of an answer is not found before it is there.
LEMMA ReadsTheEnd ==
    ASSUME NEW x \in Clients, x.q \in Queries, NEW r \in Nat, HasRead(x, r),
           x.pc = "ncol", ~IsDigit(Whole(x.q)[r + 1]), ~(x.no > 0)
    PROVE  x.rows = TextRows(Answer[x.q]) /\ r + 1 = RowAt(x.q, Len(Answer[x.q])) + 2
<1>0. RowsRead(x) BY DEF HasRead
<1>1. ~BeforeRow(x, r)
  <2> SUFFICES ASSUME BeforeRow(x, r) PROVE IsDigit(Whole(x.q)[r + 1])
    OBVIOUS
  <2> QED BY <1>0, NumberRead
<1>2. ~BehindNumber(x, r)
  <2> SUFFICES ASSUME BehindNumber(x, r) PROVE x.no > 0
    OBVIOUS
  <2> QED BY <1>0, NumberEnds
<1>3. BehindZero(x, r)
   BY <1>1, <1>2 DEF HasRead, BeforeColumn, BehindWidth, InColumn
<1> QED BY <1>0, <1>3, AnswerEnds

\* The character that arrives is the next one of the answer.
LEMMA OneRead ==
    ASSUME NEW s, s.toClient \in Seq(Chars), s.toClient # <<>>, NEW t,
           t.toClient = Tail(s.toClient), NEW q, NEW r \in Nat, NEW p \in Nat,
           OnItsWay(s, q, r, p)
    PROVE  Head(s.toClient) = Whole(q)[r + 1] /\ OnItsWay(t, q, r + 1, p)
<1> DEFINE a == s.toClient
           b == t.toClient
           w == Whole(q)
<1>1. r + Len(a) = p /\ \A j \in 1 .. Len(a) : a[j] = w[r + j] BY DEF OnItsWay
<1>2. a \in Seq(Chars) /\ a # <<>> /\ b = Tail(a) OBVIOUS
<1> HIDE DEF a, b, w
<1>3. Len(a) \in Nat /\ Len(a) # 0 /\ Head(a) = a[1] BY <1>2, EmptySeq
<1>4. Len(b) = Len(a) - 1 /\ \A j \in 1 .. Len(b) : b[j] = a[j + 1] BY <1>2, <1>3
<1> DEFINE c == Len(a)
           d == Len(b)
<1>5. c \in Nat /\ c # 0 /\ d = c - 1 /\ r + c = p BY <1>1, <1>3, <1>4
<1> HIDE DEF c, d
<1>6. a[1] = w[r + 1]
  <2>1. 1 \in 1 .. c BY <1>5
  <2> QED BY <1>1, <2>1 DEF c
<1>7. ASSUME NEW j \in 1 .. d PROVE b[j] = w[r + 1 + j]
  <2>1. j + 1 \in 1 .. c /\ r + (j + 1) = r + 1 + j BY <1>5
  <2>2. a[j + 1] = w[r + (j + 1)] BY <1>1, <2>1, Zenon DEF c
  <2>3. b[j] = a[j + 1] BY <1>4 DEF d
  <2> QED BY <2>1, <2>2, <2>3
<1>8. r + 1 + d = p BY <1>5
<1>9. OnItsWay(t, q, r + 1, p) BY <1>7, <1>8, Zenon DEF OnItsWay, b, d, w
<1> QED BY <1>3, <1>6, <1>9, Zenon DEF a, w

\* More of the answer is written.
LEMMA MoreWritten ==
    ASSUME NEW s, s.toClient \in Seq(Chars), NEW chars \in Seq(Chars), NEW t,
           t.toClient = s.toClient \o chars, NEW q, NEW r \in Nat, NEW p \in Nat,
           OnItsWay(s, q, r, p), SaysAt(Whole(q), p, chars), NEW l, l = p + Len(chars)
    PROVE  OnItsWay(t, q, r, l)
<1> DEFINE a == s.toClient
           b == t.toClient
           w == Whole(q)
           c == Len(a)
           d == Len(chars)
<1>1. r + c = p /\ \A j \in 1 .. c : a[j] = w[r + j] BY DEF OnItsWay
<1>2. \A j \in 1 .. d : w[p + j] = chars[j] BY DEF SaysAt
<1>3. c \in Nat /\ d \in Nat BY LenProperties
<1>4. /\ Len(b) = c + d
      /\ \A j \in 1 .. c : b[j] = a[j]
      /\ \A j \in 1 .. d : b[c + j] = chars[j]
  <2>1. a \in Seq(Chars) /\ b = a \o chars OBVIOUS
  <2> HIDE DEF a, b
  <2> QED BY <2>1, BehindIs
<1>5. l = p + d OBVIOUS
<1> HIDE DEF a, b, w, c, d
<1>6. ASSUME NEW j \in 1 .. c + d PROVE b[j] = w[r + j]
  <2>1. CASE j <= c
    <3>1. j \in 1 .. c BY <1>3, <2>1
    <3> QED BY <1>1, <1>4, <3>1, Zenon
  <2>2. CASE ~(j <= c)
    <3> DEFINE e == j - c
    <3>1. e \in 1 .. d /\ c + e = j /\ p + e = r + j BY <1>1, <1>3, <2>2
    <3> HIDE DEF e
    <3>2. b[c + e] = chars[e] /\ w[p + e] = chars[e] BY <1>2, <1>4, <3>1, Zenon
    <3> QED BY <3>1, <3>2
  <2> QED BY <2>1, <2>2
<1>7. r + (c + d) = l
  <2>1. r + c = p /\ c \in Nat /\ d \in Nat /\ l = p + d BY <1>1, <1>3, <1>5, Zenon
  <2> QED BY <2>1
<1>8. \A j \in 1 .. Len(b) : b[j] = w[r + j] BY <1>4, <1>6, Zenon
<1>9. r + Len(b) = l BY <1>4, <1>7, Zenon
<1> QED BY <1>8, <1>9, Zenon DEF OnItsWay, b, w

\* A client that has read all that was sent knows it.
LEMMA UptoRead ==
    ASSUME NEW x \in Clients, x.q \in Queries, NEW s \in Children, s.toClient # <<>>,
           NEW p \in Nat, Upto(x, s, p), NEW t, t.toClient = Tail(s.toClient),
           NEW y, NextClient(x, Head(s.toClient), y)
    PROVE  y.q = x.q /\ y.rows = x.rows /\ y.sock = x.sock /\ y.pc \in Reading /\ Upto(y, t, p)
<1>1. PICK r \in Nat : HasRead(x, r) /\ OnItsWay(s, x.q, r, p) BY DEF Upto
<1>2. s.toClient \in Seq(Chars) BY DEF Children
<1>3. Head(s.toClient) = Whole(x.q)[r + 1] /\ OnItsWay(t, x.q, r + 1, p)
   BY <1>1, <1>2, OneRead
<1>4. HasRead(y, r + 1)
  <2>1. NextClient(x, Whole(x.q)[r + 1], y) BY <1>3
  <2> QED BY <1>1, <2>1, ReadsOn
<1>5. y.q = x.q /\ y.rows = x.rows /\ y.sock = x.sock /\ y.pc \in Reading
  <2> DEFINE v == 10 * x.no + Value(Head(s.toClient))
             a == Append(x.col, Head(s.toClient))
  <2>1. \/ y = [x EXCEPT !.no = v] /\ x.pc \in {"ncol", "width"}
        \/ y = [x EXCEPT !.pc = "width", !.need = x.no, !.no = 0, !.cols = <<>>, !.col = <<>>]
        \/ y = [x EXCEPT !.pc = "data", !.col = <<>>]
        \/ y = [x EXCEPT !.col = a] /\ x.pc = "data"
     BY DEF NextClient
  <2> HIDE DEF v, a
  <2> QED BY <2>1 DEF Clients, Reading
<1>6. r + 1 \in Nat OBVIOUS
<1>7. Upto(y, t, p) BY <1>3, <1>4, <1>5, <1>6, Zenon DEF Upto
<1> QED BY <1>5, <1>7, Zenon

\* A client that takes a character for the end of the answer has read all its rows.
LEMMA UptoTheEnd ==
    ASSUME NEW x \in Clients, x.q \in Queries, NEW s \in Children, s.toClient # <<>>,
           NEW p \in Nat, Upto(x, s, p), NEW t, t.toClient = Tail(s.toClient),
           x.pc = "ncol", ~IsDigit(Head(s.toClient)), ~(x.no > 0)
    PROVE  /\ x.rows = TextRows(Answer[x.q])
           /\ p >= RowAt(x.q, Len(Answer[x.q])) + 2
           /\ p = RowAt(x.q, Len(Answer[x.q])) + 2 => t.toClient = <<>>
<1> DEFINE e == RowAt(x.q, Len(Answer[x.q]))
<1>1. PICK r \in Nat : HasRead(x, r) /\ OnItsWay(s, x.q, r, p) BY DEF Upto
<1>2. s.toClient \in Seq(Chars) BY DEF Children
<1>3. Head(s.toClient) = Whole(x.q)[r + 1] /\ OnItsWay(t, x.q, r + 1, p)
   BY <1>1, <1>2, OneRead
<1>4. x.rows = TextRows(Answer[x.q]) /\ r + 1 = e + 2
  <2>1. ~IsDigit(Whole(x.q)[r + 1]) BY <1>3
  <2> QED BY <1>1, <2>1, ReadsTheEnd
<1>5. t.toClient \in Seq(Chars) BY <1>2, HeadTailProperties
<1> DEFINE n == Len(t.toClient)
<1>6. n \in Nat BY <1>5, LenProperties
<1>7. r + 1 + n = p BY <1>3 DEF OnItsWay
<1>8. n = 0 => t.toClient = <<>> BY <1>5, EmptySeq
<1> HIDE DEF e, n
<1>9. p >= e + 2 /\ (p = e + 2 => n = 0)
  <2>1. r \in Nat /\ n \in Nat /\ r + 1 = e + 2 /\ r + 1 + n = p BY <1>4, <1>6, <1>7
  <2>2. e + 2 + n = p /\ e + 2 = r + 1 BY <2>1
  <2> QED BY <2>1, <2>2
<1> QED BY <1>4, <1>8, <1>9 DEF e

\* A client that has read all of a column has read as far as before when it takes it.
LEMMA UptoTaken ==
    ASSUME NEW x \in Clients, x.q \in Queries, NEW s, NEW p, Upto(x, s, p),
           x.pc = "data", Len(x.col) = x.no, NEW cols, cols = Append(x.cols, x.col)
    PROVE  /\ \A y : Len(cols) # x.need /\ y = [x EXCEPT !.pc = "width", !.no = 0,
                                                         !.cols = cols, !.col = <<>>]
                        => Upto(y, s, p)
           /\ Len(cols) = x.need =>
                /\ Len(x.rows) < Len(Answer[x.q])
                /\ cols = TextRows(Answer[x.q])[Len(x.rows) + 1]
                /\ \A y : y = [x EXCEPT !.pc = "ncol", !.no = 0, !.need = 0, !.cols = <<>>,
                                        !.col = <<>>, !.rows = Append(x.rows, cols)]
                             => Upto(y, s, p)
<1>1. PICK r \in Nat : HasRead(x, r) /\ OnItsWay(s, x.q, r, p) BY DEF Upto
<1>2. RowsRead(x) /\ ColumnsRead(x) /\ InColumn(x, r)
   BY <1>1 DEF HasRead, BeforeRow, BehindNumber, BehindZero, BeforeColumn, BehindWidth
<1>3. ASSUME Len(cols) # x.need, NEW y,
             y = [x EXCEPT !.pc = "width", !.no = 0, !.cols = cols, !.col = <<>>]
      PROVE  Upto(y, s, p)
  <2>1. HasRead(y, r) BY <1>2, <1>3, ColumnTaken
  <2>2. y.q = x.q BY <1>3 DEF Clients
  <2> QED BY <1>1, <2>1, <2>2, Zenon DEF Upto
<1>4. ASSUME Len(cols) = x.need, NEW y,
             y = [x EXCEPT !.pc = "ncol", !.no = 0, !.need = 0, !.cols = <<>>,
                           !.col = <<>>, !.rows = Append(x.rows, cols)]
      PROVE  /\ Len(x.rows) < Len(Answer[x.q])
             /\ cols = TextRows(Answer[x.q])[Len(x.rows) + 1]
             /\ Upto(y, s, p)
  <2>1. /\ HasRead(y, r)
        /\ Len(x.rows) < Len(Answer[x.q])
        /\ cols = TextRows(Answer[x.q])[Len(x.rows) + 1]
     BY <1>2, <1>4, RowTaken
  <2>2. y.q = x.q
    <3> DEFINE rows == Append(x.rows, cols)
    <3> HIDE DEF rows
    <3>1. y = [x EXCEPT !.pc = "ncol", !.no = 0, !.need = 0, !.cols = <<>>,
                        !.col = <<>>, !.rows = rows]
       BY <1>4 DEF rows
    <3> QED BY <3>1 DEF Clients
  <2>3. Upto(y, s, p) BY <1>1, <2>1, <2>2, Zenon DEF Upto
  <2> QED BY <2>1, <2>3, Zenon
<1> QED BY <1>3, <1>4

---------------------------------------------------------------------------
(* The session: the steps of a child that its client has not left *)

\* A request is read as it was sent, and not one of them is empty.
WholeRequests == ~Segmented /\ EmptyQuery \notin Words

\* One read() of the server returns the request that was sent, and all of it.
LEMMA RequestIs ==
    ASSUME WholeRequests, NEW s \in Children, NEW m \in Words, s.toServer = Pieces(m),
           NEW r \in Requests(s)
    PROVE  r.m = m /\ r.after = [s EXCEPT !.toServer = <<>>]
<1> DEFINE X == [of : Words, part : 1 .. 2]
           a == [of |-> m, part |-> 1]
           z == [of |-> m, part |-> 2]
           p == s.toServer
<1>1. m # EmptyQuery /\ ~Segmented BY DEF WholeRequests
<1>2. p = <<a, z>> BY <1>1 DEF Pieces
<1>3. a \in X /\ z \in X OBVIOUS
<1>4. p \in Seq(X) /\ Len(p) = 2 /\ p[1] = a
  <2> HIDE DEF X, a, z
  <2>1. <<a, z>> \in Seq(X) /\ Len(<<a, z>>) = 2 /\ <<a, z>>[1] = a BY <1>3, PairIs
  <2> QED BY <1>2, <2>1
<1>5. p # <<>>
  <2>1. Len(<<>>) = 0 OBVIOUS
  <2>2. Len(p) # 0 BY <1>4
  <2> QED BY <2>1, <2>2
<1>6. r = [m |-> Understood(SubSeq(p, 1, Len(p))),
           after |-> [s EXCEPT !.toServer = SubSeq(p, Len(p) + 1, Len(p))]]
   BY <1>1, <1>5 DEF Requests
<1>7. SubSeq(p, 1, Len(p)) = p /\ SubSeq(p, Len(p) + 1, Len(p)) = <<>>
  <2>1. p \in Seq(X) BY <1>4
  <2> HIDE DEF p, X
  <2> QED BY <2>1
<1>8. Understood(p) = m
  <2>1. p[1].of = m BY <1>4
  <2>2. p = Pieces(p[1].of) BY <2>1
  <2> HIDE DEF p
  <2> QED BY <1>5, <2>1, <2>2 DEF Understood
<1>9. r = [m |-> Understood(p), after |-> [s EXCEPT !.toServer = <<>>]]
   BY <1>6, <1>7, Zenon
<1> HIDE DEF p
<1> QED BY <1>8, <1>9

\* With no request underway and the client there, read() waits.
LEMMA NoRequest ==
    ASSUME NEW s, s.toServer = <<>>, s.open
    PROVE  Requests(s) = {}
BY DEF Requests

\* What a live child writes arrives.
GoesOn(s, chars, pc, t) ==
    /\ Live(t) /\ t.pc = pc /\ t.toClient = s.toClient \o chars
    /\ t.toServer = s.toServer /\ t.u = s.u /\ t.persist = s.persist
    /\ t.todo = s.todo /\ t.ok = s.ok

\* The characters that a live child writes are appended to its stream.
LEMMA WrittenAlive ==
    ASSUME NEW s \in Children, Live(s), NEW chars, NEW pc, NEW t, t = Written(s, chars, pc)
    PROVE  GoesOn(s, chars, pc, t)
<1>1. s.open /\ ~s.doomed /\ ~s.rst BY DEF Live
<1> DEFINE a == s.toClient \o chars
<1>2. t = [s EXCEPT !.toClient = a, !.pc = pc] BY <1>1 DEF Written
<1> HIDE DEF a
<1>3. /\ t.open = s.open /\ t.doomed = s.doomed /\ t.rst = s.rst /\ t.pc = pc /\ t.toClient = a
      /\ t.toServer = s.toServer /\ t.u = s.u /\ t.persist = s.persist
      /\ t.todo = s.todo /\ t.ok = s.ok
   BY <1>2 DEF Children
<1> QED BY <1>1, <1>3, Zenon DEF GoesOn, Live, a

\* What a live child does, by what it was at.
LEMMA UrlServed ==
    ASSUME SessionTypes, WholeRequests, NEW c \in Conns, NEW m \in Words,
           Live(conn[c]), conn[c].toServer = Pieces(m), ServeUrl(c)
    PROVE  /\ Live(conn'[c]) /\ conn'[c].toServer = <<>>
           /\ conn'[c].toClient = conn[c].toClient \o <<" ">>
           /\ conn'[c].pc = (IF m = OpenRequest THEN "openUrl" ELSE "query")
           /\ conn'[c].u = m /\ conn'[c].persist = conn[c].persist
<1> DEFINE s == conn[c]
           d == [[s EXCEPT !.toServer = <<>>] EXCEPT !.u = m]
           pc == IF m = OpenRequest THEN "openUrl" ELSE "query"
<1>0. s \in Children /\ conn \in [Conns -> Children] BY DEF SessionTypes
<1>1. PICK r \in Requests(s) :
          conn' = [conn EXCEPT ![c] =
                     Written([r.after EXCEPT !.u = r.m], <<" ">>,
                             IF r.m = OpenRequest THEN "openUrl" ELSE "query")]
   BY DEF ServeUrl
<1>2. r.m = m /\ r.after = [s EXCEPT !.toServer = <<>>] BY <1>0, RequestIs
<1>3. conn'[c] = Written(d, <<" ">>, pc) BY <1>0, <1>1, <1>2
<1>4. s.open /\ ~s.doomed /\ ~s.rst BY DEF Live
<1>5. <<>> \in Seq([of : Words, part : 1 .. 2]) OBVIOUS
<1> HIDE DEF s, pc
<1>6. /\ d \in Children
      /\ d.open = s.open /\ d.doomed = s.doomed /\ d.rst = s.rst
      /\ d.toClient = s.toClient /\ d.toServer = <<>> /\ d.u = m /\ d.persist = s.persist
   BY <1>0, <1>5 DEF Children
<1> HIDE DEF d
<1>7. Live(d) BY <1>4, <1>6 DEF Live
<1> DEFINE t == conn'[c]
<1>8. /\ Live(t) /\ t.pc = pc /\ t.toClient = d.toClient \o <<" ">>
      /\ t.toServer = d.toServer /\ t.u = d.u /\ t.persist = d.persist
  <2>1. t = Written(d, <<" ">>, pc) BY <1>3
  <2> HIDE DEF t
  <2>2. GoesOn(d, <<" ">>, pc, t) BY <1>6, <1>7, <2>1, WrittenAlive
  <2> QED BY <2>2, Zenon DEF GoesOn
<1> QED BY <1>6, <1>8, Zenon DEF s, pc

\* The child that is to open a database says whether it has.
LEMMA OpenServed ==
    ASSUME SessionTypes, WholeRequests, NEW c \in Conns,
           Live(conn[c]), conn[c].toServer = Pieces(Url), ServeOpen(c)
    PROVE  /\ Live(conn'[c]) /\ conn'[c].toServer = <<>>
           /\ \/ conn'[c].toClient = conn[c].toClient \o <<"+", "0">>
              \/ conn'[c].toClient = conn[c].toClient \o TheEnd
           /\ conn'[c].pc = "query" /\ conn'[c].u = Url /\ conn'[c].persist
<1> DEFINE s == conn[c]
<1>0. s \in Children /\ conn \in [Conns -> Children] BY DEF SessionTypes
<1>1. PICK r \in Requests(s) :
          \E ok \in IF r.m = Url THEN ServerOpens ELSE {FALSE} :
             conn' = [conn EXCEPT ![c] =
                        Written([r.after EXCEPT !.u = r.m, !.persist = TRUE, !.db = ok],
                                IF ok THEN <<"+", "0">> ELSE TheEnd, "query")]
   BY DEF ServeOpen
<1>2. Url \in Words BY DEF Words
<1>3. r.m = Url /\ r.after = [s EXCEPT !.toServer = <<>>] BY <1>0, <1>2, RequestIs
<1>4. PICK ok \in BOOLEAN :
          conn' = [conn EXCEPT ![c] =
                     Written([r.after EXCEPT !.u = r.m, !.persist = TRUE, !.db = ok],
                             IF ok THEN <<"+", "0">> ELSE TheEnd, "query")]
   BY <1>1, SessionAssumption DEF SessionAssumption
<1> DEFINE d == [[s EXCEPT !.toServer = <<>>] EXCEPT !.u = Url, !.persist = TRUE, !.db = ok]
           chars == IF ok THEN <<"+", "0">> ELSE TheEnd
<1>5. conn'[c] = Written(d, chars, "query") BY <1>0, <1>3, <1>4
<1>6. s.open /\ ~s.doomed /\ ~s.rst BY DEF Live
<1>7. <<>> \in Seq([of : Words, part : 1 .. 2]) OBVIOUS
<1>8. chars \in {<<"+", "0">>, TheEnd} OBVIOUS
<1> HIDE DEF s, chars
<1>9. /\ d \in Children
      /\ d.open = s.open /\ d.doomed = s.doomed /\ d.rst = s.rst
      /\ d.toClient = s.toClient /\ d.toServer = <<>> /\ d.u = Url /\ d.persist = TRUE
   BY <1>0, <1>2, <1>7 DEF Children
<1> HIDE DEF d
<1>10. Live(d) BY <1>6, <1>9 DEF Live
<1> DEFINE t == conn'[c]
<1>11. /\ Live(t) /\ t.pc = "query" /\ t.toClient = d.toClient \o chars
       /\ t.toServer = d.toServer /\ t.u = d.u /\ t.persist = d.persist
  <2>1. t = Written(d, chars, "query") BY <1>5
  <2> HIDE DEF t
  <2>2. GoesOn(d, chars, "query", t) BY <1>9, <1>10, <2>1, WrittenAlive
  <2> QED BY <2>2, Zenon DEF GoesOn
<1>12. t.toClient = s.toClient \o chars /\ t.toServer = <<>> /\ t.u = Url /\ t.persist
   BY <1>9, <1>11, Zenon
<1> QED BY <1>8, <1>11, <1>12, Zenon DEF s

\* The child that reads a query has all of its answer to tell.
LEMMA QueryServed ==
    ASSUME SessionTypes, WholeRequests, NEW c \in Conns, NEW q \in Queries,
           Live(conn[c]), conn[c].toServer = Pieces(q), conn[c].u = Url, ServeQuery(c)
    PROVE  /\ Live(conn'[c]) /\ conn'[c].toServer = <<>>
           /\ conn'[c].toClient = conn[c].toClient
           /\ conn'[c].pc = "rows" /\ conn'[c].todo = Answer[q]
           /\ conn'[c].u = Url /\ conn'[c].persist = conn[c].persist
<1> DEFINE s == conn[c]
<1>0. s \in Children /\ conn \in [Conns -> Children] BY DEF SessionTypes
<1>1. PICK r \in Requests(s) :
          \E o \in Outcomes(s.u, r.m) :
             conn' = [conn EXCEPT ![c] =
                        [r.after EXCEPT !.pc = "rows", !.todo = o.rows, !.ok = o.ok]]
   BY DEF ServeQuery
<1>2. q \in Words BY DEF Words
<1>3. r.m = q /\ r.after = [s EXCEPT !.toServer = <<>>] BY <1>0, <1>2, RequestIs
<1>4. PICK o \in Outcomes(Url, q) :
          conn' = [conn EXCEPT ![c] =
                     [r.after EXCEPT !.pc = "rows", !.todo = o.rows, !.ok = o.ok]]
   BY <1>1, <1>3
<1>5. o.rows = Answer[q]
  <2>1. q \in Failing => Answer[q] = <<>> BY SessionAssumption DEF SessionAssumption
  <2> QED BY <2>1 DEF Outcomes
<1> DEFINE a == o.ok
           b == Answer[q]
<1>6. conn'[c] = [[s EXCEPT !.toServer = <<>>] EXCEPT !.pc = "rows", !.todo = b, !.ok = a]
   BY <1>0, <1>3, <1>4, <1>5
<1>7. s.open /\ ~s.doomed /\ ~s.rst /\ s.u = Url BY DEF Live
<1> DEFINE t == conn'[c]
<1> HIDE DEF s, a, b
<1>8. /\ t.open = s.open /\ t.doomed = s.doomed /\ t.rst = s.rst
      /\ t.toClient = s.toClient /\ t.toServer = <<>> /\ t.u = s.u /\ t.persist = s.persist
      /\ t.pc = "rows" /\ t.todo = b
   BY <1>0, <1>6 DEF Children
<1> HIDE DEF t
<1>9. Live(t) /\ t.u = Url BY <1>7, <1>8 DEF Live
<1> QED BY <1>8, <1>9, Zenon DEF s, t, b

\* The callback of the server writes the next row, and no other.
LEMMA RowServed ==
    ASSUME SessionTypes, NEW c \in Conns, Live(conn[c]), ServeRow(c)
    PROVE  /\ Live(conn'[c]) /\ conn'[c].toServer = conn[c].toServer
           /\ conn[c].todo # <<>> /\ conn'[c].todo = Tail(conn[c].todo)
           /\ conn'[c].toClient = conn[c].toClient \o RowChars(Head(conn[c].todo))
           /\ conn'[c].pc = "rows" /\ conn'[c].u = conn[c].u
           /\ conn'[c].persist = conn[c].persist
<1> DEFINE s == conn[c]
           a == Tail(s.todo)
           chars == RowChars(Head(s.todo))
           d == [s EXCEPT !.todo = a]
<1>0. s \in Children /\ conn \in [Conns -> Children] BY DEF SessionTypes
<1>1. conn'[c] = Written(d, chars, "rows") /\ s.todo # <<>> BY <1>0 DEF ServeRow
<1>2. s.open /\ ~s.doomed /\ ~s.rst BY DEF Live
<1>3. a \in Seq(FramedRows)
  <2>1. s.todo \in Seq(FramedRows) BY <1>0 DEF Children
  <2> QED BY <1>1, <2>1, HeadTailProperties
<1> HIDE DEF s, a, chars
<1>4. /\ d \in Children
      /\ d.open = s.open /\ d.doomed = s.doomed /\ d.rst = s.rst /\ d.toClient = s.toClient
      /\ d.toServer = s.toServer /\ d.u = s.u /\ d.persist = s.persist /\ d.todo = a
   BY <1>0, <1>3 DEF Children
<1> HIDE DEF d
<1>5. Live(d) BY <1>2, <1>4 DEF Live
<1> DEFINE t == conn'[c]
<1>6. /\ Live(t) /\ t.pc = "rows" /\ t.toClient = d.toClient \o chars
      /\ t.toServer = d.toServer /\ t.u = d.u /\ t.persist = d.persist /\ t.todo = d.todo
  <2>1. t = Written(d, chars, "rows") BY <1>1
  <2> HIDE DEF t
  <2>2. GoesOn(d, chars, "rows", t) BY <1>4, <1>5, <2>1, WrittenAlive
  <2> QED BY <2>2, Zenon DEF GoesOn
<1> QED BY <1>1, <1>4, <1>6, Zenon DEF s, a, chars

\* The end is written behind the last row.
LEMMA EndServed ==
    ASSUME SessionTypes, NEW c \in Conns, Live(conn[c]), ServeEnd(c)
    PROVE  /\ Live(conn'[c]) /\ conn'[c].toServer = conn[c].toServer
           /\ conn[c].todo = <<>>
           /\ conn'[c].toClient = conn[c].toClient \o TheEnd
           /\ conn'[c].u = conn[c].u /\ conn'[c].persist = conn[c].persist
           /\ \/ conn'[c].pc = "query" /\ conn[c].persist
              \/ conn'[c].pc = "ending" /\ (conn[c].persist => ~conn'[c].ok)
<1> DEFINE s == conn[c]
           pc == IF s.persist /\ s.ok THEN "query" ELSE "ending"
<1>0. s \in Children /\ conn \in [Conns -> Children] BY DEF SessionTypes
<1>1. conn'[c] = Written(s, TheEnd, pc) /\ s.todo = <<>> BY <1>0 DEF ServeEnd
<1>2. (pc = "query" /\ s.persist) \/ (pc = "ending" /\ (s.persist => ~s.ok))
  <2> DEFINE a == s.persist
             b == s.ok
  <2>1. pc = IF a /\ b THEN "query" ELSE "ending" OBVIOUS
  <2>2. a \in BOOLEAN /\ b \in BOOLEAN BY <1>0 DEF Children
  <2> HIDE DEF a, b, pc
  <2>3. (pc = "query" /\ a) \/ (pc = "ending" /\ (a => ~b)) BY <2>1, <2>2
  <2> QED BY <2>3 DEF a, b
<1> DEFINE t == conn'[c]
<1> HIDE DEF pc
<1>3. /\ Live(t) /\ t.pc = pc /\ t.toClient = s.toClient \o TheEnd
      /\ t.toServer = s.toServer /\ t.u = s.u /\ t.persist = s.persist /\ t.ok = s.ok
  <2>1. Live(s) /\ t = Written(s, TheEnd, pc) BY <1>1
  <2> HIDE DEF s, t
  <2>2. GoesOn(s, TheEnd, pc, t) BY <1>0, <2>1, WrittenAlive
  <2> QED BY <2>2, Zenon DEF GoesOn
<1> HIDE DEF s, t
<1>4. (t.pc = "query" /\ s.persist) \/ (t.pc = "ending" /\ (s.persist => ~t.ok))
   BY <1>2, <1>3
<1> QED BY <1>1, <1>3, <1>4, Zenon DEF s, t

\* A child that ends leaves what it has written; the connection is aborted when it has
\* not read all that was sent.
LEMMA ChildEnded ==
    ASSUME SessionTypes, NEW c \in Conns, Live(conn[c]), ChildEnds(c)
    PROVE  /\ Live(conn'[c]) /\ conn'[c].toServer = <<>>
           /\ conn'[c].toClient = conn[c].toClient /\ conn'[c].ok = conn[c].ok
           /\ conn'[c].pc \in {"exited", "crashed", "aborted"}
           /\ conn[c].toServer = <<>> => conn'[c].pc \in {"exited", "crashed"}
<1> DEFINE s == conn[c]
           e == Exited(s)
           t == conn'[c]
<1>0. s \in Children /\ conn \in [Conns -> Children] BY DEF SessionTypes
<1>1. t = [e EXCEPT !.pc = "crashed"] \/ t = e BY <1>0 DEF ChildEnds
<1>2. s.open /\ ~s.doomed /\ ~s.rst BY DEF Live
<1>3. /\ e \in Children
      /\ e.pc = (IF s.toServer = <<>> THEN "exited" ELSE "aborted")
      /\ e.toServer = <<>> /\ e.toClient = s.toClient
      /\ e.open = s.open /\ e.ok = s.ok /\ e.doomed = FALSE /\ e.rst = FALSE
  <2> HIDE DEF s
  <2> QED BY <1>0, ExitedIs
<1> HIDE DEF s, e, t
<1>4. /\ t.pc = "crashed" \/ t.pc = e.pc
      /\ t.toServer = e.toServer /\ t.toClient = e.toClient /\ t.open = e.open /\ t.ok = e.ok
      /\ t.doomed = e.doomed /\ t.rst = e.rst
   BY <1>1, <1>3 DEF Children
<1>5. Live(t) BY <1>2, <1>3, <1>4 DEF Live
<1>6. t.pc \in {"exited", "crashed", "aborted"} /\ (s.toServer = <<>> => t.pc \in {"exited", "crashed"})
   BY <1>3, <1>4
<1> QED BY <1>3, <1>4, <1>5, <1>6, Zenon DEF s, t

\* Whatever is sent first is all that is there.
LEMMA NothingBefore ==
    ASSUME NEW X, NEW s \in Seq(X)
    PROVE  <<>> \o s = s
OBVIOUS

\* What the child writes at the beginning and at the end of a session.
LEMMA ShortAnswers ==
    /\ <<" ">> \in Seq(Chars) /\ <<"+", "0">> \in Seq(Chars) /\ TheEnd \in Seq(Chars)
    /\ <<>> \o <<" ">> = <<" ">> /\ <<>> \o <<"+", "0">> = <<"+", "0">>
    /\ <<>> \o TheEnd = TheEnd
    /\ Len(TheEnd) = 2 /\ TheEnd[1] = "0" /\ TheEnd[2] = "nul"
<1>1. " " \in Chars /\ "+" \in Chars /\ "nul" \in Chars /\ "0" \in Chars BY Digits
<1>2. <<" ">> \in Seq(Chars) /\ <<"+", "0">> \in Seq(Chars) /\ <<"0", "nul">> \in Seq(Chars)
   BY <1>1, OneIs, PairIs
<1>3. Len(<<"0", "nul">>) = 2 /\ <<"0", "nul">>[1] = "0" /\ <<"0", "nul">>[2] = "nul"
   OBVIOUS
<1> QED BY <1>2, <1>3, NothingBefore DEF TheEnd

\* A live child takes no step that its client has not left it.
LEMMA ChildGoesOn ==
    ASSUME NEW c \in Conns, Live(conn[c]), Child(c) \/ ResetArrives(c)
    PROVE  \/ ServeUrl(c) /\ conn[c].pc = "url" /\ conn[c].toServer # <<>>
           \/ ServeOpen(c) /\ conn[c].pc = "openUrl" /\ conn[c].toServer # <<>>
           \/ ServeQuery(c) /\ conn[c].pc = "query" /\ conn[c].toServer # <<>>
           \/ ServeRow(c) /\ conn[c].pc = "rows"
           \/ ServeEnd(c) /\ conn[c].pc = "rows"
           \/ ChildEnds(c) /\ conn[c].pc = "ending"
<1>1. conn[c].open /\ ~conn[c].doomed /\ ~conn[c].rst BY DEF Live
<1>2. conn[c].toServer = <<>> => Requests(conn[c]) = {} BY <1>1, NoRequest
<1>3. CASE ServeUrl(c)
   BY <1>2, <1>3 DEF ServeUrl
<1>4. CASE ServeOpen(c)
   BY <1>2, <1>4 DEF ServeOpen
<1>5. CASE ServeQuery(c)
   BY <1>2, <1>5 DEF ServeQuery
<1>6. ~ReadFails(c) BY <1>1 DEF ReadFails
<1>7. ~ResetArrives(c) BY <1>1 DEF ResetArrives
<1>8. CASE ServeRow(c) BY <1>8 DEF ServeRow
<1>9. CASE ServeEnd(c) BY <1>9 DEF ServeEnd
<1>10. CASE ChildEnds(c) BY <1>10 DEF ChildEnds
<1> QED BY <1>3, <1>4, <1>5, <1>6, <1>7, <1>8, <1>9, <1>10 DEF Child

\* A request that has been sent is there to be read.
LEMMA PiecesThere ==
    ASSUME WholeRequests, NEW m \in Words
    PROVE  Pieces(m) # <<>>
<1>1. m # EmptyQuery BY DEF WholeRequests
<1> QED BY <1>1 DEF Pieces

\* A connection between two calls stays so, whatever its child does.
LEMMA RestingOn ==
    ASSUME SessionTypes, NEW c \in Conns, Live(conn[c]), Resting(conn[c]),
           Child(c) \/ ResetArrives(c)
    PROVE  Live(conn'[c]) /\ Resting(conn'[c])
<1>1. /\ conn[c].toServer = <<>> /\ conn[c].toClient = <<>>
      /\ \/ conn[c].pc = "query"
         \/ conn[c].pc \in Over \cup {"ending"} /\ ~conn[c].ok
   BY DEF Resting, Answered
<1>2. ChildEnds(c) /\ conn[c].pc = "ending" /\ ~conn[c].ok
   BY <1>1, ChildGoesOn DEF Over
<1>3. /\ Live(conn'[c]) /\ conn'[c].toServer = <<>> /\ conn'[c].toClient = conn[c].toClient
      /\ conn'[c].ok = conn[c].ok /\ conn'[c].pc \in {"exited", "crashed"}
   BY <1>1, <1>2, ChildEnded
<1>4. conn'[c].toServer = <<>> /\ conn'[c].toClient = <<>> /\ ~conn'[c].ok
   BY <1>1, <1>2, <1>3
<1> QED BY <1>3, <1>4 DEF Resting, Answered, Over

\* The child answers a url with a space, once.
LEMMA GreetingOn ==
    ASSUME SessionTypes, WholeRequests, NEW c \in Conns, Live(conn[c]), Greeting(conn[c]),
           Child(c) \/ ResetArrives(c)
    PROVE  Live(conn'[c]) /\ Greeting(conn'[c])
<1>1. Url \in Words BY DEF Words
<1>2. conn[c].pc = "url" /\ Asked(conn[c], Url) /\ ~conn[c].persist /\ ServeUrl(c)
   BY ChildGoesOn DEF Greeting, Answered
<1>3. conn[c].toServer = Pieces(Url) /\ conn[c].toClient = <<>> BY <1>2 DEF Asked
<1>4. /\ Live(conn'[c]) /\ conn'[c].toServer = <<>>
      /\ conn'[c].toClient = conn[c].toClient \o <<" ">>
      /\ conn'[c].pc = (IF Url = OpenRequest THEN "openUrl" ELSE "query")
      /\ conn'[c].u = Url /\ conn'[c].persist = conn[c].persist
   BY <1>1, <1>2, <1>3, UrlServed
<1>5. conn'[c].pc = "query" BY <1>4 DEF Url, OpenRequest
<1>6. conn'[c].toClient = <<" ">> /\ ~conn'[c].persist BY <1>2, <1>3, <1>4, ShortAnswers, Zenon
<1> QED BY <1>4, <1>5, <1>6 DEF Greeting, Answered

\* The child answers "sdb_open" with a space, once.
LEMMA OpenGreetingOn ==
    ASSUME SessionTypes, WholeRequests, NEW c \in Conns, Live(conn[c]),
           OpenGreeting(conn[c]), Child(c) \/ ResetArrives(c)
    PROVE  Live(conn'[c]) /\ OpenGreeting(conn'[c])
<1>1. OpenRequest \in Words BY DEF Words
<1>2. conn[c].pc = "url" /\ Asked(conn[c], OpenRequest) /\ ServeUrl(c)
   BY ChildGoesOn DEF OpenGreeting, Answered
<1>3. conn[c].toServer = Pieces(OpenRequest) /\ conn[c].toClient = <<>> BY <1>2 DEF Asked
<1>4. /\ Live(conn'[c]) /\ conn'[c].toServer = <<>>
      /\ conn'[c].toClient = conn[c].toClient \o <<" ">>
      /\ conn'[c].pc = (IF OpenRequest = OpenRequest THEN "openUrl" ELSE "query")
   BY <1>1, <1>2, <1>3, UrlServed
<1>5. conn'[c].toClient = <<" ">> BY <1>3, <1>4, ShortAnswers, Zenon
<1>6. conn'[c].pc = "openUrl" BY <1>4, Zenon
<1> QED BY <1>4, <1>5, <1>6 DEF OpenGreeting, Answered

\* The child answers the url behind "sdb_open" with one of two answers, once.
LEMMA OpenAnsweringOn ==
    ASSUME SessionTypes, WholeRequests, NEW c \in Conns, Live(conn[c]),
           OpenAnswering(conn[c]), Child(c) \/ ResetArrives(c)
    PROVE  Live(conn'[c]) /\ OpenAnswering(conn'[c])
<1>1. Url \in Words BY DEF Words
<1>2. conn[c].pc = "openUrl" /\ Asked(conn[c], Url) /\ ServeOpen(c)
   BY ChildGoesOn DEF OpenAnswering, Answered
<1>3. conn[c].toServer = Pieces(Url) /\ conn[c].toClient = <<>> BY <1>2 DEF Asked
<1>4. /\ Live(conn'[c]) /\ conn'[c].toServer = <<>>
      /\ \/ conn'[c].toClient = conn[c].toClient \o <<"+", "0">>
         \/ conn'[c].toClient = conn[c].toClient \o TheEnd
      /\ conn'[c].pc = "query" /\ conn'[c].u = Url /\ conn'[c].persist
   BY <1>2, <1>3, OpenServed
<1>5. conn'[c].toClient = <<"+", "0">> \/ conn'[c].toClient = TheEnd
   BY <1>3, <1>4, ShortAnswers, Zenon
<1> QED BY <1>4, <1>5 DEF OpenAnswering, Answered

\* A child that has said that it is connected waits for a query.
LEMMA OpenAnsweredStays ==
    ASSUME NEW c \in Conns, Live(conn[c]), OpenAnswered(conn[c]), Child(c) \/ ResetArrives(c)
    PROVE  FALSE
BY ChildGoesOn DEF OpenAnswered, Answered

\* A child that has been sent a query reads it, or does nothing.
LEMMA WaitsOn ==
    ASSUME SessionTypes, WholeRequests, NEW c \in Conns, Live(conn[c]), NEW kept \in BOOLEAN,
           NEW x \in Clients, x.q \in Queries, Waits(x, conn[c], kept), Child(c) \/ ResetArrives(c)
    PROVE  Live(conn'[c]) /\ Tells(x, conn'[c], kept)
<1> DEFINE q == x.q
           n == Len(Answer[q])
           t == conn'[c]
<1>1. ServeQuery(c)
   BY ChildGoesOn DEF Waits
<1>2. /\ conn[c].toServer = Pieces(q) /\ conn[c].toClient = <<>> /\ conn[c].u = Url
      /\ conn[c].persist <=> kept
      /\ x.pc = "ncol" /\ x.rows = <<>> /\ x.no = 0
   BY DEF Waits, Asked
<1>3. /\ Live(t) /\ t.toServer = <<>> /\ t.toClient = conn[c].toClient
      /\ t.pc = "rows" /\ t.todo = Answer[q] /\ t.u = Url /\ t.persist = conn[c].persist
   BY <1>1, <1>2, QueryServed
<1>4. t.toClient = <<>> /\ (t.persist <=> kept) BY <1>2, <1>3
<1>5. n \in Nat
  <2>1. Answer[q] \in Seq(Rows) BY RowsAre
  <2> QED BY <2>1, LenProperties
<1>6. Len(x.rows) = 0 BY <1>2
<1>7. RowsRead(x)
  <2>1. 0 <= n /\ \A j \in 1 .. 0 : x.rows[j] = TextRows(Answer[x.q])[j] BY <1>5
  <2> HIDE DEF q
  <2> QED BY <1>6, <2>1 DEF RowsRead, q
<1>8. RowAt(q, 0) = 0 BY AnswerBegins
<1>9. HasRead(x, 0)
  <2>1. BeforeRow(x, 0) BY <1>2, <1>6, <1>8 DEF BeforeRow
  <2> QED BY <1>7, <2>1, Zenon DEF HasRead
<1> HIDE DEF t
<1>10. OnItsWay(t, q, 0, 0)
  <2>1. Len(t.toClient) = 0 BY <1>4
  <2>2. \A j \in 1 .. 0 : t.toClient[j] = Whole(q)[0 + j] OBVIOUS
  <2>3. 0 + 0 = 0 OBVIOUS
  <2> QED BY <2>1, <2>2, <2>3, Zenon DEF OnItsWay
<1>11. Upto(x, t, 0)
  <2>1. 0 \in Nat OBVIOUS
  <2> QED BY <1>9, <1>10, <2>1, Zenon DEF Upto
<1>12. /\ Len(t.todo) <= n
       /\ \A j \in 1 .. Len(t.todo) : t.todo[j] = Answer[q][n - Len(t.todo) + j]
       /\ n - Len(t.todo) = 0
  <2> DEFINE a == Answer[q]
  <2>1. t.todo = a BY <1>3
  <2> HIDE DEF a
  <2>2. n = Len(a) BY DEF a
  <2> HIDE DEF n
  <2>3. n <= n /\ n - n = 0 /\ \A j \in 1 .. n : n - n + j = j BY <1>5
  <2>4. \A j \in 1 .. n : t.todo[j] = a[n - n + j] BY <2>1, <2>3
  <2> QED BY <2>1, <2>2, <2>3, <2>4 DEF a
<1>13. Upto(x, t, RowAt(q, n - Len(t.todo))) BY <1>8, <1>11, <1>12, Zenon
<1> QED BY <1>3, <1>4, <1>12, <1>13, Zenon DEF Tells, t

\* What is left to tell, as a part of the whole.
LeftOf(q, todo, m) ==
    /\ m = Len(todo) /\ m \in Nat /\ m <= Len(Answer[q])
    /\ \A j \in 1 .. m : todo[j] = Answer[q][Len(Answer[q]) - m + j]

\* Its next row.
LEMMA NextRow ==
    ASSUME NEW q \in Queries, NEW todo \in Seq(FramedRows), NEW m, LeftOf(q, todo, m),
           todo # <<>>, NEW i, i = Len(Answer[q]) - m + 1
    PROVE  /\ i \in 1 .. Len(Answer[q]) /\ i - 1 = Len(Answer[q]) - m
           /\ Head(todo) = Answer[q][i]
           /\ Tail(todo) \in Seq(FramedRows) /\ LeftOf(q, Tail(todo), m - 1)
           /\ i = Len(Answer[q]) - (m - 1)
<1> DEFINE n == Len(Answer[q])
           rest == Tail(todo)
           a == Answer[q]
<1>1. n \in Nat
  <2>1. Answer[q] \in Seq(Rows) BY RowsAre
  <2> QED BY <2>1, LenProperties
<1>2. m = Len(todo) /\ m \in Nat /\ m <= n /\ \A j \in 1 .. m : todo[j] = a[n - m + j]
   BY DEF LeftOf
<1>3. m # 0 /\ Head(todo) = todo[1] BY <1>2, EmptySeq
<1>4. rest \in Seq(FramedRows) /\ Len(rest) = m - 1 /\ \A j \in 1 .. m - 1 : rest[j] = todo[j + 1]
   BY <1>2, <1>3
<1> HIDE DEF n, rest, a
<1>5. i = n - m + 1 BY DEF n
<1>6. i \in 1 .. n /\ i - 1 = n - m /\ i = n - (m - 1) /\ m - 1 \in Nat /\ m - 1 <= n /\ 1 \in 1 .. m
   BY <1>1, <1>2, <1>3, <1>5
<1>7. todo[1] = a[i] BY <1>2, <1>5, <1>6
<1>8. \A j \in 1 .. m - 1 : rest[j] = a[n - (m - 1) + j]
  <2> TAKE j \in 1 .. m - 1
  <2>1. j + 1 \in 1 .. m /\ n - m + (j + 1) = n - (m - 1) + j BY <1>1, <1>2, <1>3
  <2>2. todo[j + 1] = a[n - m + (j + 1)] BY <1>2, <2>1, Zenon
  <2> QED BY <1>4, <2>1, <2>2
<1>9. LeftOf(q, rest, m - 1) BY <1>4, <1>6, <1>8, Zenon DEF LeftOf, n, a
<1> QED BY <1>3, <1>4, <1>6, <1>7, <1>9, Zenon DEF n, rest, a

\* A row is written ...
LEMMA RowTold ==
    ASSUME NEW x \in Clients, x.q \in Queries, NEW s \in Children, NEW m,
           LeftOf(x.q, s.todo, m), s.todo # <<>>,
           NEW p, p = RowAt(x.q, Len(Answer[x.q]) - m), Upto(x, s, p),
           NEW t, t.toClient = s.toClient \o RowChars(Head(s.todo)), t.todo = Tail(s.todo)
    PROVE  LeftOf(x.q, t.todo, m - 1) /\ Upto(x, t, RowAt(x.q, Len(Answer[x.q]) - (m - 1)))
<1> DEFINE q == x.q
           n == Len(Answer[q])
           i == n - m + 1
           chars == RowChars(Head(s.todo))
           l == RowAt(q, i)
<1>1. s.todo \in Seq(FramedRows) /\ s.toClient \in Seq(Chars) BY DEF Children
<1>2. /\ i \in 1 .. n /\ i - 1 = n - m /\ Head(s.todo) = Answer[q][i]
      /\ LeftOf(q, Tail(s.todo), m - 1) /\ i = n - (m - 1)
   BY <1>1, NextRow
<1>3. chars \in Seq(Chars)
  <2>1. Framed(Answer[q][i]) BY <1>2, RowsFramed
  <2> QED BY <1>2, <2>1, RowBegins, Zenon
<1>4. PICK r \in Nat : HasRead(x, r) /\ OnItsWay(s, q, r, p) BY DEF Upto
<1>5. p = RowAt(q, i - 1) /\ p \in Nat
  <2>1. i - 1 \in 0 .. n
    <3>1. n \in Nat
      <4>1. Answer[q] \in Seq(Rows) BY RowsAre
      <4> QED BY <4>1, LenProperties
    <3> HIDE DEF n, i
    <3> QED BY <1>2, <3>1
  <2>2. RowAt(q, i - 1) \in Nat BY <2>1, RowAtIs
  <2>3. p = RowAt(q, i - 1) BY <1>2, Zenon
  <2> QED BY <2>2, <2>3, Zenon
<1>6. SaysAt(Whole(q), p, chars)
  <2>1. SaysAt(Whole(q), RowAt(q, i - 1), RowChars(Answer[q][i])) BY <1>2, WholeSays
  <2> QED BY <1>2, <1>5, <2>1, Zenon
<1>7. l = p + Len(chars)
  <2>1. RowAt(q, i) = RowAt(q, i - 1) + Len(RowChars(Answer[q][i])) BY <1>2, AnswerGoesOn
  <2> QED BY <1>2, <1>5, <2>1, Zenon
<1>8. OnItsWay(t, q, r, l)
  <2> HIDE DEF chars, l
  <2>1. t.toClient = s.toClient \o chars BY DEF chars
  <2> QED BY <1>1, <1>3, <1>4, <1>5, <1>6, <1>7, <2>1, MoreWritten
<1>9. Upto(x, t, RowAt(q, i)) BY <1>4, <1>8, Zenon DEF Upto
<1> QED BY <1>2, <1>9, Zenon

\* ... and the end behind the last of them.
LEMMA EndTold ==
    ASSUME NEW x \in Clients, x.q \in Queries, NEW s \in Children,
           NEW p, p = RowAt(x.q, Len(Answer[x.q])), Upto(x, s, p),
           NEW t, t.toClient = s.toClient \o TheEnd
    PROVE  Upto(x, t, p + 2)
<1> DEFINE q == x.q
           n == Len(Answer[q])
<1>1. s.toClient \in Seq(Chars) BY DEF Children
<1>2. PICK r \in Nat : HasRead(x, r) /\ OnItsWay(s, q, r, p) BY DEF Upto
<1>3. p \in Nat
  <2>1. n \in Nat
    <3>1. Answer[q] \in Seq(Rows) BY RowsAre
    <3> QED BY <3>1, LenProperties
  <2>2. n \in 0 .. n BY <2>1
  <2> QED BY <2>2, RowAtIs
<1>4. Whole(q)[p + 1] = "0" /\ Whole(q)[p + 2] = "nul" BY WholeIs
<1>5. SaysAt(Whole(q), p, TheEnd)
  <2> DEFINE w == Whole(q)
             z == TheEnd
  <2> HIDE DEF w, z
  <2>1. Len(z) = 2 /\ z[1] = "0" /\ z[2] = "nul" BY ShortAnswers DEF z
  <2>2. w[p + 1] = z[1] /\ w[p + 2] = z[2] BY <1>4, <2>1 DEF w
  <2>3. \A j \in 1 .. 2 : j = 1 \/ j = 2 OBVIOUS
  <2>4. \A j \in 1 .. 2 : w[p + j] = z[j] BY <2>2, <2>3, Zenon
  <2> QED BY <2>1, <2>4, Zenon DEF SaysAt, w, z
<1>6. OnItsWay(t, q, r, p + 2)
  <2> DEFINE l == p + 2
  <2>1. l = p + Len(TheEnd) BY ShortAnswers
  <2> HIDE DEF l
  <2>2. OnItsWay(t, q, r, l) BY <1>1, <1>2, <1>3, <1>5, <2>1, ShortAnswers, MoreWritten, ZenonT(60)
  <2> QED BY <2>2, Zenon DEF l
<1> QED BY <1>2, <1>6, Zenon DEF Upto

\* A child that tells an answer tells more of it, or its end.
LEMMA TellsOn ==
    ASSUME SessionTypes, NEW c \in Conns, Live(conn[c]), NEW kept \in BOOLEAN,
           NEW x \in Clients, x.q \in Queries, Tells(x, conn[c], kept), Child(c) \/ ResetArrives(c)
    PROVE  Live(conn'[c]) /\ (Tells(x, conn'[c], kept) \/ HasTold(x, conn'[c], kept))
<1> DEFINE q == x.q
           n == Len(Answer[q])
           s == conn[c]
           m == Len(s.todo)
           t == conn'[c]
<1>0. s \in Children BY DEF SessionTypes
<1>1. /\ s.pc = "rows" /\ s.toServer = <<>> /\ s.u = Url /\ (s.persist <=> kept)
      /\ m <= n /\ \A j \in 1 .. m : s.todo[j] = Answer[q][n - m + j]
      /\ Upto(x, s, RowAt(q, n - m))
   BY Zenon DEF Tells
<1>2. s.todo \in Seq(FramedRows) BY <1>0 DEF Children
<1>3. m \in Nat BY <1>2, LenProperties
<1>4. LeftOf(q, s.todo, m) BY <1>1, <1>3, Zenon DEF LeftOf
<1>5. ServeRow(c) \/ ServeEnd(c) BY <1>1, ChildGoesOn
<1>6. CASE ServeRow(c)
  <2>1. /\ Live(t) /\ t.toServer = s.toServer /\ s.todo # <<>> /\ t.todo = Tail(s.todo)
        /\ t.toClient = s.toClient \o RowChars(Head(s.todo))
        /\ t.pc = "rows" /\ t.u = s.u /\ t.persist = s.persist
     BY <1>6, RowServed
  <2> HIDE DEF t, s
  <2>2. LeftOf(q, t.todo, m - 1) /\ Upto(x, t, RowAt(q, n - (m - 1)))
    <3> DEFINE p == RowAt(q, n - m)
    <3>1. Upto(x, s, p) BY <1>1
    <3> HIDE DEF m
    <3>2. p = RowAt(q, n - m) OBVIOUS
    <3> HIDE DEF p
    <3> QED BY <1>0, <1>4, <2>1, <3>1, <3>2, RowTold
  <2>3. m - 1 = Len(t.todo) BY <2>2 DEF LeftOf
  <2>4. LeftOf(q, t.todo, Len(t.todo)) /\ Upto(x, t, RowAt(q, n - Len(t.todo)))
     BY <2>2, <2>3, Zenon
  <2>5. /\ Len(t.todo) <= n
        /\ \A j \in 1 .. Len(t.todo) : t.todo[j] = Answer[q][n - Len(t.todo) + j]
     BY <2>4, Zenon DEF LeftOf
  <2>6. t.toServer = <<>> /\ t.u = Url /\ (t.persist <=> kept) BY <1>1, <2>1
  <2>7. Tells(x, t, kept) BY <2>1, <2>4, <2>5, <2>6, Zenon DEF Tells
  <2> QED BY <2>1, <2>7, Zenon DEF t
<1>7. CASE ServeEnd(c)
  <2>1. /\ Live(t) /\ t.toServer = s.toServer /\ s.todo = <<>>
        /\ t.toClient = s.toClient \o TheEnd /\ t.u = s.u /\ t.persist = s.persist
        /\ \/ t.pc = "query" /\ s.persist
           \/ t.pc = "ending" /\ (s.persist => ~t.ok)
     BY <1>7, EndServed
  <2> HIDE DEF t, s
  <2>2. n - m = n
    <3>1. m = 0 BY <2>1
    <3>2. n \in Nat
      <4>1. Answer[q] \in Seq(Rows) BY RowsAre
      <4> QED BY <4>1, LenProperties
    <3> HIDE DEF n, m
    <3> QED BY <3>1, <3>2
  <2>3. Upto(x, t, RowAt(q, n) + 2)
    <3> DEFINE p == RowAt(q, n)
    <3>1. Upto(x, s, p) BY <1>1, <2>2, Zenon
    <3>2. p = RowAt(q, n) OBVIOUS
    <3> HIDE DEF p
    <3>3. Upto(x, t, p + 2) BY <1>0, <2>1, <3>1, <3>2, EndTold
    <3> QED BY <3>2, <3>3, Zenon
  <2>4. t.toServer = <<>> /\ t.u = Url BY <1>1, <2>1
  <2>5. \/ t.pc = "query" /\ t.persist /\ kept
        \/ t.pc = "ending" /\ (kept => ~t.ok)
     BY <1>1, <2>1, Zenon
  <2>6. HasTold(x, t, kept) BY <2>3, <2>4, <2>5, Zenon DEF HasTold
  <2> QED BY <2>1, <2>6, Zenon DEF t
<1> QED BY <1>5, <1>6, <1>7

\* A child that has told all of it tells nothing more.
LEMMA HasToldOn ==
    ASSUME SessionTypes, NEW c \in Conns, Live(conn[c]), NEW kept \in BOOLEAN,
           NEW x, HasTold(x, conn[c], kept), Child(c) \/ ResetArrives(c)
    PROVE  Live(conn'[c]) /\ HasTold(x, conn'[c], kept)
<1> DEFINE t == conn'[c]
           p == RowAt(x.q, Len(Answer[x.q])) + 2
<1>1. ChildEnds(c)
   BY ChildGoesOn DEF HasTold
<1>2. conn[c].toServer = <<>> /\ (kept => ~conn[c].ok) /\ Upto(x, conn[c], p)
  <2>1. conn[c].pc = "ending" BY <1>1 DEF ChildEnds
  <2> QED BY <2>1 DEF HasTold
<1>3. /\ Live(t) /\ t.toServer = <<>> /\ t.toClient = conn[c].toClient
      /\ t.ok = conn[c].ok /\ t.pc \in {"exited", "crashed"}
   BY <1>1, <1>2, ChildEnded
<1> HIDE DEF t, p
<1>4. Upto(x, t, p) BY <1>2, <1>3, Zenon DEF Upto, OnItsWay
<1>5. kept => ~t.ok BY <1>2, <1>3
<1>6. t.pc \in {"ending", "exited", "crashed"} BY <1>3
<1>7. HasTold(x, t, kept) BY <1>3, <1>4, <1>5, <1>6, Zenon DEF HasTold, p
<1> QED BY <1>3, <1>7, Zenon DEF t

\* A child that has ended says nothing.
LEMMA SilentOn ==
    ASSUME SessionTypes, NEW c \in Conns, Live(conn[c]), NEW kept \in BOOLEAN,
           NEW x, Silent(x, conn[c], kept), Child(c) \/ ResetArrives(c)
    PROVE  Live(conn'[c]) /\ Silent(x, conn'[c], kept)
<1> DEFINE t == conn'[c]
<1>1. ChildEnds(c) /\ conn[c].pc = "ending"
   BY ChildGoesOn DEF Silent, Over
<1>2. kept /\ ~conn[c].ok /\ conn[c].toClient = <<>> /\ x.pc = "ncol" /\ x.rows = <<>> /\ x.no = 0
   BY <1>1 DEF Silent
<1>3. /\ Live(t) /\ t.toServer = <<>> /\ t.toClient = conn[c].toClient
      /\ t.ok = conn[c].ok /\ t.pc \in {"exited", "crashed", "aborted"}
   BY <1>1, ChildEnded
<1> HIDE DEF t
<1>4. ~t.ok /\ t.toClient = <<>> /\ t.pc \in Over BY <1>2, <1>3 DEF Over
<1>5. Silent(x, t, kept) BY <1>2, <1>3, <1>4 DEF Silent
<1> QED BY <1>3, <1>5, Zenon DEF t

\* What a child does keeps the dialogue going.
LEMMA DialogueOn ==
    ASSUME SessionTypes, WholeRequests, NEW c \in Conns, Live(conn[c]), NEW kept \in BOOLEAN,
           Dialogue(cli, conn[c], kept), Child(c) \/ ResetArrives(c),
           cli.pc \in {"greet", "openGreet", "openAnswer", "openPlus"} \cup Reading
    PROVE  Live(conn'[c]) /\ Dialogue(cli, conn'[c], kept)
<1> DEFINE G(pc) == cli.pc = pc
<1>1. CASE cli.pc = "greet"
  <2>1. Live(conn'[c]) /\ Greeting(conn'[c]) BY <1>1, GreetingOn DEF Dialogue
  <2> QED BY <1>1, <2>1 DEF Dialogue, Reading
<1>2. CASE cli.pc = "openGreet"
  <2>1. Live(conn'[c]) /\ OpenGreeting(conn'[c]) BY <1>2, OpenGreetingOn DEF Dialogue
  <2> QED BY <1>2, <2>1 DEF Dialogue, Reading
<1>3. CASE cli.pc = "openAnswer"
  <2>1. Live(conn'[c]) /\ OpenAnswering(conn'[c]) BY <1>3, OpenAnsweringOn DEF Dialogue
  <2> QED BY <1>3, <2>1 DEF Dialogue, Reading
<1>4. CASE cli.pc = "openPlus"
  <2>1. OpenAnswered(conn[c]) BY <1>4 DEF Dialogue
  <2> QED BY <2>1, OpenAnsweredStays
<1>5. CASE cli.pc \in Reading
  <2>1. cli \in Clients /\ cli.q \in Queries BY <1>5 DEF SessionTypes
  <2>2. Answering(cli, conn[c], kept) BY <1>5 DEF Dialogue
  <2>3. Live(conn'[c]) /\ Answering(cli, conn'[c], kept)
    <3>1. CASE Waits(cli, conn[c], kept)
       BY <2>1, <3>1, WaitsOn DEF Answering
    <3>2. CASE Tells(cli, conn[c], kept)
       BY <2>1, <3>2, TellsOn DEF Answering
    <3>3. CASE HasTold(cli, conn[c], kept)
       BY <3>3, HasToldOn DEF Answering
    <3>4. CASE Silent(cli, conn[c], kept)
       BY <3>4, SilentOn DEF Answering
    <3> QED BY <2>2, <3>1, <3>2, <3>3, <3>4 DEF Answering
  <2> QED BY <1>5, <2>3 DEF Dialogue, Reading
<1> QED BY <1>1, <1>2, <1>3, <1>4, <1>5

---------------------------------------------------------------------------
(* The session: the steps of the client *)

\* A character is the next one that was sent, or what a reset leaves.
Comes(s, r) ==
    /\ s.toClient # <<>> /\ r.char = Head(s.toClient) /\ r.failed = FALSE
    /\ r.after = [s EXCEPT !.toClient = Tail(s.toClient)]

Breaks(s, r) ==
    s.toClient = <<>> /\ s.pc = "aborted" /\ r.after = [s EXCEPT !.pc = "gone"]

\* A read on the client returns the next character, waits for it, or fails.
LEMMA CharIs ==
    ASSUME NEW c, NEW r \in CharsRead(c)
    PROVE  Comes(conn[c], r) \/ Breaks(conn[c], r)
<1> DEFINE s == conn[c]
           h == Head(s.toClient)
           a == [s EXCEPT !.toClient = Tail(s.toClient)]
           g == [s EXCEPT !.pc = "gone"]
<1>1. CASE s.toClient # <<>>
  <2>1. r = [char |-> h, failed |-> FALSE, after |-> a] BY <1>1 DEF CharsRead
  <2> HIDE DEF h, a
  <2>2. r.char = h /\ r.failed = FALSE /\ r.after = a BY <2>1
  <2> QED BY <1>1, <2>2 DEF Comes, h, a
<1>2. CASE s.toClient = <<>>
  <2>1. s.pc = "aborted" /\ \E j \in Junk : r = [char |-> j, failed |-> TRUE, after |-> g]
     BY <1>2 DEF CharsRead
  <2> HIDE DEF g
  <2>2. r.after = g BY <2>1
  <2> QED BY <1>2, <2>1, <2>2 DEF Breaks, g
<1> QED BY <1>1, <1>2

\* What is left of a live child when a character has been read from it.
LEMMA ComesFrom ==
    ASSUME NEW s \in Children, NEW r, Comes(s, r), NEW t, t = r.after
    PROVE  /\ t \in Children /\ t.toClient = Tail(s.toClient)
           /\ Live(s) => Live(t)
           /\ t.pc = s.pc /\ t.toServer = s.toServer /\ t.u = s.u /\ t.persist = s.persist
           /\ t.todo = s.todo /\ t.ok = s.ok
<1> DEFINE a == Tail(s.toClient)
<1>1. s.toClient \in Seq(Chars) BY DEF Children
<1>2. s.toClient # <<>> /\ t = [s EXCEPT !.toClient = a] BY DEF Comes
<1>3. a \in Seq(Chars) BY <1>1, <1>2, HeadTailProperties
<1> HIDE DEF a
<1>4. /\ t \in Children /\ t.toClient = a
      /\ t.open = s.open /\ t.doomed = s.doomed /\ t.rst = s.rst
      /\ t.pc = s.pc /\ t.toServer = s.toServer /\ t.u = s.u /\ t.persist = s.persist
      /\ t.todo = s.todo /\ t.ok = s.ok
   BY <1>2, <1>3 DEF Children
<1>5. Live(s) => Live(t) BY <1>4 DEF Live
<1> QED BY <1>4, <1>5, Zenon DEF a

\* A read that fails leaves the connection as it was, but without the child.
LEMMA BreaksFrom ==
    ASSUME NEW s \in Children, NEW r, Breaks(s, r), NEW t, t = r.after
    PROVE  /\ t \in Children /\ t.toClient = <<>>
           /\ Live(s) => Live(t)
           /\ t.pc = "gone" /\ t.toServer = s.toServer /\ t.ok = s.ok
<1>1. s.toClient = <<>> /\ t = [s EXCEPT !.pc = "gone"] BY DEF Breaks
<1>2. "gone" \in Serving \cup Over \cup {"unused", "ending"} BY DEF Over
<1>3. /\ t \in Children /\ t.toClient = s.toClient
      /\ t.open = s.open /\ t.doomed = s.doomed /\ t.rst = s.rst
      /\ t.pc = "gone" /\ t.toServer = s.toServer /\ t.ok = s.ok
   BY <1>1, <1>2 DEF Children
<1>4. Live(s) => Live(t) BY <1>3 DEF Live
<1> QED BY <1>1, <1>3, <1>4, Zenon

\* The client writes to a child that has read everything.
LEMMA SentTo ==
    ASSUME NEW s \in Children, s.toServer = <<>>, NEW m \in Words, NEW t, t = Sent(s, m)
    PROVE  /\ s.pc \in Over => t = s
           /\ s.pc \notin Over => t.toServer = Pieces(m)
           /\ Live(s) => Live(t)
           /\ t.toClient = s.toClient /\ t.pc = s.pc /\ t.u = s.u /\ t.persist = s.persist
           /\ t.todo = s.todo /\ t.ok = s.ok
<1> DEFINE p == Pieces(m)
           a == s.toServer \o p
<1>1. s.pc \in Over => t = s BY DEF Sent
<1>2. s.pc \notin Over => t = [s EXCEPT !.toServer = a] BY DEF Sent
<1>3. a = p
  <2>1. p \in Seq([of : Words, part : 1 .. 2]) BY PiecesAre
  <2>2. <<>> \o p = p BY <2>1, NothingBefore
  <2> QED BY <2>2
<1> HIDE DEF p, a
<1>4. s.pc \notin Over =>
          /\ t.toServer = a /\ t.open = s.open /\ t.doomed = s.doomed /\ t.rst = s.rst
          /\ t.toClient = s.toClient /\ t.pc = s.pc /\ t.u = s.u /\ t.persist = s.persist
          /\ t.todo = s.todo /\ t.ok = s.ok
   BY <1>2 DEF Children
<1>5. Live(s) => Live(t) BY <1>1, <1>4 DEF Live
<1>6. s.pc \notin Over => t.toServer = Pieces(m) BY <1>3, <1>4, Zenon DEF p
<1> QED BY <1>1, <1>4, <1>5, <1>6

\* Only from a child that tells, or has told, its rows there is a character to read;
\* only from one that has nobody to tell anything there is a reset.
LEMMA AnswerComes ==
    ASSUME NEW x, NEW s, NEW kept, Answering(x, s, kept), NEW r, Comes(s, r)
    PROVE  Tells(x, s, kept) \/ HasTold(x, s, kept)
BY DEF Answering, Waits, Asked, Silent, Comes

\* A read fails only where the child had gone before it was asked.
LEMMA AnswerBreaks ==
    ASSUME NEW x, NEW s, NEW kept, Answering(x, s, kept), NEW r, Breaks(s, r)
    PROVE  Silent(x, s, kept) /\ x.no = 0
BY DEF Answering, Waits, Tells, HasTold, Silent, Breaks, Over

\* How much of the answer has been sent.
LEMMA SentSoFar ==
    ASSUME NEW q \in Queries, NEW todo \in Seq(FramedRows), Len(todo) <= Len(Answer[q])
    PROVE  /\ RowAt(q, Len(Answer[q]) - Len(todo)) \in Nat
           /\ RowAt(q, Len(Answer[q]) - Len(todo)) <= RowAt(q, Len(Answer[q]))
           /\ RowAt(q, Len(Answer[q])) \in Nat
<1> DEFINE n == Len(Answer[q])
           m == Len(todo)
<1>1. n \in Nat /\ m \in Nat
  <2>1. Answer[q] \in Seq(Rows) BY RowsAre
  <2> QED BY <2>1, LenProperties
<1>2. m <= n OBVIOUS
<1> HIDE DEF n, m
<1>3. n - m \in 0 .. n /\ n \in 0 .. n BY <1>1, <1>2
<1> QED BY <1>3, RowAtIs DEF n, m

\* A client that reads is in the same query, which still goes on.
SameQuery(x, y) == y.q = x.q /\ y.rows = x.rows /\ y.sock = x.sock /\ y.pc \in Reading

\* A client that reads the next character of an answer stays in the dialogue.
LEMMA AnswerRead ==
    ASSUME NEW x \in Clients, x.q \in Queries, NEW s \in Children, NEW kept \in BOOLEAN,
           Answering(x, s, kept), NEW r, Comes(s, r), NEW t, t = r.after,
           NEW y, NextClient(x, r.char, y)
    PROVE  SameQuery(x, y) /\ Answering(y, t, kept)
<1>1. /\ t.toClient = Tail(s.toClient) /\ s.toClient # <<>>
      /\ t.pc = s.pc /\ t.toServer = s.toServer /\ t.u = s.u /\ t.persist = s.persist
      /\ t.todo = s.todo /\ t.ok = s.ok
   BY ComesFrom DEF Comes
<1>2. NextClient(x, Head(s.toClient), y) BY DEF Comes
<1>3. s.todo \in Seq(FramedRows) BY DEF Children
<1>4. CASE Tells(x, s, kept)
  <2> DEFINE p == RowAt(x.q, Len(Answer[x.q]) - Len(s.todo))
  <2>1. /\ s.pc = "rows" /\ s.toServer = <<>> /\ s.u = Url /\ (s.persist <=> kept)
        /\ Len(s.todo) <= Len(Answer[x.q])
        /\ \A j \in 1 .. Len(s.todo) :
              s.todo[j] = Answer[x.q][Len(Answer[x.q]) - Len(s.todo) + j]
        /\ Upto(x, s, p)
     BY <1>4, Zenon DEF Tells
  <2>2. p \in Nat BY <1>3, <2>1, SentSoFar
  <2> HIDE DEF p
  <2>3. /\ y.q = x.q /\ y.rows = x.rows /\ y.sock = x.sock /\ y.pc \in Reading
        /\ Upto(y, t, p)
     BY <1>1, <1>2, <2>1, <2>2, UptoRead
  <2>4. Tells(y, t, kept) BY <1>1, <2>1, <2>3, ZenonT(60) DEF Tells, p
  <2> QED BY <2>3, <2>4, Zenon DEF Answering, SameQuery
<1>5. CASE HasTold(x, s, kept)
  <2> DEFINE e == RowAt(x.q, Len(Answer[x.q]))
             p == e + 2
  <2>1. /\ s.toServer = <<>>
        /\ \/ s.pc = "query" /\ s.u = Url /\ s.persist /\ kept
           \/ s.pc \in {"ending", "exited", "crashed"} /\ (kept => ~s.ok)
        /\ Upto(x, s, p)
     BY <1>5, Zenon DEF HasTold
  <2>2. p \in Nat
    <3>1. <<>> \in Seq(FramedRows) /\ Len(<<>>) = 0 OBVIOUS
    <3>2. Answer[x.q] \in Seq(Rows) BY RowsAre
    <3>3. Len(Answer[x.q]) \in Nat BY <3>2, LenProperties
    <3>4. Len(<<>>) <= Len(Answer[x.q]) BY <3>1, <3>3
    <3>5. e \in Nat BY <3>1, <3>4, SentSoFar
    <3> HIDE DEF e
    <3> QED BY <3>5
  <2> HIDE DEF p
  <2>3. /\ y.q = x.q /\ y.rows = x.rows /\ y.sock = x.sock /\ y.pc \in Reading
        /\ Upto(y, t, p)
     BY <1>1, <1>2, <2>1, <2>2, UptoRead
  <2>4. HasTold(y, t, kept) BY <1>1, <2>1, <2>3, Zenon DEF HasTold, p
  <2> QED BY <2>3, <2>4, Zenon DEF Answering, SameQuery
<1> QED BY <1>4, <1>5, AnswerComes

\* A client that finds the end of an answer has its rows, and has read it all.
LEMMA AnswerOver ==
    ASSUME NEW x \in Clients, x.q \in Queries, NEW s \in Children, NEW kept \in BOOLEAN,
           Answering(x, s, kept), NEW r, Comes(s, r), NEW t, t = r.after,
           x.pc = "ncol", ~IsDigit(r.char), ~(x.no > 0)
    PROVE  x.rows = TextRows(Answer[x.q]) /\ (kept => Resting(t))
<1>1. /\ t.toClient = Tail(s.toClient) /\ s.toClient # <<>>
      /\ t.pc = s.pc /\ t.toServer = s.toServer /\ t.u = s.u /\ t.persist = s.persist
      /\ t.todo = s.todo /\ t.ok = s.ok
   BY ComesFrom DEF Comes
<1>2. ~IsDigit(Head(s.toClient)) BY DEF Comes
<1>3. s.todo \in Seq(FramedRows) BY DEF Children
<1> DEFINE e == RowAt(x.q, Len(Answer[x.q]))
<1>e. e \in Nat
  <2>1. <<>> \in Seq(FramedRows) /\ Len(<<>>) = 0 OBVIOUS
  <2>2. Answer[x.q] \in Seq(Rows) BY RowsAre
  <2>3. Len(Answer[x.q]) \in Nat BY <2>2, LenProperties
  <2>4. Len(<<>>) <= Len(Answer[x.q]) BY <2>1, <2>3
  <2> QED BY <2>1, <2>4, SentSoFar
<1>4. ~Tells(x, s, kept)
  <2> SUFFICES ASSUME Tells(x, s, kept) PROVE FALSE
    OBVIOUS
  <2> DEFINE p == RowAt(x.q, Len(Answer[x.q]) - Len(s.todo))
  <2>1. Len(s.todo) <= Len(Answer[x.q]) /\ Upto(x, s, p) BY Zenon DEF Tells
  <2>2. p \in Nat /\ p <= e BY <1>3, <2>1, SentSoFar
  <2> HIDE DEF p, e
  <2>3. p >= e + 2 BY <1>1, <1>2, <2>1, <2>2, UptoTheEnd DEF e
  <2> QED BY <1>e, <2>2, <2>3
<1>5. HasTold(x, s, kept) BY <1>4, AnswerComes
<1>6. /\ s.toServer = <<>>
      /\ \/ s.pc = "query" /\ s.u = Url /\ s.persist /\ kept
         \/ s.pc \in {"ending", "exited", "crashed"} /\ (kept => ~s.ok)
      /\ Upto(x, s, e + 2)
   BY <1>5, Zenon DEF HasTold
<1>7. x.rows = TextRows(Answer[x.q]) /\ t.toClient = <<>>
  <2> DEFINE p == e + 2
  <2>1. p \in Nat
    <3> HIDE DEF e
    <3> QED BY <1>e
  <2>2. Upto(x, s, p) BY <1>6
  <2>3. p = RowAt(x.q, Len(Answer[x.q])) + 2 OBVIOUS
  <2> HIDE DEF p, e
  <2> QED BY <1>1, <1>2, <2>1, <2>2, <2>3, UptoTheEnd
<1>8. kept => Resting(t)
   BY <1>1, <1>6, <1>7 DEF Resting, Answered, Over
<1> QED BY <1>7, <1>8

\* A column that is complete, and a row with it when it is the last one.
TakesColumn(x, y) ==
    LET cols == Append(x.cols, x.col)
    IN \/ /\ Len(cols) # x.need
          /\ y = [x EXCEPT !.pc = "width", !.no = 0, !.cols = cols, !.col = <<>>]
       \/ /\ Len(cols) = x.need
          /\ y = [x EXCEPT !.pc = "ncol", !.no = 0, !.need = 0, !.cols = <<>>, !.col = <<>>,
                           !.rows = Append(x.rows, cols)]

\* The rows of y are those of x, or one more of the answer.
OneMore(x, y) ==
    \/ y.rows = x.rows
    \/ /\ Len(x.rows) < Len(Answer[x.q])
       /\ y.rows = Append(x.rows, TextRows(Answer[x.q])[Len(x.rows) + 1])

\* A client that takes a column, and a row with it, has read as far as before.
LEMMA UptoTaking ==
    ASSUME NEW x \in Clients, x.q \in Queries, NEW s, NEW p, Upto(x, s, p),
           x.pc = "data", Len(x.col) = x.no, NEW y, TakesColumn(x, y)
    PROVE  Upto(y, s, p) /\ OneMore(x, y)
<1> DEFINE cols == Append(x.cols, x.col)
<1>1. /\ \A z : Len(cols) # x.need /\ z = [x EXCEPT !.pc = "width", !.no = 0,
                                                    !.cols = cols, !.col = <<>>]
                   => Upto(z, s, p)
      /\ Len(cols) = x.need =>
            /\ Len(x.rows) < Len(Answer[x.q])
            /\ cols = TextRows(Answer[x.q])[Len(x.rows) + 1]
            /\ \A z : z = [x EXCEPT !.pc = "ncol", !.no = 0, !.need = 0, !.cols = <<>>,
                                    !.col = <<>>, !.rows = Append(x.rows, cols)]
                         => Upto(z, s, p)
   BY UptoTaken
<1>2. CASE /\ Len(cols) # x.need
           /\ y = [x EXCEPT !.pc = "width", !.no = 0, !.cols = cols, !.col = <<>>]
  <2>1. Upto(y, s, p) BY <1>1, <1>2
  <2> HIDE DEF cols
  <2>2. y.rows = x.rows BY <1>2 DEF Clients
  <2> QED BY <2>1, <2>2 DEF OneMore
<1>3. CASE /\ Len(cols) = x.need
           /\ y = [x EXCEPT !.pc = "ncol", !.no = 0, !.need = 0, !.cols = <<>>, !.col = <<>>,
                            !.rows = Append(x.rows, cols)]
  <2>1. Upto(y, s, p) BY <1>1, <1>3
  <2> DEFINE rows == Append(x.rows, cols)
  <2>2. /\ Len(x.rows) < Len(Answer[x.q])
        /\ rows = Append(x.rows, TextRows(Answer[x.q])[Len(x.rows) + 1])
     BY <1>1, <1>3
  <2> HIDE DEF rows, cols
  <2>3. y = [x EXCEPT !.pc = "ncol", !.no = 0, !.need = 0, !.cols = <<>>, !.col = <<>>,
                      !.rows = rows]
     BY <1>3 DEF rows
  <2>4. y.rows = rows BY <2>3 DEF Clients
  <2> QED BY <2>1, <2>2, <2>4, Zenon DEF OneMore
<1> QED BY <1>2, <1>3 DEF TakesColumn

\* A client that takes a column stays in the dialogue.
LEMMA AnswerTaken ==
    ASSUME NEW x \in Clients, x.q \in Queries, NEW s, NEW kept, Answering(x, s, kept),
           x.pc = "data", Len(x.col) = x.no, NEW y, TakesColumn(x, y)
    PROVE  /\ y.q = x.q /\ y.sock = x.sock /\ y.pc \in Reading /\ OneMore(x, y)
           /\ Answering(y, s, kept)
<1>1. y.q = x.q /\ y.sock = x.sock /\ y.pc \in Reading
  <2> DEFINE cols == Append(x.cols, x.col)
             rows == Append(x.rows, cols)
  <2>1. \/ y = [x EXCEPT !.pc = "width", !.no = 0, !.cols = cols, !.col = <<>>]
        \/ y = [x EXCEPT !.pc = "ncol", !.no = 0, !.need = 0, !.cols = <<>>, !.col = <<>>,
                         !.rows = rows]
     BY DEF TakesColumn
  <2> HIDE DEF cols, rows
  <2> QED BY <2>1 DEF Clients, Reading
<1>2. CASE Tells(x, s, kept)
  <2> DEFINE p == RowAt(x.q, Len(Answer[x.q]) - Len(s.todo))
  <2>1. /\ s.pc = "rows" /\ s.toServer = <<>> /\ s.u = Url /\ (s.persist <=> kept)
        /\ Len(s.todo) <= Len(Answer[x.q])
        /\ \A j \in 1 .. Len(s.todo) :
              s.todo[j] = Answer[x.q][Len(Answer[x.q]) - Len(s.todo) + j]
        /\ Upto(x, s, p)
     BY <1>2, Zenon DEF Tells
  <2> HIDE DEF p
  <2>2. Upto(y, s, p) /\ OneMore(x, y) BY <2>1, UptoTaking
  <2>3. Tells(y, s, kept) BY <1>1, <2>1, <2>2, Zenon DEF Tells, p
  <2> QED BY <1>1, <2>2, <2>3, Zenon DEF Answering
<1>3. CASE HasTold(x, s, kept)
  <2> DEFINE p == RowAt(x.q, Len(Answer[x.q])) + 2
  <2>1. /\ s.toServer = <<>>
        /\ \/ s.pc = "query" /\ s.u = Url /\ s.persist /\ kept
           \/ s.pc \in {"ending", "exited", "crashed"} /\ (kept => ~s.ok)
        /\ Upto(x, s, p)
     BY <1>3, Zenon DEF HasTold
  <2> HIDE DEF p
  <2>2. Upto(y, s, p) /\ OneMore(x, y) BY <2>1, UptoTaking
  <2>3. HasTold(y, s, kept) BY <1>1, <2>1, <2>2, Zenon DEF HasTold, p
  <2> QED BY <1>1, <2>2, <2>3, Zenon DEF Answering
<1> QED BY <1>2, <1>3 DEF Answering, Waits, Silent

\* A step of the client at its socket leaves its kept connection as it is, unless that is
\* the one.
LEMMA AtItsSocket ==
    ASSUME SessionTypes, InSession, cli.sock \in Conns, NEW t, Live(t),
           conn' = [conn EXCEPT ![cli.sock] = t], ci' = ci, cli'.sock = cli.sock,
           Shaped(cli)', Dialogue(cli', t, cli.sock = ci)
    PROVE  InSession'
<1>1. conn \in [Conns -> Children] BY DEF SessionTypes
<1>2. conn'[cli.sock] = t /\ \A d \in Conns : d # cli.sock => conn'[d] = conn[d] BY <1>1
<1>3. ci \in Conns => Live(conn[ci]) /\ (cli.sock # ci => Resting(conn[ci])) BY DEF InSession
<1>4. ci' \in Conns => Live(conn'[ci']) /\ (cli'.sock # ci' => Resting(conn'[ci']))
  <2>1. CASE ci = cli.sock
     BY <1>2, <2>1
  <2>2. CASE ci # cli.sock /\ ci \in Conns
    <3>1. conn'[ci] = conn[ci] BY <1>2, <2>2
    <3> QED BY <1>3, <2>2, <3>1
  <2> QED BY <2>1, <2>2
<1>5. Live(conn'[cli'.sock]) /\ Dialogue(cli', conn'[cli'.sock], cli'.sock = ci')
  <2>1. conn'[cli'.sock] = t BY <1>2
  <2>2. (cli'.sock = ci') = (cli.sock = ci) OBVIOUS
  <2> QED BY <2>1, <2>2, Zenon
<1> QED BY <1>4, <1>5, Zenon DEF InSession

\* A client that reads an answer has no shape to keep.
LEMMA ShapedReading ==
    ASSUME cli'.pc \in Reading
    PROVE  Shaped(cli)'
BY DEF Shaped, Reading, Opening

\* A client that reads keeps the dialogue when it keeps its answer.
LEMMA KeepsReading ==
    ASSUME SessionTypes, InSession, cli.sock \in Conns, NEW t, Live(t),
           conn' = [conn EXCEPT ![cli.sock] = t], ci' = ci, cli'.sock = cli.sock,
           cli'.pc \in Reading, NEW kept \in BOOLEAN, kept = (cli.sock = ci),
           Answering(cli', t, kept)
    PROVE  InSession'
<1>1. Shaped(cli)' BY ShapedReading
<1>2. Dialogue(cli', t, kept) BY DEF Dialogue, Reading
<1>3. Dialogue(cli', t, cli.sock = ci) BY <1>2, Zenon
<1> QED BY <1>1, <1>3, AtItsSocket

---------------------------------------------------------------------------
(* The session: every step keeps the invariant, and is one of the service or none *)

\* Nothing happens that the application sees ...
Same == cli'.q = cli.q /\ cli'.rows = cli.rows /\ returned' = returned

\* ... or what the service allows.
Promised == Same \/ Service!Next

\* A client without a call has nothing.
LEMMA IdleClient ==
    ASSUME InSession, cli.pc = "idle"
    PROVE  cli = Idle /\ cli.sock = NULL /\ cli.q = NULL /\ cli.rows = <<>>
<1>1. cli = Idle BY DEF InSession, Shaped
<1> QED BY <1>1 DEF Idle

\* NULL and 0 are no connections, and NULL is no query.
LEMMA Nobody == NULL \notin Conns /\ 0 \notin Conns /\ NULL # 0 /\ NULL \notin Queries
BY SessionAssumption DEF SessionAssumption

\* A call that ends leaves nothing behind.
LEMMA IdleNow ==
    ASSUME cli' = Idle
    PROVE  /\ cli'.pc = "idle" /\ cli'.sock = NULL /\ cli'.q = NULL /\ cli'.rows = <<>>
           /\ Shaped(cli)'
<1>1. cli'.pc = "idle" /\ cli'.sock = NULL /\ cli'.q = NULL /\ cli'.rows = <<>>
   BY DEF Idle
<1> QED BY <1>1 DEF Shaped, Opening

\* A query without a connection starts one.
LEMMA QueryStartsServed ==
    ASSUME SessionTypes, InSession, NEW q \in Queries, QueryStarts(q)
    PROVE  InSession' /\ Promised
<1>1. cli.pc = "idle" /\ cli' = [Idle EXCEPT !.pc = "connect", !.q = q]
      /\ ci' = ci /\ returned' = returned /\ conn' = conn
   BY DEF QueryStarts
<1>2. cli = Idle /\ cli.sock = NULL /\ cli.q = NULL /\ cli.rows = <<>> BY <1>1, IdleClient
<1>3. /\ cli'.pc = "connect" /\ cli'.sock = NULL /\ cli'.q = q /\ cli'.rows = <<>> /\ cli'.no = 0
   BY <1>1 DEF Idle
<1>4. Shaped(cli)' BY <1>3 DEF Shaped, Opening
<1>5. cli'.sock \notin Conns BY <1>3, Nobody
<1>6. ci \in Conns => Live(conn[ci]) /\ Resting(conn[ci])
   BY <1>2, Nobody DEF InSession
<1>7. ci' \in Conns => Live(conn'[ci']) /\ (cli'.sock # ci' => Resting(conn'[ci']))
   BY <1>1, <1>6
<1>8. InSession' BY <1>4, <1>5, <1>7, Zenon DEF InSession
<1>9. Service!Call(q) BY <1>1, <1>2, <1>3 DEF Service!Call
<1> QED BY <1>8, <1>9 DEF Promised, Service!Next

\* A query on the connection that is kept finds its child ready for it, or gone.
LEMMA QueryOnSocketServed ==
    ASSUME SessionTypes, InSession, NEW q \in Queries, QueryStartsOnSocket(q)
    PROVE  InSession' /\ Promised
<1> DEFINE s == conn[ci]
           t == Sent(s, q)
<1>1. /\ cli.pc = "idle" /\ cli' = [Idle EXCEPT !.pc = "ncol", !.q = q, !.sock = ci]
      /\ ci \in Conns /\ ci' = ci /\ returned' = returned /\ conn' = [conn EXCEPT ![ci] = t]
   BY DEF QueryStartsOnSocket
<1>2. cli = Idle /\ cli.sock = NULL /\ cli.q = NULL /\ cli.rows = <<>> BY <1>1, IdleClient
<1>3. cli'.pc = "ncol" /\ cli'.sock = ci /\ cli'.q = q /\ cli'.rows = <<>> /\ cli'.no = 0
   BY <1>1 DEF Idle
<1>4. s \in Children /\ conn'[ci] = t BY <1>1 DEF SessionTypes
<1>5. Live(s) /\ Resting(s) BY <1>1, <1>2, Nobody DEF InSession
<1>6. /\ s.toServer = <<>> /\ s.toClient = <<>>
      /\ \/ s.pc = "query" /\ s.u = Url /\ s.persist
         \/ s.pc \in Over \cup {"ending"} /\ ~s.ok
   BY <1>5 DEF Resting, Answered
<1>7. q \in Words BY DEF Words
<1>8. /\ s.pc \in Over => t = s
      /\ s.pc \notin Over => t.toServer = Pieces(q)
      /\ Live(t)
      /\ t.toClient = s.toClient /\ t.pc = s.pc /\ t.u = s.u /\ t.persist = s.persist
      /\ t.todo = s.todo /\ t.ok = s.ok
  <2> HIDE DEF s
  <2>1. t = Sent(s, q) OBVIOUS
  <2> HIDE DEF t
  <2> QED BY <1>4, <1>5, <1>6, <1>7, <2>1, SentTo
<1> HIDE DEF s, t
<1>9. Answering(cli', t, TRUE)
  <2>1. CASE s.pc = "query" /\ s.u = Url /\ s.persist
    <3>1. s.pc \notin Over BY <2>1 DEF Over
    <3>2. t.pc = "query" /\ t.toServer = Pieces(q) /\ t.toClient = <<>> /\ t.u = Url /\ t.persist
       BY <1>6, <1>8, <2>1, <3>1
    <3>3. Waits(cli', t, TRUE) BY <1>3, <3>2 DEF Waits, Asked
    <3> QED BY <3>3 DEF Answering
  <2>2. CASE s.pc \in Over \cup {"ending"} /\ ~s.ok
    <3>1. t.pc \in Over \cup {"ending"} /\ ~t.ok /\ t.toClient = <<>>
       BY <1>6, <1>8, <2>2
    <3>2. t.pc \in Over => t.toServer = <<>> BY <1>6, <1>8
    <3>3. Silent(cli', t, TRUE) BY <1>3, <3>1, <3>2 DEF Silent
    <3> QED BY <3>3 DEF Answering
  <2> QED BY <1>6, <2>1, <2>2
<1>10. Dialogue(cli', t, TRUE) BY <1>3, <1>9 DEF Dialogue, Reading
<1>11. Shaped(cli)' BY <1>3, ShapedReading DEF Reading
<1>12. conn'[ci'] = t /\ cli'.sock = ci' BY <1>1, <1>3, <1>4 DEF t
<1>13. Dialogue(cli', conn'[cli'.sock], cli'.sock = ci')
  <2>1. (cli'.sock = ci') = TRUE BY <1>12
  <2> QED BY <1>10, <1>12, <2>1, Zenon
<1>14. InSession' BY <1>8, <1>11, <1>12, <1>13, Zenon DEF InSession
<1>15. Service!Call(q) BY <1>1, <1>2, <1>3 DEF Service!Call
<1> QED BY <1>14, <1>15 DEF Promised, Service!Next

\* sdb_open starts a connection.
LEMMA OpenStartsServed ==
    ASSUME InSession, OpenStarts
    PROVE  InSession' /\ Promised
<1>1. /\ cli.pc = "idle" /\ cli' = [Idle EXCEPT !.pc = "openConnect"]
      /\ ci = NULL /\ ci' = ci /\ returned' = returned /\ conn' = conn
   BY DEF OpenStarts
<1>2. cli = Idle /\ cli.sock = NULL /\ cli.q = NULL /\ cli.rows = <<>> BY <1>1, IdleClient
<1>3. cli'.pc = "openConnect" /\ cli'.sock = NULL /\ cli'.q = NULL /\ cli'.rows = <<>>
   BY <1>1 DEF Idle
<1>4. Shaped(cli)' BY <1>1, <1>3 DEF Shaped, Opening
<1>5. cli'.sock \notin Conns /\ ci' \notin Conns BY <1>1, <1>3, Nobody
<1>6. InSession' BY <1>4, <1>5, Zenon DEF InSession
<1>7. Same BY <1>1, <1>2, <1>3 DEF Same
<1> QED BY <1>6, <1>7 DEF Promised

\* A new connection begins with its request.
LEMMA ConnectsServed ==
    ASSUME SessionTypes, InSession, NEW c \in Conns, Connects(c)
    PROVE  InSession' /\ Promised
<1> DEFINE begun == [Unused EXCEPT !.pc = "url", !.open = TRUE]
           first == IF cli.pc = "connect" THEN Url ELSE OpenRequest
           pc == IF cli.pc = "connect" THEN "greet" ELSE "openGreet"
           t == Sent(begun, first)
<1>0. cli \in Clients /\ conn \in [Conns -> Children] BY DEF SessionTypes
<1>1. /\ cli.pc \in {"connect", "openConnect"} /\ conn[c] = Unused
      /\ conn' = [conn EXCEPT ![c] = t] /\ cli' = [cli EXCEPT !.sock = c, !.pc = pc]
      /\ ci' = ci /\ returned' = returned
  <2>1. cli' = [cli EXCEPT !.sock = c, !.pc = IF @ = "connect" THEN "greet" ELSE "openGreet"]
     BY DEF Connects
  <2> QED BY <2>1, Zenon DEF Connects
<1>2. /\ begun \in Children /\ begun.toServer = <<>> /\ begun.toClient = <<>>
      /\ begun.pc = "url" /\ begun.open = TRUE /\ begun.doomed = FALSE /\ begun.rst = FALSE
      /\ begun.persist = FALSE
  <2>1. "url" \in Serving BY DEF Serving
  <2>2. begun \in Children BY <2>1, UnusedIs DEF Children
  <2> QED BY <2>2 DEF Unused
<1>3. first \in Words BY DEF Words
<1>p. pc \in {"greet", "openGreet"} /\ (cli.pc = "connect" <=> pc = "greet") OBVIOUS
<1>f. (cli.pc = "connect" => first = Url) /\ (cli.pc # "connect" => first = OpenRequest) OBVIOUS
<1> HIDE DEF begun, first, pc
<1>4. Live(begun) BY <1>2 DEF Live
<1>5. /\ Live(t) /\ t.toClient = begun.toClient /\ t.pc = begun.pc /\ t.persist = begun.persist
      /\ begun.pc \notin Over => t.toServer = Pieces(first)
  <2>1. t = Sent(begun, first) OBVIOUS
  <2> HIDE DEF t
  <2> QED BY <1>2, <1>3, <1>4, <2>1, SentTo
<1> HIDE DEF t
<1>6. t.pc = "url" /\ t.toClient = <<>> /\ ~t.persist /\ t.toServer = Pieces(first)
   BY <1>2, <1>5 DEF Over
<1>7. /\ cli'.sock = c /\ cli'.pc = pc /\ cli'.q = cli.q /\ cli'.rows = cli.rows
      /\ cli'.no = cli.no
   BY <1>0, <1>1 DEF Clients
<1>8. conn'[c] = t /\ \A d \in Conns : d # c => conn'[d] = conn[d] BY <1>0, <1>1
<1>9. /\ cli.sock = NULL
      /\ cli.pc = "connect" => cli.rows = <<>> /\ cli.no = 0
      /\ cli.pc = "openConnect" => ci = NULL /\ cli.q = NULL /\ cli.rows = <<>>
   BY <1>1 DEF InSession, Shaped, Opening
<1>10. c # ci
  <2>1. ~Live(conn[c]) BY <1>1 DEF Live, Unused
  <2> QED BY <2>1 DEF InSession
<1>11. ci \in Conns => Live(conn[ci]) /\ Resting(conn[ci]) BY <1>9, Nobody DEF InSession
<1>12. ci' \in Conns => Live(conn'[ci']) /\ (cli'.sock # ci' => Resting(conn'[ci']))
  <2> SUFFICES ASSUME ci \in Conns PROVE Live(conn'[ci]) /\ Resting(conn'[ci])
    BY <1>1
  <2>1. conn'[ci] = conn[ci] BY <1>8, <1>10
  <2> QED BY <1>11, <2>1
<1>13. Shaped(cli)' BY <1>1, <1>7, <1>9, <1>10, <1>p DEF Shaped, Opening
<1>14. Live(conn'[cli'.sock]) /\ Dialogue(cli', conn'[cli'.sock], cli'.sock = ci')
  <2>1. conn'[cli'.sock] = t BY <1>7, <1>8
  <2>2. cli'.pc = "greet" => Greeting(t)
     BY <1>6, <1>7, <1>f, <1>p DEF Greeting, Asked
  <2>3. cli'.pc = "openGreet" => OpenGreeting(t)
     BY <1>6, <1>7, <1>f, <1>p DEF OpenGreeting, Asked
  <2> DEFINE kept == cli'.sock = ci'
  <2> HIDE DEF kept
  <2>4. Dialogue(cli', t, kept) BY <1>7, <1>p, <2>2, <2>3 DEF Dialogue, Reading
  <2> QED BY <1>5, <2>1, <2>4, Zenon DEF kept
<1>15. InSession' BY <1>12, <1>13, <1>14, Zenon DEF InSession
<1>16. Same BY <1>1, <1>7 DEF Same
<1> QED BY <1>15, <1>16 DEF Promised

\* A call that cannot connect has failed, and leaves nothing.
LEMMA ConnectFailsServed ==
    ASSUME SessionTypes, InSession, ConnectFails
    PROVE  InSession' /\ Promised
<1>1. /\ cli.pc \in {"connect", "openConnect"} /\ cli' = Idle /\ ci' = ci /\ conn' = conn
      /\ cli.pc = "connect" => returned' = [q |-> cli.q, n |-> -1]
      /\ cli.pc # "connect" => returned' = returned
   BY DEF ConnectFails
<1>2. /\ cli'.pc = "idle" /\ cli'.sock = NULL /\ cli'.q = NULL /\ cli'.rows = <<>>
      /\ Shaped(cli)'
   BY <1>1, IdleNow
<1>3. /\ cli.sock = NULL
      /\ cli.pc = "connect" => cli.rows = <<>>
      /\ cli.pc = "openConnect" => cli.q = NULL /\ cli.rows = <<>>
   BY <1>1 DEF InSession, Shaped, Opening
<1>4. ci \in Conns => Live(conn[ci]) /\ Resting(conn[ci]) BY <1>3, Nobody DEF InSession
<1>5. cli'.sock \notin Conns BY <1>2, Nobody
<1>6. InSession' BY <1>1, <1>2, <1>4, <1>5 DEF InSession
<1>7. CASE cli.pc = "connect"
  <2>1. cli.q # NULL BY <1>7, Nobody DEF SessionTypes
  <2>2. Service!ReturnError BY <1>1, <1>2, <1>3, <1>7, <2>1 DEF Service!ReturnError
  <2> QED BY <1>6, <2>2 DEF Promised, Service!Next
<1>8. CASE cli.pc = "openConnect"
  <2>1. Same BY <1>1, <1>2, <1>3, <1>8 DEF Same
  <2> QED BY <1>6, <2>1 DEF Promised
<1> QED BY <1>1, <1>7, <1>8

\* The application closes its connection between two calls only.
LEMMA CloseServed ==
    ASSUME SessionTypes, InSession, Close
    PROVE  InSession' /\ Promised
<1>1. cli.pc = "idle" /\ ci' = NULL /\ cli' = cli /\ returned' = returned BY DEF Close
<1>2. cli = Idle /\ cli.sock = NULL BY <1>1, IdleClient
<1>3. Shaped(cli)' /\ cli'.sock = NULL BY <1>1, <1>2, IdleNow
<1>4. cli'.sock \notin Conns /\ ci' \notin Conns BY <1>1, <1>3, Nobody
<1>5. InSession' BY <1>3, <1>4, Zenon DEF InSession
<1>6. Same BY <1>1 DEF Same
<1> QED BY <1>5, <1>6 DEF Promised

\* The url has been read when the query is sent.
LEMMA GreetingServed ==
    ASSUME SessionTypes, InSession, ReadGreeting
    PROVE  InSession' /\ Promised
<1> DEFINE s == conn[cli.sock]
           kept == cli.sock = ci
<1>0. /\ cli \in Clients /\ cli.pc = "greet" /\ cli.sock \in Conns /\ cli.q \in Queries
      /\ s \in Children
   BY DEF SessionTypes, ReadGreeting
<1>1. PICK r \in CharsRead(cli.sock) :
          /\ r.after.pc # "gone"
          /\ conn' = [conn EXCEPT ![cli.sock] = Sent(r.after, cli.q)]
   BY DEF ReadGreeting
<1>2. cli' = [cli EXCEPT !.pc = "ncol"] /\ ci' = ci /\ returned' = returned BY DEF ReadGreeting
<1>3. Live(s) /\ Greeting(s) BY <1>0 DEF InSession, Dialogue
<1>4. cli.rows = <<>> /\ cli.no = 0 /\ cli.sock # ci BY <1>0 DEF InSession, Shaped
<1>5. Comes(s, r)
  <2>1. ~Breaks(s, r) BY <1>3 DEF Greeting, Breaks
  <2> QED BY <2>1, CharIs
<1> DEFINE u == r.after
           t == Sent(u, cli.q)
<1>6. s.pc = "query" /\ s.toServer = <<>> /\ s.toClient = <<" ">> /\ s.u = Url /\ ~s.persist
   BY <1>3, <1>5 DEF Greeting, Comes, Asked, Answered
<1>7. /\ u \in Children /\ u.toClient = Tail(s.toClient) /\ Live(u)
      /\ u.pc = s.pc /\ u.toServer = s.toServer /\ u.u = s.u /\ u.persist = s.persist
  <2>1. u = r.after OBVIOUS
  <2> HIDE DEF s, u
  <2> QED BY <1>0, <1>3, <1>5, <2>1, ComesFrom
<1>8. u.toClient = <<>>
  <2>1. Tail(<<" ">>) = <<>> OBVIOUS
  <2> QED BY <1>6, <1>7, <2>1, Zenon
<1>9. cli.q \in Words BY <1>0 DEF Words
<1> HIDE DEF s, u
<1>10. /\ Live(t) /\ t.toClient = u.toClient /\ t.pc = u.pc /\ t.u = u.u /\ t.persist = u.persist
       /\ u.pc \notin Over => t.toServer = Pieces(cli.q)
  <2>1. t = Sent(u, cli.q) /\ u.toServer = <<>> BY <1>6, <1>7
  <2> HIDE DEF t
  <2> QED BY <1>7, <1>9, <2>1, SentTo
<1>11. conn' = [conn EXCEPT ![cli.sock] = t] BY <1>1 DEF u
<1> HIDE DEF t
<1>12. /\ cli'.pc = "ncol" /\ cli'.q = cli.q /\ cli'.rows = cli.rows /\ cli'.no = cli.no
       /\ cli'.sock = cli.sock
   BY <1>0, <1>2 DEF Clients
<1>13. /\ t.pc = "query" /\ t.toServer = Pieces(cli'.q) /\ t.toClient = <<>> /\ t.u = Url
       /\ ~t.persist
   BY <1>6, <1>7, <1>8, <1>10, <1>12 DEF Over
<1>14. kept = FALSE BY <1>4
<1>15. kept = (cli.sock = ci) /\ kept \in BOOLEAN OBVIOUS
<1> HIDE DEF kept
<1>16. Waits(cli', t, kept)
  <2>1. cli'.rows = <<>> /\ cli'.no = 0 BY <1>4, <1>12
  <2>2. t.persist <=> kept BY <1>13, <1>14
  <2> QED BY <1>12, <1>13, <2>1, <2>2, Zenon DEF Waits, Asked
<1>17. Answering(cli', t, kept) BY <1>16, Zenon DEF Answering
<1>18. cli'.pc \in Reading BY <1>12 DEF Reading
<1>19. InSession' BY <1>0, <1>2, <1>10, <1>11, <1>12, <1>15, <1>17, <1>18, KeepsReading
<1>20. Same BY <1>2, <1>12 DEF Same
<1> QED BY <1>19, <1>20 DEF Promised

\* "sdb_open" has been read when the url is sent.
LEMMA OpenGreetingServed ==
    ASSUME SessionTypes, InSession, ReadOpenGreeting
    PROVE  InSession' /\ Promised
<1> DEFINE s == conn[cli.sock]
           kept == cli.sock = ci
<1>0. /\ cli \in Clients /\ cli.pc = "openGreet" /\ cli.sock \in Conns /\ s \in Children
   BY DEF SessionTypes, ReadOpenGreeting
<1>1. PICK r \in CharsRead(cli.sock) :
          /\ r.after.pc # "gone"
          /\ conn' = [conn EXCEPT ![cli.sock] = Sent(r.after, Url)]
   BY DEF ReadOpenGreeting
<1>2. cli' = [cli EXCEPT !.pc = "openAnswer"] /\ ci' = ci /\ returned' = returned
   BY DEF ReadOpenGreeting
<1>3. Live(s) /\ OpenGreeting(s) BY <1>0 DEF InSession, Dialogue
<1>4. cli.q = NULL /\ cli.rows = <<>> /\ ci = NULL BY <1>0 DEF InSession, Shaped, Opening
<1>5. Comes(s, r)
  <2>1. ~Breaks(s, r) BY <1>3 DEF OpenGreeting, Breaks
  <2> QED BY <2>1, CharIs
<1> DEFINE u == r.after
           t == Sent(u, Url)
<1>6. s.pc = "openUrl" /\ s.toServer = <<>> /\ s.toClient = <<" ">>
   BY <1>3, <1>5 DEF OpenGreeting, Comes, Asked, Answered
<1>7. /\ u \in Children /\ u.toClient = Tail(s.toClient) /\ Live(u)
      /\ u.pc = s.pc /\ u.toServer = s.toServer
  <2>1. u = r.after OBVIOUS
  <2> HIDE DEF s, u
  <2> QED BY <1>0, <1>3, <1>5, <2>1, ComesFrom
<1>8. u.toClient = <<>>
  <2>1. Tail(<<" ">>) = <<>> OBVIOUS
  <2> QED BY <1>6, <1>7, <2>1, Zenon
<1>9. Url \in Words BY DEF Words
<1> HIDE DEF s, u
<1>10. /\ Live(t) /\ t.toClient = u.toClient /\ t.pc = u.pc
       /\ u.pc \notin Over => t.toServer = Pieces(Url)
  <2>1. t = Sent(u, Url) /\ u.toServer = <<>> BY <1>6, <1>7
  <2> HIDE DEF t
  <2> QED BY <1>7, <1>9, <2>1, SentTo
<1>11. conn' = [conn EXCEPT ![cli.sock] = t] BY <1>1 DEF u
<1> HIDE DEF t
<1>12. /\ cli'.pc = "openAnswer" /\ cli'.q = cli.q /\ cli'.rows = cli.rows
       /\ cli'.sock = cli.sock
   BY <1>0, <1>2 DEF Clients
<1>13. OpenAnswering(t)
   BY <1>6, <1>7, <1>8, <1>10 DEF OpenAnswering, Asked, Over
<1> HIDE DEF kept
<1>14. Dialogue(cli', t, kept) BY <1>12, <1>13 DEF Dialogue, Reading
<1>15. Dialogue(cli', t, cli.sock = ci) BY <1>14, Zenon DEF kept
<1>16. Shaped(cli)' BY <1>2, <1>4, <1>12 DEF Shaped, Opening
<1>17. InSession' BY <1>0, <1>2, <1>10, <1>11, <1>12, <1>15, <1>16, AtItsSocket
<1>18. Same BY <1>2, <1>12 DEF Same
<1> QED BY <1>17, <1>18 DEF Promised

\* The first character of the answer to sdb_open.
LEMMA OpenAnswerServed ==
    ASSUME SessionTypes, InSession, ReadOpenAnswer
    PROVE  InSession' /\ Promised
<1> DEFINE s == conn[cli.sock]
           kept == cli.sock = ci
<1>0. /\ cli \in Clients /\ cli.pc = "openAnswer" /\ cli.sock \in Conns /\ s \in Children
   BY DEF SessionTypes, ReadOpenAnswer
<1>1. PICK r \in CharsRead(cli.sock) :
          \/ /\ r.char = "+" /\ conn' = [conn EXCEPT ![cli.sock] = r.after]
             /\ cli' = [cli EXCEPT !.pc = "openPlus"] /\ ci' = ci
          \/ r.char # "+" /\ cli' = Idle /\ ci' = 0
   BY DEF ReadOpenAnswer
<1>2. returned' = returned BY DEF ReadOpenAnswer
<1>3. Live(s) /\ OpenAnswering(s) BY <1>0 DEF InSession, Dialogue
<1>4. cli.q = NULL /\ cli.rows = <<>> /\ ci = NULL BY <1>0 DEF InSession, Shaped, Opening
<1>5. CASE /\ r.char = "+" /\ conn' = [conn EXCEPT ![cli.sock] = r.after]
           /\ cli' = [cli EXCEPT !.pc = "openPlus"] /\ ci' = ci
  <2>1. Comes(s, r)
    <3>1. ~Breaks(s, r) BY <1>3 DEF OpenAnswering, Breaks
    <3> QED BY <3>1, CharIs
  <2> DEFINE t == r.after
  <2>2. /\ s.pc = "query" /\ s.u = Url /\ s.persist
        /\ s.toServer = <<>> /\ s.toClient = <<"+", "0">>
    <3>1. Head(s.toClient) = "+" /\ s.toClient # <<>> BY <1>5, <2>1 DEF Comes
    <3>2. Head(TheEnd) # "+" BY DEF TheEnd
    <3>3. s.toClient # TheEnd BY <3>1, <3>2
    <3> HIDE DEF s
    <3> QED BY <1>3, <3>1, <3>3 DEF OpenAnswering, Asked, Answered
  <2>3. /\ t.toClient = Tail(s.toClient) /\ Live(t)
        /\ t.pc = s.pc /\ t.toServer = s.toServer /\ t.u = s.u /\ t.persist = s.persist
    <3>1. t = r.after OBVIOUS
    <3> HIDE DEF s, t
    <3> QED BY <1>0, <1>3, <2>1, <3>1, ComesFrom
  <2>4. t.toClient = <<"0">>
    <3>1. Tail(<<"+", "0">>) = <<"0">> OBVIOUS
    <3> QED BY <2>2, <2>3, <3>1, Zenon
  <2>5. conn' = [conn EXCEPT ![cli.sock] = t] BY <1>5
  <2> HIDE DEF s, t
  <2>6. /\ cli'.pc = "openPlus" /\ cli'.q = cli.q /\ cli'.rows = cli.rows
        /\ cli'.sock = cli.sock
     BY <1>0, <1>5 DEF Clients
  <2>7. OpenAnswered(t) BY <2>2, <2>3, <2>4 DEF OpenAnswered, Answered
  <2> HIDE DEF kept
  <2>8. Dialogue(cli', t, kept) BY <2>6, <2>7 DEF Dialogue, Reading
  <2>9. Dialogue(cli', t, cli.sock = ci) BY <2>8, Zenon DEF kept
  <2>10. Shaped(cli)' BY <1>4, <1>5, <2>6 DEF Shaped, Opening
  <2>11. InSession' BY <1>0, <1>5, <2>3, <2>5, <2>6, <2>9, <2>10, AtItsSocket
  <2>12. Same BY <1>2, <2>6 DEF Same
  <2> QED BY <2>11, <2>12 DEF Promised
<1>6. CASE r.char # "+" /\ cli' = Idle /\ ci' = 0
  <2>1. /\ cli'.sock = NULL /\ cli'.q = NULL /\ cli'.rows = <<>> /\ Shaped(cli)'
     BY <1>6, IdleNow
  <2>2. cli'.sock \notin Conns /\ ci' \notin Conns BY <1>6, <2>1, Nobody
  <2>3. InSession' BY <2>1, <2>2, Zenon DEF InSession
  <2>4. Same BY <1>2, <1>4, <2>1 DEF Same
  <2> QED BY <2>3, <2>4 DEF Promised
<1> QED BY <1>1, <1>5, <1>6

\* The second one: the connection is kept, or was never of use.
LEMMA OpenPlusServed ==
    ASSUME SessionTypes, InSession, ReadOpenPlus
    PROVE  InSession' /\ Promised
<1> DEFINE s == conn[cli.sock]
<1>0. /\ cli \in Clients /\ cli.pc = "openPlus" /\ cli.sock \in Conns /\ s \in Children
      /\ conn \in [Conns -> Children]
   BY DEF SessionTypes, ReadOpenPlus
<1>1. PICK r \in CharsRead(cli.sock) : conn' = [conn EXCEPT ![cli.sock] = r.after]
   BY DEF ReadOpenPlus
<1>2. cli' = Idle /\ ci' = cli.sock /\ returned' = returned BY DEF ReadOpenPlus
<1>3. Live(s) /\ OpenAnswered(s) BY <1>0 DEF InSession, Dialogue
<1>4. cli.q = NULL /\ cli.rows = <<>> BY <1>0 DEF InSession, Shaped, Opening
<1>5. Comes(s, r)
  <2>1. ~Breaks(s, r) BY <1>3 DEF OpenAnswered, Breaks
  <2> QED BY <2>1, CharIs
<1>6. /\ s.pc = "query" /\ s.u = Url /\ s.persist
      /\ s.toServer = <<>> /\ s.toClient = <<"0">>
   BY <1>3 DEF OpenAnswered, Answered
<1> DEFINE t == r.after
<1>7. /\ t.toClient = Tail(s.toClient) /\ Live(t)
      /\ t.pc = s.pc /\ t.toServer = s.toServer /\ t.u = s.u /\ t.persist = s.persist
  <2>1. t = r.after OBVIOUS
  <2> HIDE DEF s, t
  <2> QED BY <1>0, <1>3, <1>5, <2>1, ComesFrom
<1>8. t.toClient = <<>>
  <2>1. Tail(<<"0">>) = <<>> OBVIOUS
  <2> QED BY <1>6, <1>7, <2>1, Zenon
<1>9. conn'[ci'] = t BY <1>0, <1>1, <1>2
<1> HIDE DEF s, t
<1>10. Resting(t) BY <1>6, <1>7, <1>8 DEF Resting, Answered
<1>11. /\ cli'.sock = NULL /\ cli'.q = NULL /\ cli'.rows = <<>> /\ Shaped(cli)'
   BY <1>2, IdleNow
<1>12. cli'.sock \notin Conns BY <1>11, Nobody
<1>13. InSession' BY <1>7, <1>9, <1>10, <1>11, <1>12, Zenon DEF InSession
<1>14. Same BY <1>2, <1>4, <1>11 DEF Same
<1> QED BY <1>13, <1>14 DEF Promised

\* A character of the answer is read, and it does not end the answer.
LEMMA ReadsServed ==
    ASSUME SessionTypes, InSession, cli.pc \in Reading, NEW r, Comes(conn[cli.sock], r),
           NextClient(cli, r.char, cli'), conn' = [conn EXCEPT ![cli.sock] = r.after],
           ci' = ci, returned' = returned
    PROVE  InSession' /\ Promised
<1> DEFINE s == conn[cli.sock]
           t == r.after
           kept == cli.sock = ci
<1>0. /\ cli \in Clients /\ cli.sock \in Conns /\ cli.q \in Queries /\ s \in Children
   BY DEF SessionTypes
<1>1. Live(s) BY <1>0 DEF InSession
<1>2. Dialogue(cli, s, kept) BY <1>0, Zenon DEF InSession
<1>3. kept \in BOOLEAN /\ kept = (cli.sock = ci) OBVIOUS
<1> HIDE DEF kept
<1>4. Answering(cli, s, kept) BY <1>2, Zenon DEF Dialogue
<1>5. t = r.after /\ Comes(s, r) OBVIOUS
<1> HIDE DEF s, t
<1>6. Live(t) BY <1>0, <1>1, <1>5, ComesFrom
<1> DEFINE y == cli'
<1>7. NextClient(cli, r.char, y) OBVIOUS
<1> HIDE DEF y
<1>8. SameQuery(cli, y) /\ Answering(y, t, kept)
   BY <1>0, <1>3, <1>4, <1>5, <1>7, AnswerRead, Zenon
<1>9. /\ cli'.q = cli.q /\ cli'.rows = cli.rows /\ cli'.sock = cli.sock /\ cli'.pc \in Reading
      /\ Answering(cli', t, kept)
   BY <1>8, Zenon DEF y, SameQuery
<1>10. conn' = [conn EXCEPT ![cli.sock] = t] BY <1>5
<1>11. InSession' BY <1>0, <1>3, <1>6, <1>9, <1>10, KeepsReading
<1>12. Same BY <1>9 DEF Same
<1> QED BY <1>11, <1>12 DEF Promised

\* The reset of a child that is gone is read.
LEMMA BreakServed ==
    ASSUME SessionTypes, InSession, cli.pc \in Reading, NEW r, Breaks(conn[cli.sock], r),
           cli'.pc = "ncol", cli'.q = cli.q, cli'.rows = cli.rows, cli'.sock = cli.sock,
           conn' = [conn EXCEPT ![cli.sock] = r.after], ci' = ci, returned' = returned
    PROVE  InSession' /\ Promised
<1> DEFINE s == conn[cli.sock]
           t == r.after
           kept == cli.sock = ci
<1>0. /\ cli \in Clients /\ cli.sock \in Conns /\ s \in Children BY DEF SessionTypes
<1>1. Live(s) BY <1>0 DEF InSession
<1>2. Dialogue(cli, s, kept) BY <1>0, Zenon DEF InSession
<1>3. kept \in BOOLEAN /\ kept = (cli.sock = ci) OBVIOUS
<1> HIDE DEF kept
<1>4. Answering(cli, s, kept) BY <1>2, Zenon DEF Dialogue
<1>5. t = r.after /\ Breaks(s, r) OBVIOUS
<1> HIDE DEF s, t
<1>6. /\ Live(t) /\ t.toClient = <<>> /\ t.pc = "gone" /\ t.toServer = s.toServer /\ t.ok = s.ok
   BY <1>0, <1>1, <1>5, BreaksFrom
<1>7. Silent(cli, s, kept) BY <1>4, <1>5, AnswerBreaks
<1>8. s.pc = "aborted" BY <1>5 DEF Breaks
<1>9. kept /\ ~s.ok /\ s.toServer = <<>> /\ cli.rows = <<>> BY <1>7, <1>8 DEF Silent, Over
<1>10. Silent(cli', t, kept) BY <1>6, <1>9 DEF Silent, Over
<1>11. Answering(cli', t, kept) BY <1>10, Zenon DEF Answering
<1>12. conn' = [conn EXCEPT ![cli.sock] = t] BY <1>5
<1>13. cli'.pc \in Reading BY DEF Reading
<1>14. InSession' BY <1>0, <1>3, <1>6, <1>11, <1>12, <1>13, KeepsReading
<1>15. Same BY DEF Same
<1> QED BY <1>14, <1>15 DEF Promised

\* What breaks is found before a number of columns, and before any digit of it.
LEMMA BreaksAt ==
    ASSUME SessionTypes, InSession, cli.pc \in Reading, NEW r, Breaks(conn[cli.sock], r)
    PROVE  /\ cli.pc = "ncol" /\ cli.no = 0 /\ cli.rows = <<>> /\ cli.sock = ci
           /\ conn[ci].toServer = <<>> /\ ~conn[ci].ok /\ Live(conn[ci])
           /\ conn[ci].pc \in Over
<1> DEFINE s == conn[cli.sock]
           kept == cli.sock = ci
<1>0. cli.sock \in Conns BY DEF SessionTypes
<1>1. Live(s) BY <1>0 DEF InSession
<1>2. Dialogue(cli, s, kept) BY <1>0, Zenon DEF InSession
<1> HIDE DEF kept
<1>3. Answering(cli, s, kept) BY <1>2, Zenon DEF Dialogue
<1>4. Breaks(s, r) OBVIOUS
<1> HIDE DEF s
<1>5. Silent(cli, s, kept) /\ cli.no = 0 BY <1>3, <1>4, AnswerBreaks
<1>6. s.pc \in Over BY <1>4 DEF Breaks, Over
<1>7. kept /\ ~s.ok /\ s.toServer = <<>> /\ cli.rows = <<>> /\ cli.pc = "ncol"
   BY <1>5, <1>6 DEF Silent
<1>8. cli.sock = ci BY <1>7 DEF kept
<1> QED BY <1>1, <1>5, <1>6, <1>7, <1>8 DEF s

\* A digit of a number.
LEMMA DigitServed ==
    ASSUME SessionTypes, InSession, ReadDigit
    PROVE  InSession' /\ Promised
<1>1. PICK r \in CharsRead(cli.sock) :
          /\ IsDigit(r.char)
          /\ conn' = [conn EXCEPT ![cli.sock] = r.after]
          /\ cli' = [cli EXCEPT !.no = 10 * cli.no + Value(r.char)]
   BY DEF ReadDigit
<1>2. /\ cli.pc \in {"ncol", "width"} /\ ci' = ci /\ returned' = returned
      /\ cli.pc \in Reading /\ cli \in Clients
   BY DEF ReadDigit, Reading, SessionTypes
<1>3. CASE Comes(conn[cli.sock], r)
  <2>1. NextClient(cli, r.char, cli') BY <1>1, <1>2 DEF NextClient
  <2> QED BY <1>1, <1>2, <1>3, <2>1, ReadsServed
<1>4. CASE Breaks(conn[cli.sock], r)
  <2>1. cli.pc = "ncol" BY <1>2, <1>4, BreaksAt
  <2>2. cli'.pc = cli.pc /\ cli'.q = cli.q /\ cli'.rows = cli.rows /\ cli'.sock = cli.sock
    <3> DEFINE v == 10 * cli.no + Value(r.char)
    <3> HIDE DEF v
    <3>1. cli' = [cli EXCEPT !.no = v] BY <1>1 DEF v
    <3> QED BY <1>2, <3>1 DEF Clients
  <2>3. cli'.pc = "ncol" BY <2>1, <2>2
  <2> QED BY <1>1, <1>2, <1>4, <2>2, <2>3, BreakServed
<1> QED BY <1>3, <1>4, CharIs

\* The end of the width of a column.
LEMMA WidthServed ==
    ASSUME SessionTypes, InSession, ReadWidth
    PROVE  InSession' /\ Promised
<1>1. PICK r \in CharsRead(cli.sock) :
          ~IsDigit(r.char) /\ conn' = [conn EXCEPT ![cli.sock] = r.after]
   BY DEF ReadWidth
<1>2. /\ cli.pc = "width" /\ ci' = ci /\ returned' = returned /\ cli.pc \in Reading
      /\ cli' = [cli EXCEPT !.pc = "data", !.col = <<>>]
   BY DEF ReadWidth, Reading
<1>3. Comes(conn[cli.sock], r)
  <2>1. ~Breaks(conn[cli.sock], r)
    <3> SUFFICES ASSUME Breaks(conn[cli.sock], r) PROVE cli.pc = "ncol"
      BY <1>2
    <3> QED BY <1>2, BreaksAt
  <2> QED BY <2>1, CharIs
<1>4. NextClient(cli, r.char, cli') BY <1>1, <1>2 DEF NextClient
<1> QED BY <1>1, <1>2, <1>3, <1>4, ReadsServed

\* A character of a column.
LEMMA DataServed ==
    ASSUME SessionTypes, InSession, ReadData
    PROVE  InSession' /\ Promised
<1>1. PICK r \in CharsRead(cli.sock) :
          /\ conn' = [conn EXCEPT ![cli.sock] = r.after]
          /\ r.failed = FALSE => cli' = [cli EXCEPT !.col = Append(cli.col, r.char)]
   BY DEF ReadData
<1>2. /\ cli.pc = "data" /\ ci' = ci /\ returned' = returned /\ cli.pc \in Reading
      /\ Len(cli.col) < cli.no
   BY DEF ReadData, Reading
<1>3. Comes(conn[cli.sock], r)
  <2>1. ~Breaks(conn[cli.sock], r)
    <3> SUFFICES ASSUME Breaks(conn[cli.sock], r) PROVE cli.pc = "ncol"
      BY <1>2
    <3> QED BY <1>2, BreaksAt
  <2> QED BY <2>1, CharIs
<1>4. cli' = [cli EXCEPT !.col = Append(cli.col, r.char)] BY <1>1, <1>3 DEF Comes
<1>5. NextClient(cli, r.char, cli') BY <1>2, <1>4 DEF NextClient
<1> QED BY <1>1, <1>2, <1>3, <1>5, ReadsServed

\* An answer ends.
LEMMA EndServedToo ==
    ASSUME SessionTypes, InSession, cli.pc = "ncol", ~(cli.no > 0),
           NEW r \in CharsRead(cli.sock), ~IsDigit(r.char),
           conn' = [conn EXCEPT ![cli.sock] =
                      IF cli.sock = ci THEN r.after ELSE ClosedByClient(r.after)],
           cli' = Idle, returned' = [q |-> cli.q, n |-> Len(cli.rows)], ci' = ci
    PROVE  InSession' /\ Promised
<1> DEFINE s == conn[cli.sock]
           t == r.after
           kept == cli.sock = ci
           Goal == /\ kept => Live(t) /\ Resting(t)
                   /\ Service!Next
<1>0. /\ cli \in Clients /\ cli.sock \in Conns /\ cli.q \in Queries /\ s \in Children
      /\ conn \in [Conns -> Children] /\ cli.pc \in Reading
   BY DEF SessionTypes, Reading
<1>1. Live(s) BY <1>0 DEF InSession
<1>2. Dialogue(cli, s, kept) BY <1>0, Zenon DEF InSession
<1>3. /\ cli'.pc = "idle" /\ cli'.sock = NULL /\ cli'.q = NULL /\ cli'.rows = <<>>
      /\ Shaped(cli)'
   BY IdleNow
<1>4. ASSUME Comes(s, r) PROVE Goal
  <2>1. cli.rows = TextRows(Answer[cli.q]) /\ (kept => Resting(t))
    <3>1. kept \in BOOLEAN /\ t = r.after OBVIOUS
    <3> HIDE DEF kept
    <3>2. Answering(cli, s, kept) BY <1>0, <1>2, Zenon DEF Dialogue
    <3> HIDE DEF s, t
    <3> QED BY <1>0, <1>4, <3>1, <3>2, AnswerOver
  <2>2. Live(t)
    <3>1. t = r.after OBVIOUS
    <3> HIDE DEF s, t
    <3> QED BY <1>0, <1>1, <1>4, <3>1, ComesFrom
  <2>3. CASE cli.q \notin Failing
    <3>1. Service!Return BY <1>0, <1>3, <2>1, <2>3 DEF Service!Return
    <3> QED BY <2>1, <2>2, <3>1 DEF Service!Next
  <2>4. CASE cli.q \in Failing
    <3>1. Answer[cli.q] = <<>> BY <2>4, SessionAssumption
    <3>2. cli.rows = <<>> /\ Len(cli.rows) = 0 BY <2>1, <3>1 DEF TextRows
    <3>3. Service!HideError BY <1>0, <1>3, <2>4, <3>2 DEF Service!HideError
    <3> QED BY <2>1, <2>2, <3>3 DEF Service!Next
  <2> QED BY <2>3, <2>4
<1>5. ASSUME Breaks(s, r) PROVE Goal
  <2>1. /\ cli.rows = <<>> /\ cli.sock = ci /\ conn[ci].toServer = <<>> /\ ~conn[ci].ok
        /\ conn[ci].pc \in Over
     BY <1>0, <1>5, BreaksAt
  <2>2. /\ Live(t) /\ t.toClient = <<>> /\ t.pc = "gone" /\ t.toServer = s.toServer
        /\ t.ok = s.ok
    <3>1. t = r.after OBVIOUS
    <3> HIDE DEF s, t
    <3> QED BY <1>0, <1>1, <1>5, <3>1, BreaksFrom
  <2>3. Resting(t) BY <2>1, <2>2 DEF Resting, Answered, Over
  <2>4. Service!ReturnNothing
    <3>1. Len(cli.rows) = 0 /\ cli.q # NULL BY <1>0, <2>1, Nobody
    <3>2. ci \in Conns /\ Ended(ci) BY <1>0, <2>1 DEF Ended
    <3> QED BY <1>3, <2>1, <3>1, <3>2 DEF Service!ReturnNothing
  <2> QED BY <2>2, <2>3, <2>4 DEF Service!Next
<1>6. Goal BY <1>4, <1>5, CharIs
<1>7. ci' \in Conns => Live(conn'[ci']) /\ (cli'.sock # ci' => Resting(conn'[ci']))
  <2> SUFFICES ASSUME ci \in Conns PROVE Live(conn'[ci]) /\ Resting(conn'[ci])
    OBVIOUS
  <2>1. CASE kept
    <3>1. conn'[ci] = t BY <1>0, <2>1
    <3> QED BY <1>6, <2>1, <3>1
  <2>2. CASE ~kept
    <3>1. conn'[ci] = conn[ci] BY <1>0, <2>2
    <3>2. Live(conn[ci]) /\ Resting(conn[ci]) BY <2>2 DEF InSession
    <3> QED BY <3>1, <3>2
  <2> QED BY <2>1, <2>2
<1>8. cli'.sock \notin Conns BY <1>3, Nobody
<1>9. InSession' BY <1>3, <1>7, <1>8, Zenon DEF InSession
<1> QED BY <1>6, <1>9 DEF Promised

\* The end of a number of columns, or of the answer: the query returns its rows.
LEMMA ColumnsServed ==
    ASSUME SessionTypes, InSession, ReadColumns
    PROVE  InSession' /\ Promised
<1> DEFINE a == IF cli.sock = ci THEN 0 ELSE 1
<1>1. PICK r \in CharsRead(cli.sock) :
          /\ ~IsDigit(r.char)
          /\ \/ /\ cli.no > 0
                /\ cli' = [cli EXCEPT !.pc = "width", !.need = cli.no, !.no = 0,
                                      !.cols = <<>>, !.col = <<>>]
                /\ conn' = [conn EXCEPT ![cli.sock] = r.after]
                /\ returned' = returned
             \/ /\ ~(cli.no > 0)
                /\ cli' = Idle
                /\ returned' = [q |-> cli.q, n |-> Len(cli.rows)]
                /\ conn' = [conn EXCEPT ![cli.sock] =
                              IF cli.sock = ci THEN r.after ELSE ClosedByClient(r.after)]
   BY DEF ReadColumns
<1>2. cli.pc = "ncol" /\ ci' = ci /\ cli.pc \in Reading BY DEF ReadColumns, Reading
<1>3. CASE /\ cli.no > 0
           /\ cli' = [cli EXCEPT !.pc = "width", !.need = cli.no, !.no = 0,
                                 !.cols = <<>>, !.col = <<>>]
           /\ conn' = [conn EXCEPT ![cli.sock] = r.after]
           /\ returned' = returned
  <2>1. Comes(conn[cli.sock], r)
    <3>1. ~Breaks(conn[cli.sock], r)
      <4> SUFFICES ASSUME Breaks(conn[cli.sock], r) PROVE cli.no = 0
        BY <1>3
      <4> QED BY <1>2, BreaksAt
    <3> QED BY <3>1, CharIs
  <2>2. NextClient(cli, r.char, cli') BY <1>1, <1>2, <1>3 DEF NextClient
  <2> QED BY <1>2, <1>3, <2>1, <2>2, ReadsServed
<1>4. CASE /\ ~(cli.no > 0)
           /\ cli' = Idle
           /\ returned' = [q |-> cli.q, n |-> Len(cli.rows)]
           /\ conn' = [conn EXCEPT ![cli.sock] =
                         IF cli.sock = ci THEN r.after ELSE ClosedByClient(r.after)]
   BY <1>1, <1>2, <1>4, EndServedToo
<1> QED BY <1>1, <1>3, <1>4

\* A column is complete; a row is, with its last column.
LEMMA TakeServed ==
    ASSUME SessionTypes, InSession, TakeColumn
    PROVE  InSession' /\ Promised
<1> DEFINE s == conn[cli.sock]
           kept == cli.sock = ci
<1>0. /\ cli \in Clients /\ cli.sock \in Conns /\ cli.q \in Queries
      /\ conn \in [Conns -> Children]
      /\ cli.pc = "data" /\ cli.pc \in Reading /\ Len(cli.col) = cli.no
      /\ ci' = ci /\ returned' = returned /\ conn' = conn
   BY DEF SessionTypes, TakeColumn, Reading
<1>1. Live(s) BY <1>0 DEF InSession
<1>2. Dialogue(cli, s, kept) BY <1>0, Zenon DEF InSession
<1>3. kept \in BOOLEAN /\ kept = (cli.sock = ci) OBVIOUS
<1>4. conn' = [conn EXCEPT ![cli.sock] = s] BY <1>0
<1> HIDE DEF kept, s
<1>5. Answering(cli, s, kept) BY <1>0, <1>2, Zenon DEF Dialogue
<1>6. TakesColumn(cli, cli') BY DEF TakeColumn, RowComplete, TakesColumn
<1> DEFINE y == cli'
<1>7. TakesColumn(cli, y) BY <1>6
<1> HIDE DEF y
<1>8. /\ y.q = cli.q /\ y.sock = cli.sock /\ y.pc \in Reading /\ OneMore(cli, y)
      /\ Answering(y, s, kept)
   BY <1>0, <1>5, <1>7, AnswerTaken
<1>9. /\ cli'.q = cli.q /\ cli'.sock = cli.sock /\ cli'.pc \in Reading /\ OneMore(cli, cli')
      /\ Answering(cli', s, kept)
   BY <1>8 DEF y
<1>10. InSession' BY <1>0, <1>1, <1>3, <1>4, <1>9, KeepsReading
<1>11. CASE cli'.rows = cli.rows
  <2>1. Same BY <1>0, <1>9, <1>11 DEF Same
  <2> QED BY <1>10, <2>1 DEF Promised
<1>12. CASE /\ Len(cli.rows) < Len(Answer[cli.q])
            /\ cli'.rows = Append(cli.rows, TextRows(Answer[cli.q])[Len(cli.rows) + 1])
  <2> DEFINE all == TextRows(Answer[cli.q])
  <2>1. Len(all) = Len(Answer[cli.q])
    <3>1. Answer[cli.q] \in Seq(Rows) BY <1>0, RowsAre
    <3>2. DOMAIN all = DOMAIN Answer[cli.q] BY DEF TextRows
    <3> DEFINE n == Len(Answer[cli.q])
    <3>3. n \in Nat /\ DOMAIN all = 1 .. n BY <3>1, <3>2, LenProperties
    <3> HIDE DEF n, all
    <3> QED BY <3>3 DEF n
  <2>2. cli.q \notin Failing
    <3>1. SUFFICES ASSUME cli.q \in Failing PROVE FALSE
      OBVIOUS
    <3>2. Answer[cli.q] = <<>> BY <3>1, SessionAssumption
    <3>3. Len(cli.rows) \in Nat BY <1>0 DEF Clients
    <3> QED BY <1>12, <3>2, <3>3
  <2>3. Service!Row
     BY <1>0, <1>9, <1>12, <2>1, <2>2 DEF Service!Row
  <2> QED BY <1>10, <2>3 DEF Promised, Service!Next
<1> QED BY <1>9, <1>11, <1>12 DEF OneMore

\* The child of the client's connection, or of the one it keeps, takes a step.
LEMMA ChildServed ==
    ASSUME SessionTypes, WholeRequests, InSession, cli.pc \notin {"spin", "dead"},
           NEW c \in Conns, Child(c) \/ ResetArrives(c)
    PROVE  InSession'
<1>1. cli' = cli /\ ci' = ci /\ \A d \in Conns : d # c => conn'[d] = conn[d]
  <2>1. /\ UNCHANGED <<cli, ci, returned>>
        /\ \E s \in Children : conn' = [conn EXCEPT ![c] = s]
     BY ChildTyped
  <2> QED BY <2>1 DEF SessionTypes
<1>2. Shaped(cli)'
  <2>1. Shaped(cli) BY DEF InSession
  <2> QED BY <1>1, <2>1 DEF Shaped
<1>3. ASSUME ci \in Conns PROVE Live(conn'[ci]) /\ (cli.sock # ci => Resting(conn'[ci]))
  <2>1. Live(conn[ci]) /\ (cli.sock # ci => Resting(conn[ci])) BY <1>3 DEF InSession
  <2>2. CASE ci # c
    <3>1. conn'[ci] = conn[ci] BY <1>1, <1>3, <2>2
    <3> QED BY <2>1, <3>1
  <2>3. CASE ci = c /\ cli.sock # ci
     BY <1>3, <2>1, <2>3, RestingOn
  <2>4. CASE ci = c /\ cli.sock = ci
    <3>1. cli.sock \in Conns BY <1>3, <2>4
    <3> DEFINE kept == cli.sock = ci
    <3>2. Live(conn[c]) /\ Dialogue(cli, conn[c], kept)
      <4>1. Live(conn[cli.sock]) /\ Dialogue(cli, conn[cli.sock], kept)
         BY <3>1, Zenon DEF InSession
      <4> QED BY <2>4, <4>1
    <3>3. kept \in BOOLEAN OBVIOUS
    <3> HIDE DEF kept
    <3>4. cli.pc \in {"greet", "openGreet", "openAnswer", "openPlus"} \cup Reading
      <4>1. cli.pc # "idle"
        <5> SUFFICES ASSUME cli.pc = "idle" PROVE cli.sock = NULL
          BY <3>1, Nobody
        <5> QED BY IdleClient
      <4>2. cli.pc \notin {"connect", "openConnect"}
        <5> SUFFICES ASSUME cli.pc \in {"connect", "openConnect"} PROVE cli.sock = NULL
          BY <3>1, Nobody
        <5> QED BY DEF InSession, Shaped
      <4>3. cli.pc \in {"idle", "connect", "openConnect", "greet", "openGreet", "openAnswer",
                        "openPlus", "ncol", "width", "data", "spin", "dead"}
         BY DEF SessionTypes, Clients
      <4> QED BY <4>1, <4>2, <4>3 DEF Reading
    <3>5. Live(conn'[c]) BY <3>2, <3>3, <3>4, DialogueOn
    <3> QED BY <2>4, <3>5
  <2> QED BY <2>2, <2>3, <2>4
<1>4. ASSUME cli.sock \in Conns
      PROVE  Live(conn'[cli.sock]) /\ Dialogue(cli, conn'[cli.sock], cli.sock = ci)
  <2> DEFINE kept == cli.sock = ci
  <2>1. Live(conn[cli.sock]) /\ Dialogue(cli, conn[cli.sock], kept)
     BY <1>4, Zenon DEF InSession
  <2>2. kept \in BOOLEAN OBVIOUS
  <2> HIDE DEF kept
  <2>3. Live(conn'[cli.sock]) /\ Dialogue(cli, conn'[cli.sock], kept)
    <3>1. CASE cli.sock # c
      <4>1. conn'[cli.sock] = conn[cli.sock] BY <1>1, <1>4, <3>1
      <4> QED BY <2>1, <4>1, Zenon
    <3>2. CASE cli.sock = c
      <4>1. cli.pc \in {"greet", "openGreet", "openAnswer", "openPlus"} \cup Reading
        <5>1. cli.pc # "idle"
          <6> SUFFICES ASSUME cli.pc = "idle" PROVE cli.sock = NULL
            BY <1>4, Nobody
          <6> QED BY IdleClient
        <5>2. cli.pc \notin {"connect", "openConnect"}
          <6> SUFFICES ASSUME cli.pc \in {"connect", "openConnect"} PROVE cli.sock = NULL
            BY <1>4, Nobody
          <6> QED BY DEF InSession, Shaped
        <5>3. cli.pc \in {"idle", "connect", "openConnect", "greet", "openGreet", "openAnswer",
                          "openPlus", "ncol", "width", "data", "spin", "dead"}
           BY DEF SessionTypes, Clients
        <5> QED BY <5>1, <5>2, <5>3 DEF Reading
      <4>2. Live(conn[c]) /\ Dialogue(cli, conn[c], kept) BY <2>1, <3>2
      <4>3. Live(conn'[c]) /\ Dialogue(cli, conn'[c], kept) BY <2>2, <4>1, <4>2, DialogueOn
      <4> QED BY <3>2, <4>3
    <3> QED BY <3>1, <3>2
  <2> QED BY <2>3, Zenon DEF kept
<1>5. ci' \in Conns => Live(conn'[ci']) /\ (cli'.sock # ci' => Resting(conn'[ci']))
   BY <1>1, <1>3
<1>6. cli'.sock \in Conns =>
          Live(conn'[cli'.sock]) /\ Dialogue(cli', conn'[cli'.sock], cli'.sock = ci')
   BY <1>1, <1>4
<1> QED BY <1>2, <1>5, <1>6, Zenon DEF InSession

\* A call that never returns, and the end of the application.
LEMMA StopsServed ==
    ASSUME SessionTypes, Spins \/ ApplicationEnds
    PROVE  cli'.pc \in {"spin", "dead"} /\ Promised
<1>1. /\ cli' = [cli EXCEPT !.pc = "spin"] \/ cli' = [cli EXCEPT !.pc = "dead"]
      /\ returned' = returned
   BY DEF Spins, ApplicationEnds
<1>2. cli'.pc \in {"spin", "dead"} /\ cli'.q = cli.q /\ cli'.rows = cli.rows
   BY <1>1 DEF SessionTypes, Clients
<1> QED BY <1>1, <1>2 DEF Promised, Same

\* Every action keeps the invariant, and does nothing the service does not.
LEMMA SessionStep ==
    ASSUME SessionInv, WholeRequests, [Next]_vars
    PROVE  SessionInv' /\ Promised
<1> DEFINE Over1 == cli.pc \in {"spin", "dead"}
           Goal == (cli'.pc \notin {"spin", "dead"} => InSession') /\ Promised
<1>0. SessionTypes /\ (~Over1 => InSession) BY DEF SessionInv
<1>1. SessionTypes' BY <1>0, SessionTyped
<1>2. ASSUME UNCHANGED vars PROVE Goal
  <2>1. cli' = cli /\ ci' = ci /\ conn' = conn /\ returned' = returned BY <1>2 DEF vars
  <2>2. Same BY <2>1 DEF Same
  <2>3. cli'.pc \notin {"spin", "dead"} => InSession'
     BY <1>0, <2>1 DEF InSession, Shaped
  <2> QED BY <2>2, <2>3 DEF Promised
<1>3. ASSUME NEW c \in Conns, Child(c) \/ ResetArrives(c) PROVE Goal
  <2>1. UNCHANGED <<cli, ci, returned>> BY <1>0, <1>3, ChildTyped
  <2>2. Same BY <2>1 DEF Same
  <2>3. cli'.pc \notin {"spin", "dead"} => InSession'
    <3> SUFFICES ASSUME cli'.pc \notin {"spin", "dead"} PROVE InSession'
      OBVIOUS
    <3>1. ~Over1 BY <2>1
    <3> QED BY <1>0, <1>3, <3>1, ChildServed
  <2> QED BY <2>2, <2>3 DEF Promised
<1>4. ASSUME Spins \/ ApplicationEnds PROVE Goal
   BY <1>0, <1>4, StopsServed
<1>5. ASSUME NEW q \in Queries, QueryStarts(q) PROVE Goal
  <2>1. ~Over1 BY <1>5 DEF QueryStarts
  <2> QED BY <1>0, <1>5, <2>1, QueryStartsServed
<1>6. ASSUME NEW q \in Queries, QueryStartsOnSocket(q) PROVE Goal
  <2>1. ~Over1 BY <1>6 DEF QueryStartsOnSocket
  <2> QED BY <1>0, <1>6, <2>1, QueryOnSocketServed
<1>7. ASSUME OpenStarts PROVE Goal
  <2>1. ~Over1 BY <1>7 DEF OpenStarts
  <2> QED BY <1>0, <1>7, <2>1, OpenStartsServed
<1>8. ASSUME Close PROVE Goal
  <2>1. ~Over1 BY <1>8 DEF Close
  <2> QED BY <1>0, <1>8, <2>1, CloseServed
<1>9. ASSUME NEW c \in Conns, Connects(c) PROVE Goal
  <2>1. ~Over1 BY <1>9 DEF Connects
  <2> QED BY <1>0, <1>9, <2>1, ConnectsServed
<1>10. ASSUME ConnectFails PROVE Goal
  <2>1. ~Over1 BY <1>10 DEF ConnectFails
  <2> QED BY <1>0, <1>10, <2>1, ConnectFailsServed
<1>11. ASSUME ReadGreeting PROVE Goal
  <2>1. ~Over1 BY <1>11 DEF ReadGreeting
  <2> QED BY <1>0, <1>11, <2>1, GreetingServed
<1>12. ASSUME ReadOpenGreeting PROVE Goal
  <2>1. ~Over1 BY <1>12 DEF ReadOpenGreeting
  <2> QED BY <1>0, <1>12, <2>1, OpenGreetingServed
<1>13. ASSUME ReadOpenAnswer PROVE Goal
  <2>1. ~Over1 BY <1>13 DEF ReadOpenAnswer
  <2> QED BY <1>0, <1>13, <2>1, OpenAnswerServed
<1>14. ASSUME ReadOpenPlus PROVE Goal
  <2>1. ~Over1 BY <1>14 DEF ReadOpenPlus
  <2> QED BY <1>0, <1>14, <2>1, OpenPlusServed
<1>15. ASSUME ReadDigit PROVE Goal
  <2>1. ~Over1 BY <1>15 DEF ReadDigit
  <2> QED BY <1>0, <1>15, <2>1, DigitServed
<1>16. ASSUME ReadColumns PROVE Goal
  <2>1. ~Over1 BY <1>16 DEF ReadColumns
  <2> QED BY <1>0, <1>16, <2>1, ColumnsServed
<1>17. ASSUME ReadWidth PROVE Goal
  <2>1. ~Over1 BY <1>17 DEF ReadWidth
  <2> QED BY <1>0, <1>17, <2>1, WidthServed
<1>18. ASSUME ReadData PROVE Goal
  <2>1. ~Over1 BY <1>18 DEF ReadData
  <2> QED BY <1>0, <1>18, <2>1, DataServed
<1>19. ASSUME TakeColumn PROVE Goal
  <2>1. ~Over1 BY <1>19 DEF TakeColumn
  <2> QED BY <1>0, <1>19, <2>1, TakeServed
<1> HIDE DEF Goal
<1>20. Goal
  <2>1. ASSUME InDriver PROVE Goal
     BY <2>1, <1>4, <1>9, <1>10, <1>11, <1>12, <1>13, <1>14, <1>15, <1>16, <1>17, <1>18,
        <1>19, Zenon DEF InDriver
  <2> QED BY <1>2, <1>3, <1>4, <1>5, <1>6, <1>7, <1>8, <2>1, Zenon DEF Next
<1> QED BY <1>1, <1>20 DEF SessionInv, Goal

\* The invariant holds when nothing has been done yet.
LEMMA SessionBegins ==
    ASSUME Init
    PROVE  SessionInv
<1>1. SessionTypes
  <2>1. cli \in Clients /\ cli.pc = "idle" BY IdleIs DEF Init, Idle
  <2>2. conn \in [Conns -> Children] BY UnusedIs DEF Init
  <2> QED BY <2>1, <2>2 DEF Init, SessionTypes, Reading
<1>2. cli = Idle /\ cli.pc = "idle" /\ cli.sock = NULL /\ ci = NULL BY DEF Init, Idle
<1>3. cli.sock \notin Conns /\ ci \notin Conns BY <1>2, Nobody
<1>4. Shaped(cli) BY <1>2 DEF Shaped, Opening
<1> QED BY <1>1, <1>3, <1>4, Zenon DEF SessionInv, InSession

\* (theorem) Between two queries on an open connection not a character is left in either
\* of its streams, when every request is read as a whole and is not empty.
THEOREM InStepAlways ==
    ASSUME WholeRequests
    PROVE  Spec => []InStep
<1>1. Init => SessionInv BY SessionBegins
<1>2. SessionInv /\ [Next]_vars => SessionInv' BY SessionStep
<1>3. SessionInv => InStep
  <2> SUFFICES ASSUME SessionInv, ci \in Conns, cli.pc = "idle"
               PROVE  /\ conn[ci].toServer = <<>> /\ conn[ci].toClient = <<>>
                      /\ conn[ci].pc = "query" \/ Ended(ci)
    BY DEF InStep
  <2>1. InSession BY DEF SessionInv
  <2>2. cli.sock = NULL BY <2>1, IdleClient
  <2>3. Resting(conn[ci]) BY <2>1, <2>2, Nobody DEF InSession
  <2> QED BY <2>3 DEF Resting, Answered, Ended
<1> QED BY <1>1, <1>2, <1>3, PTL DEF Spec

\* (theorem) Of its queries through the proxy the application sees what QueryService
\* allows: whole rows of the query, in order, and a number above 0 only after all of
\* them; 0 also for an error or in an ended session.  It holds whatever the queries, the
\* rows and the connections are, as long as every request is read as a whole and is
\* not empty.
THEOREM ProxyRefinesService ==
    ASSUME WholeRequests
    PROVE  Spec => ProxyPassesRowsOn
<1>1. Init => SessionInv BY SessionBegins
<1>2. SessionInv /\ [Next]_vars => SessionInv' BY SessionStep
<1>3. Init => Service!Init
  <2> SUFFICES ASSUME Init PROVE Service!Init
    OBVIOUS
  <2>1. cli.q = NULL /\ cli.rows = <<>> /\ returned = NULL BY DEF Init, Idle
  <2> QED BY <2>1 DEF Service!Init
<1>4. SessionInv /\ [Next]_vars => [Service!Next]_(Service!svars)
  <2> SUFFICES ASSUME SessionInv, [Next]_vars PROVE [Service!Next]_(Service!svars)
    OBVIOUS
  <2>1. Promised BY SessionStep
  <2> QED BY <2>1 DEF Promised, Same, Service!svars
<1> QED BY <1>1, <1>2, <1>3, <1>4, PTL DEF Spec, ProxyPassesRowsOn, Service!Spec

---------------------------------------------------------------------------
(* The daemon around the sessions: SdbdDaemon, for any finite number of clients, any
   length of the queue and any number of processes. *)

\* The types alone.
ProcessTypes ==
    /\ main \in {"accept", "fork", "parent", "dead"}
    /\ newsock \in Connections \cup {None}
    /\ queue \in Seq(Connections)
    /\ left \subseteq Connections
    /\ child \in [Connections -> {"none", "started", "serving", "zombie", "reaped"}]
    /\ fds \in [Processes -> SUBSET (Connections \cup {Listen})]
    /\ pending \in BOOLEAN /\ handling \in BOOLEAN
    /\ merged \in Nat

\* A connection waits once, and nobody has it while it waits.
Queued ==
    /\ \A i, j \in DOMAIN queue : queue[i] = queue[j] => i = j
    /\ \A c \in Waiting : child[c] = "none" /\ \A p \in Processes : c \notin fds[p]

\* What has been accepted is in the hands of main until it is forked for; a child has
\* descriptors while it runs.
Accepted ==
    /\ main \in {"fork", "parent"} => newsock \in Connections
    /\ main = "fork" =>
          child[newsock] = "none" /\ newsock \notin Waiting /\ newsock \in fds[Daemon]
    /\ \A c \in Connections : child[c] \in {"none", "zombie", "reaped"} => fds[c] = {}

\* The children that have ended.
Departed == {c \in Connections : child[c] \in {"zombie", "reaped"}}

\* Each child that ends leaves a signal or finds one.
Counted ==
    /\ merged <= Cardinality(Departed)
    /\ main = "dead" => ~pending
    /\ ZombiesAreAccounted

DaemonInv == ProcessTypes /\ Queued /\ Accepted /\ PrivateSockets /\ Counted

---------------------------------------------------------------------------
(* The daemon: the queue *)

\* What accept takes has waited, and no longer does.
LEMMA HeadLeaves ==
    ASSUME ProcessTypes, Queued, queue # <<>>
    PROVE  /\ Head(queue) \in Waiting /\ Head(queue) \in Connections
           /\ Tail(queue) \in Seq(Connections)
           /\ \A i, j \in DOMAIN Tail(queue) : Tail(queue)[i] = Tail(queue)[j] => i = j
           /\ \A i \in DOMAIN Tail(queue) :
                 Tail(queue)[i] \in Waiting /\ Tail(queue)[i] # Head(queue)
<1>1. /\ Len(queue) \in Nat \ {0} /\ DOMAIN queue = 1 .. Len(queue)
      /\ Tail(queue) \in Seq(Connections) /\ DOMAIN Tail(queue) = 1 .. Len(queue) - 1
      /\ Head(queue) = queue[1] /\ queue[1] \in Connections
      /\ \A i \in 1 .. Len(queue) - 1 : Tail(queue)[i] = queue[i + 1]
  BY DEF ProcessTypes
<1>2. \A i \in 1 .. Len(queue) - 1 : i + 1 \in DOMAIN queue /\ 1 \in DOMAIN queue /\ i + 1 # 1
  BY <1>1
<1>3. \A i, j \in 1 .. Len(queue) - 1 : i + 1 = j + 1 => i = j
  BY <1>1
<1> HIDE DEF ProcessTypes
<1> QED BY <1>1, <1>2, <1>3 DEF Queued, Waiting

\* A connection that has not waited can be added.
LEMMA Appended ==
    ASSUME ProcessTypes, Queued, NEW c \in Connections, c \notin Waiting
    PROVE  /\ Append(queue, c) \in Seq(Connections)
           /\ \A i, j \in DOMAIN Append(queue, c) :
                 Append(queue, c)[i] = Append(queue, c)[j] => i = j
           /\ \A i \in DOMAIN Append(queue, c) :
                 Append(queue, c)[i] \in Waiting \/ Append(queue, c)[i] = c
<1> DEFINE q == Append(queue, c)
<1>1. /\ Len(queue) \in Nat /\ DOMAIN queue = 1 .. Len(queue)
      /\ q \in Seq(Connections) /\ DOMAIN q = 1 .. Len(queue) + 1
      /\ q[Len(queue) + 1] = c
      /\ \A i \in DOMAIN queue : q[i] = queue[i] /\ i \in DOMAIN q
  BY DEF ProcessTypes
<1>2. \A i \in DOMAIN q : i \in DOMAIN queue \/ i = Len(queue) + 1
  BY <1>1
<1> HIDE DEF q, ProcessTypes
<1>3. \A i \in DOMAIN queue : queue[i] \in Waiting BY DEF Waiting
<1>4. \A i, j \in DOMAIN q : q[i] = q[j] => i = j BY <1>1, <1>2, <1>3 DEF Queued
<1>5. \A i \in DOMAIN q : q[i] \in Waiting \/ q[i] = c BY <1>1, <1>2, <1>3
<1> QED BY <1>1, <1>4, <1>5 DEF q

---------------------------------------------------------------------------
(* The daemon: the parts of the invariant *)

\* Every action keeps the types.
LEMMA TypesStep ==
    ProcessTypes /\ Queued /\ Accepted /\ [DaemonNext]_daemonVars => ProcessTypes'
<1> USE DEF Processes
<1> SUFFICES ASSUME ProcessTypes, Queued, Accepted, [DaemonNext]_daemonVars PROVE ProcessTypes'
  OBVIOUS
<1>1. CASE Accept
  <2>1. Head(queue) \in Connections /\ Tail(queue) \in Seq(Connections) BY <1>1, HeadLeaves
     DEF Accept
  <2> QED BY <1>1, <2>1 DEF Accept, ProcessTypes
<1>2. CASE AcceptFails
  <2>1. Tail(queue) \in Seq(Connections) BY <1>2, HeadLeaves DEF AcceptFails
  <2> QED BY <1>2, <2>1 DEF AcceptFails, ProcessTypes
<1>3. CASE Fork BY <1>3 DEF Fork, ProcessTypes, Accepted
<1>4. CASE ForkFails
  <2>1. child' \in [Connections -> {"none", "started", "serving", "zombie", "reaped"}]
     BY <1>4 DEF ForkFails, ProcessTypes
  <2>2. fds' \in [Processes -> SUBSET (Connections \cup {Listen})] /\ queue' \in Seq(Connections)
     BY <1>4 DEF ForkFails, SetFds, ProcessTypes
  <2> QED BY <1>4, <2>1, <2>2 DEF ForkFails, ProcessTypes
<1>5. CASE ParentCloses BY <1>5 DEF ParentCloses, ProcessTypes
<1>6. CASE Handler BY <1>6
   DEF Handler, Deliver, WaitForChild, Zombies, ProcessTypes
<1>7. ASSUME NEW c \in Connections, ClientConnects(c) PROVE ProcessTypes'
  BY <1>7 DEF ClientConnects, ProcessTypes
<1>8. ASSUME NEW c \in Connections, ClientLeaves(c) PROVE ProcessTypes'
  BY <1>8 DEF ClientLeaves, ProcessTypes
<1>9. ASSUME NEW c \in Connections, ChildCloses(c) PROVE ProcessTypes'
  BY <1>9 DEF SetFds, ChildCloses, ProcessTypes
<1>10. ASSUME NEW c \in Connections, ServingEnds(c) PROVE ProcessTypes'
  BY <1>10 DEF SetFds, ServingEnds, ProcessTypes
<1>11. CASE UNCHANGED daemonVars BY <1>11 DEF daemonVars, ProcessTypes
<1> QED
  BY <1>1, <1>2, <1>3, <1>4, <1>5, <1>6, <1>7, <1>8, <1>9, <1>10, <1>11
   DEF DaemonNext, Main

\* The descriptors of the connections: what each action opens and closes.
LEMMA SocketsStep ==
    ProcessTypes /\ Queued /\ Accepted /\ PrivateSockets /\ [DaemonNext]_daemonVars
          => PrivateSockets'
<1> USE DaemonAssumption DEF Processes
<1> SUFFICES ASSUME ProcessTypes, Queued, Accepted, PrivateSockets,
                    [DaemonNext]_daemonVars
             PROVE  PrivateSockets'
  OBVIOUS
<1>1. CASE Accept
  <2>1. Head(queue) \in Connections BY <1>1, HeadLeaves DEF Accept
  <2> QED BY <1>1, <2>1 DEF Accept, ProcessTypes, PrivateSockets
<1>2. CASE AcceptFails BY <1>2 DEF AcceptFails, PrivateSockets
<1>3. CASE Fork BY <1>3 DEF Fork, ProcessTypes, Accepted, PrivateSockets
<1>4. CASE ForkFails BY <1>4
   DEF SetFds, ForkFails, ProcessTypes, PrivateSockets
<1>5. CASE ParentCloses BY <1>5
   DEF ParentCloses, ProcessTypes, Accepted, PrivateSockets
<1>6. CASE Handler BY <1>6
   DEF Handler, Deliver, WaitForChild, PrivateSockets
<1>7. ASSUME NEW c \in Connections, ClientConnects(c) \/ ClientLeaves(c)
      PROVE PrivateSockets'
  BY <1>7 DEF ClientConnects, ClientLeaves, PrivateSockets
<1>8. ASSUME NEW c \in Connections, ChildCloses(c) PROVE PrivateSockets'
  BY <1>8 DEF SetFds, ChildCloses, ProcessTypes, PrivateSockets
<1>9. ASSUME NEW c \in Connections, ServingEnds(c) PROVE PrivateSockets'
  BY <1>9 DEF SetFds, ServingEnds, ProcessTypes, PrivateSockets
<1>10. CASE UNCHANGED daemonVars BY <1>10 DEF daemonVars, PrivateSockets
<1> QED
  BY <1>1, <1>2, <1>3, <1>4, <1>5, <1>6, <1>7, <1>8, <1>9, <1>10 DEF DaemonNext, Main

\* A connection is accepted once: it leaves the queue when main has it, and its child
\* is forked when nobody else does.
LEMMA AcceptedStep ==
    ProcessTypes /\ Queued /\ Accepted /\ PrivateSockets /\ [DaemonNext]_daemonVars
          => Accepted'
<1> USE DaemonAssumption DEF Processes
<1> SUFFICES ASSUME ProcessTypes, Queued, Accepted, PrivateSockets,
                    [DaemonNext]_daemonVars
             PROVE  Accepted'
  OBVIOUS
<1>1. CASE Accept
  <2>1. Head(queue) \in Waiting /\ Head(queue) \in Connections /\ Head(queue) \notin Waiting'
     BY <1>1, HeadLeaves DEF Accept, Waiting
  <2>2. child[Head(queue)] = "none" BY <2>1 DEF Queued
  <2> QED BY <1>1, <2>1, <2>2 DEF Accept, Accepted, ProcessTypes
<1>2. CASE AcceptFails
  BY <1>2 DEF AcceptFails, Accepted
<1>3. CASE Fork BY <1>3 DEF Fork, ProcessTypes, Accepted
<1>4. CASE ForkFails
  <2>1. \A c \in Connections : child'[c] \in {"none", "zombie", "reaped"} =>
           child[c] \in {"none", "zombie", "reaped"} /\ fds'[c] = fds[c]
     BY <1>4 DEF SetFds, ForkFails, ProcessTypes
  <2> QED BY <1>4, <2>1 DEF ForkFails, Accepted
<1>5. CASE ParentCloses BY <1>5 DEF ParentCloses, ProcessTypes, Accepted
<1>6. CASE Handler BY <1>6
   DEF Handler, Deliver, WaitForChild, Zombies, Waiting,
       Accepted, ProcessTypes
<1>7. ASSUME NEW c \in Connections, ClientConnects(c) PROVE Accepted'
  <2>1. c \notin Waiting /\ c \notin fds[Daemon] BY <1>7
     DEF ClientConnects, Fresh
  <2>2. \A d \in Connections : d \in Waiting' => d \in Waiting \/ d = c
     BY <1>7, <2>1, Appended DEF ClientConnects, Waiting
  <2>3. main = "fork" => newsock # c BY <2>1 DEF Accepted
  <2> QED BY <1>7, <2>1, <2>2, <2>3 DEF ClientConnects, Accepted
<1>8. ASSUME NEW c \in Connections, ClientLeaves(c) PROVE Accepted'
  BY <1>8 DEF ClientLeaves, Waiting, Accepted
<1>9. ASSUME NEW c \in Connections, ChildCloses(c) PROVE Accepted'
  BY <1>9 DEF SetFds, ChildCloses, Waiting, ProcessTypes, Accepted
<1>10. ASSUME NEW c \in Connections, ServingEnds(c) PROVE Accepted'
  BY <1>10 DEF SetFds, ServingEnds, Waiting, ProcessTypes, Accepted
<1>11. CASE UNCHANGED daemonVars BY <1>11 DEF daemonVars, Waiting, Accepted
<1> QED
  BY <1>1, <1>2, <1>3, <1>4, <1>5, <1>6, <1>7, <1>8, <1>9, <1>10, <1>11
   DEF DaemonNext, Main

\* A connection waits once, and while it waits no process has it.
LEMMA QueuedStep ==
    ProcessTypes /\ Queued /\ Accepted /\ PrivateSockets /\ [DaemonNext]_daemonVars
          => Queued'
<1> USE DaemonAssumption DEF Processes
<1> SUFFICES ASSUME ProcessTypes, Queued, Accepted, PrivateSockets,
                    [DaemonNext]_daemonVars
             PROVE  Queued'
  OBVIOUS
<1>1. CASE Accept
  <2>1. \A c \in Waiting' : c \in Waiting /\ c # Head(queue)
     BY <1>1, HeadLeaves DEF Accept, Waiting
  <2>2. \A i, j \in DOMAIN queue' : queue'[i] = queue'[j] => i = j
     BY <1>1, HeadLeaves DEF Accept
  <2>3. UNCHANGED child /\ \A p \in Processes : fds'[p] \subseteq fds[p] \cup {Head(queue)}
     BY <1>1 DEF Accept, ProcessTypes
  <2> QED BY <2>1, <2>2, <2>3 DEF Queued
<1>2. CASE AcceptFails
  <2>1. \A c \in Waiting' : c \in Waiting BY <1>2, HeadLeaves
     DEF AcceptFails, Waiting
  <2>2. \A i, j \in DOMAIN queue' : queue'[i] = queue'[j] => i = j
     BY <1>2, HeadLeaves DEF AcceptFails
  <2> QED BY <1>2, <2>1, <2>2 DEF AcceptFails, Queued
<1>3. CASE Fork
  <2>1. newsock \in Connections /\ newsock \notin Waiting BY <1>3 DEF Fork, Accepted
  <2>2. \A c \in Waiting : c \in Connections BY DEF Waiting, ProcessTypes
  <2>3. UNCHANGED queue BY <1>3 DEF Fork
  <2>4. \A c \in Waiting : child'[c] = child[c] BY <1>3, <2>1, <2>2
     DEF Fork, ProcessTypes
  <2>5. \A p \in Processes : fds'[p] = fds[p] \/ fds'[p] = fds[Daemon]
     BY <1>3 DEF Fork, ProcessTypes
  <2> QED BY <2>3, <2>4, <2>5 DEF Queued, Waiting
<1>4. CASE ForkFails
  <2>1. \A c \in Waiting : c \in Connections BY DEF Waiting, ProcessTypes
  <2>2. \A c \in Waiting : child'[c] = "none" BY <1>4, <2>1 DEF ForkFails, Queued
  <2>3. \A p \in Processes : fds'[p] \subseteq fds[p] BY <1>4
     DEF ForkFails, SetFds, ProcessTypes
  <2>4. queue' = queue \/ queue' = <<>> BY <1>4 DEF ForkFails, SetFds
  <2> QED BY <2>2, <2>3, <2>4 DEF Queued, Waiting
<1>5. CASE ParentCloses BY <1>5 DEF ParentCloses, ProcessTypes, Waiting, Queued
<1>6. CASE Handler
  BY <1>6
   DEF Handler, Deliver, WaitForChild, Zombies, Waiting,
       ProcessTypes, Queued
<1>7. ASSUME NEW c \in Connections, ClientConnects(c) PROVE Queued'
  <2>1. c \notin Waiting /\ child[c] = "none" /\ \A p \in Processes : c \notin fds[p]
     BY <1>7 DEF ClientConnects, Fresh, Accepted, PrivateSockets
  <2>2. \A d \in Waiting' : d \in Waiting \/ d = c
     BY <1>7, <2>1, Appended DEF ClientConnects, Waiting
  <2>3. \A i, j \in DOMAIN queue' : queue'[i] = queue'[j] => i = j
     BY <1>7, <2>1, Appended DEF ClientConnects
  <2> QED BY <1>7, <2>1, <2>2, <2>3 DEF ClientConnects, Queued
<1>8. ASSUME NEW c \in Connections, ClientLeaves(c) PROVE Queued'
  BY <1>8 DEF ClientLeaves, Waiting, Queued
<1>9. ASSUME NEW c \in Connections, ChildCloses(c) \/ ServingEnds(c) PROVE Queued'
  <2>1. c \notin Waiting BY <1>9 DEF ChildCloses, ServingEnds, Queued
  <2>2. \A d \in Waiting : d \in Connections BY DEF Waiting, ProcessTypes
  <2>3. \A d \in Waiting : child'[d] = child[d]
     BY <1>9, <2>1, <2>2 DEF ChildCloses, ServingEnds, ProcessTypes
  <2>4. \A p \in Processes : fds'[p] \subseteq fds[p]
     BY <1>9 DEF ChildCloses, ServingEnds, SetFds, ProcessTypes
  <2>5. queue' = queue \/ queue' = <<>> BY <1>9
     DEF ChildCloses, ServingEnds, SetFds
  <2> QED BY <2>3, <2>4, <2>5 DEF Queued, Waiting
<1>10. CASE UNCHANGED daemonVars BY <1>10 DEF daemonVars, Waiting, Queued
<1> QED
  BY <1>1, <1>2, <1>3, <1>4, <1>5, <1>6, <1>7, <1>8, <1>9, <1>10 DEF DaemonNext, Main

---------------------------------------------------------------------------
(* The daemon: counting *)

\* Sets of connections are finite, and their cardinalities are numbers.
LEMMA ConnSets ==
    ASSUME NEW S \in SUBSET Connections
    PROVE  IsFiniteSet(S) /\ Cardinality(S) \in Nat
BY FS_Subset, FS_CardinalityType, DaemonAssumption

\* Every action keeps the account of the signals: a child that ends leaves one or
\* finds one, and the handler takes one child for each.
LEMMA CountedStep ==
    ProcessTypes /\ Accepted /\ Counted /\ [DaemonNext]_daemonVars => Counted'
<1> SUFFICES ASSUME ProcessTypes, Accepted, Counted, [DaemonNext]_daemonVars PROVE Counted'
  OBVIOUS
<1>0. /\ IsFiniteSet(Zombies) /\ Cardinality(Zombies) \in Nat
      /\ IsFiniteSet(Departed) /\ Cardinality(Departed) \in Nat
  <2>1. Zombies \in SUBSET Connections /\ Departed \in SUBSET Connections
     BY DEF Zombies, Departed
  <2> QED BY <2>1, ConnSets
<1>1. CASE Accept \/ AcceptFails \/ ParentCloses
  <2>1. Zombies' = Zombies /\ Departed' = Departed
     BY <1>1 DEF Accept, AcceptFails, ParentCloses, Zombies, Departed
  <2> QED BY <1>1, <2>1
     DEF Accept, AcceptFails, ParentCloses, Counted,
         ZombiesAreAccounted
<1>2. CASE Fork
  <2>1. newsock \in Connections /\ child[newsock] = "none" BY <1>2 DEF Fork, Accepted
  <2>2. Zombies' = Zombies /\ Departed' = Departed
     BY <1>2, <2>1 DEF Fork, Zombies, Departed, ProcessTypes
  <2> QED BY <1>2, <2>2 DEF Fork, Counted, ZombiesAreAccounted
<1>3. CASE ForkFails
  <2>1. Zombies' = {} /\ Departed' = Departed BY <1>3
     DEF ForkFails, Zombies, Departed, ProcessTypes
  <2>2. Cardinality(Zombies') = 0 BY <2>1, FS_EmptySet
  <2> QED BY <1>3, <2>1, <2>2
     DEF ForkFails, Counted, ZombiesAreAccounted, ProcessTypes
<1>4. CASE Deliver
  BY <1>4
   DEF Deliver, Counted, ZombiesAreAccounted, Zombies, Departed,
       ProcessTypes
<1>5. CASE WaitForChild
  <2>1. Departed' = Departed BY <1>5
     DEF WaitForChild, Zombies, Departed, ProcessTypes
  <2>2. CASE Zombies = {}
    <3>1. Zombies' = {} BY <1>5, <2>2 DEF WaitForChild, Zombies
    <3>2. Cardinality(Zombies') = 0 BY <3>1, FS_EmptySet
    <3> QED BY <1>5, <2>1, <3>2
       DEF WaitForChild, Counted, ZombiesAreAccounted, ProcessTypes
  <2>3. CASE Zombies # {}
    <3>1. PICK c \in Zombies : child' = [child EXCEPT ![c] = "reaped"]
       BY <1>5, <2>3 DEF WaitForChild
    <3>2. Zombies' = Zombies \ {c} BY <3>1 DEF Zombies, ProcessTypes
    <3>3. Cardinality(Zombies') = Cardinality(Zombies) - 1
       BY <1>0, <3>1, <3>2, FS_RemoveElement
    <3> QED BY <1>0, <1>5, <2>1, <3>3
       DEF WaitForChild, Counted, ZombiesAreAccounted, ProcessTypes
  <2> QED BY <2>2, <2>3
<1>6. ASSUME NEW c \in Connections, ClientConnects(c) \/ ClientLeaves(c)
      PROVE Counted'
  <2>1. Zombies' = Zombies /\ Departed' = Departed
     BY <1>6 DEF ClientConnects, ClientLeaves, Zombies, Departed
  <2> QED BY <1>6, <2>1
     DEF ClientConnects, ClientLeaves, Counted, ZombiesAreAccounted
<1>7. ASSUME NEW c \in Connections, ChildCloses(c) PROVE Counted'
  <2>1. Zombies' = Zombies /\ Departed' = Departed
     BY <1>7 DEF ChildCloses, Zombies, Departed, ProcessTypes
  <2> QED BY <1>7, <2>1 DEF ChildCloses, Counted, ZombiesAreAccounted
<1>8. ASSUME NEW c \in Connections, ServingEnds(c) PROVE Counted'
  <2>1. Departed' = Departed \cup {c} /\ c \notin Departed /\ c \notin Zombies
     BY <1>8 DEF ServingEnds, Departed, Zombies, ProcessTypes
  <2>2. Cardinality(Departed') = Cardinality(Departed) + 1 BY <1>0, <2>1, FS_AddElement
  <2>3. merged' <= Cardinality(Departed') BY <1>0, <1>8, <2>2
     DEF ServingEnds, Counted, ProcessTypes
  <2>4. CASE main = "dead"
    <3>1. Zombies' = Zombies BY <1>8, <2>4
       DEF ServingEnds, Zombies, ProcessTypes
    <3> QED BY <1>8, <2>3, <2>4, <3>1 DEF ServingEnds, Counted, ZombiesAreAccounted
  <2>5. CASE main # "dead"
    <3>1. Zombies' = Zombies \cup {c} BY <1>8, <2>5
       DEF ServingEnds, Zombies, ProcessTypes
    <3>2. Cardinality(Zombies') = Cardinality(Zombies) + 1
       BY <1>0, <2>1, <3>1, FS_AddElement
    <3>3. /\ pending' = TRUE /\ UNCHANGED <<main, handling>>
          /\ merged \in Nat /\ merged' = IF pending THEN merged + 1 ELSE merged
       BY <1>8, <2>5 DEF ServingEnds, ProcessTypes
    <3>4. ZombiesAreAccounted' BY <1>0, <3>2, <3>3
       DEF Counted, ZombiesAreAccounted
    <3> QED BY <2>3, <2>5, <3>3, <3>4 DEF Counted
  <2> QED BY <2>4, <2>5
<1>9. CASE UNCHANGED daemonVars
  BY <1>9 DEF daemonVars, Counted, ZombiesAreAccounted, Zombies, Departed
<1> QED
  BY <1>1, <1>2, <1>3, <1>4, <1>5, <1>6, <1>7, <1>8, <1>9
   DEF DaemonNext, Main, Handler

\* The invariant holds of every run.
LEMMA DaemonSafe ==
    DaemonSpec => []DaemonInv
<1>1. DaemonInit => DaemonInv
  <2> SUFFICES ASSUME DaemonInit PROVE DaemonInv
    OBVIOUS
  <2> USE DaemonAssumption DEF DaemonInit, Processes
  <2>1. ProcessTypes
    <3>1. queue \in Seq(Connections) OBVIOUS
    <3>2. child \in [Connections -> {"none", "started", "serving", "zombie", "reaped"}] OBVIOUS
    <3>3. fds \in [Processes -> SUBSET (Connections \cup {Listen})] OBVIOUS
    <3> QED BY <3>1, <3>2, <3>3 DEF ProcessTypes
  <2>2. Waiting = {} BY DEF Waiting
  <2>3. Queued /\ Accepted BY <2>2 DEF Queued, Accepted
  <2>4. PrivateSockets BY DEF PrivateSockets
  <2>5. Zombies = {} /\ Departed = {} BY DEF Zombies, Departed
  <2>6. Cardinality(Zombies) = 0 /\ Cardinality(Departed) = 0 BY <2>5, FS_EmptySet
  <2> QED BY <2>1, <2>3, <2>4, <2>6 DEF DaemonInv, Counted, ZombiesAreAccounted
<1>2. DaemonInv /\ [DaemonNext]_daemonVars => DaemonInv'
  BY TypesStep, QueuedStep, AcceptedStep, SocketsStep, CountedStep DEF DaemonInv
<1> QED BY <1>1, <1>2, PTL DEF DaemonSpec

---------------------------------------------------------------------------
(* The daemon: theorems *)

\* The state stays well formed: what waits to be accepted is in nobody's hands, and
\* no more signals have been merged than there are clients.
THEOREM DaemonTypesAlways ==
    DaemonSpec => []DaemonTypes
<1>1. DaemonInv => DaemonTypes
  <2> SUFFICES ASSUME DaemonInv PROVE DaemonTypes
    OBVIOUS
  <2>1. Departed \subseteq Connections BY DEF Departed
  <2>2. Cardinality(Departed) <= Cardinality(Connections) /\ Cardinality(Departed) \in Nat
        /\ Cardinality(Connections) \in Nat
     BY <2>1, ConnSets, FS_Subset, DaemonAssumption
  <2>3. merged \in 0 .. Cardinality(Connections) BY <2>2 DEF DaemonInv, Counted, ProcessTypes
  <2> QED BY <2>3 DEF DaemonInv, ProcessTypes, Queued, Accepted, DaemonTypes
<1> QED BY <1>1, DaemonSafe, PTL

\* No child inherits the connection of another client, whenever the handler of
\* SIGCHLD runs (sdbd.c:209-228).
THEOREM PrivateSocketsAlways ==
    DaemonSpec => []PrivateSockets
<1>1. DaemonInv => PrivateSockets BY DEF DaemonInv
<1> QED BY <1>1, DaemonSafe, PTL

\* At most one zombie stays for each signal that was merged with another one
\* (sdbd.c:48-53).
THEOREM ZombiesAreAccountedAlways ==
    DaemonSpec => []ZombiesAreAccounted
<1>1. DaemonInv => ZombiesAreAccounted BY DEF DaemonInv, Counted
<1> QED BY <1>1, DaemonSafe, PTL
=============================================================================
