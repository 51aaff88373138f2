------------------------ MODULE OracleDriver_proofs -------------------------
(***************************************************************************)
(* Proofs about the oracle driver, for any queries, columns, rows and      *)
(* number of buffers, and whichever calls of the database fail.            *)
(***************************************************************************)
EXTENDS OracleDriver, SequenceTheorems, TLAPS

\* A query has a login of its own from when it logs on to when it logs off.
OwnLogins == IF call # NULL /\ call.own /\ call.at \notin {"login", "return"} THEN 1 ELSE 0

KeptLogins == IF kept[1] = "open" THEN 1 ELSE 0

\* The types, and whose logins the database holds.
Shape ==
    /\ kept \in {"none", "failed", "open"} \X Buffers
    /\ lost \in Nat /\ lost <= MaxLost
    /\ logins = lost + KeptLogins + OwnLogins
    /\ crashed \in BOOLEAN
    /\ call # NULL =>
          /\ call \in Calls
          /\ call.own \/ kept[1] = "open"
          /\ call.at \in {"login", "cursor", "logoff"} => call.own

\* The beginnings of the rows of q before the n-th, as the callback is given them.
Passed(q, n, w) == [i \in 1 .. n - 1 |-> SubSeq(Rows[q][i], 1, w)]

\* One and the same value for each row before the n-th.
Repeated(value, n) == [i \in 1 .. n - 1 |-> <<value>>]

\* The buffers with which the query has begun.
Start == IF call.own THEN Fresh ELSE kept[2]

Failed == {"olog", "oopen", "oparse", "oexec"}

\* How many values of a row are passed on.
Taken == IF Undescribed THEN 1 ELSE Width(call.q)

\* What has been passed on.
Progress ==
    call # NULL =>
       /\ IF Undescribed /\ call.defined = 0
          THEN /\ delivered = Repeated(Shown(call.buffers[1]), call.next)
               /\ call.buffers[1].null = Start[1].null /\ call.buffers[1].held = Start[1].held
          ELSE delivered = Passed(call.q, call.next, Taken)
       /\ Undescribed => call.ncols = 1

\* How far a query has come, and by which calls that have failed.
Course ==
    call # NULL =>
       /\ call.next - 1 <= Len(Rows[call.q])
       /\ call.ncols <= MaxCols /\ call.defined <= Width(call.q)
       /\ call.at \in {"login", "cursor", "parse", "describe", "exec"} =>
             call.next = 1 /\ call.res = 0
       /\ call.at \in {"login", "cursor", "parse", "describe"} =>
             call.failed = {} /\ call.buffers = Start
       /\ call.at \in {"describe", "fetch"} => IsSelect(call.q)
       /\ call.at = "fetch" => call.res = call.next - 1
       /\ call.at \in {"exec", "fetch"} =>
             \/ call.failed \in {{"odescr"}, {"odefin"}}
             \/ /\ call.failed = {}
                /\ IsSelect(call.q) => call.ncols = Width(call.q) /\ call.defined = Width(call.q)
       /\ call.at \in {"logoff", "return"} =>
             \/ /\ call.res = call.next - 1
                /\ call.failed \subseteq {"odescr", "odefin", "ofetch"}
                /\ "ofetch" \notin call.failed => call.next - 1 = Len(Rows[call.q])
             \/ /\ call.res = -1 /\ call.next = 1
                /\ call.failed \in {{f} : f \in Failed}

IInv == Shape /\ Course /\ Progress

---------------------------------------------------------------------------
(* The operators of the model *)

\* The smaller of two numbers is one of them, and no greater than the other.
LEMMA MinOfTwo ==
    ASSUME NEW a \in Nat, NEW b \in Nat
    PROVE  Min({a, b}) \in {a, b} /\ Min({a, b}) <= a /\ Min({a, b}) <= b
<1>1. \E x \in {a, b} : \A y \in {a, b} : x <= y
  <2>1. CASE a <= b BY <2>1
  <2>2. CASE ~(a <= b)
    <3>1. b <= a /\ b <= b BY <2>2
    <3> QED BY <3>1
  <2> QED BY <2>1, <2>2
<1>2. Min({a, b}) \in {a, b} /\ \A y \in {a, b} : Min({a, b}) <= y BY <1>1 DEF Min
<1> QED BY <1>2

\* The columns that are passed on are columns of the query, and there is room for them.
LEMMA WidthFits ==
    ASSUME NEW q \in Queries
    PROVE  /\ Width(q) \in Nat /\ Width(q) <= MaxCols
           /\ Len(Columns[q]) \in Nat /\ Width(q) <= Len(Columns[q])
           /\ \A c \in 1 .. Width(q) : Columns[q][c] \in Types
           /\ IsSelect(q) => Width(q) # 0
<1>1. MaxCols \in Nat \ {0} /\ Columns[q] \in Seq(Types)
   BY OracleAssumption DEF OracleAssumption
<1>2. Len(Columns[q]) \in Nat
      /\ \A c \in 1 .. Len(Columns[q]) : Columns[q][c] \in Types
      /\ Columns[q] # <<>> => Len(Columns[q]) # 0
   BY <1>1
<1>3. Width(q) \in {Len(Columns[q]), MaxCols} /\ Width(q) <= Len(Columns[q]) /\ Width(q) <= MaxCols
   BY <1>1, <1>2, MinOfTwo DEF Width
<1> QED BY <1>1, <1>2, <1>3 DEF IsSelect

\* A buffer shows what has been fetched into it.
LEMMA FetchedIsShown ==
    ASSUME NEW b \in [type : Types, null : BOOLEAN, held : [Types -> Values]], NEW v \in Values
    PROVE  /\ Fetched(b, v) \in [type : Types, null : BOOLEAN, held : [Types -> Values]]
           /\ Shown(Fetched(b, v)) = v
<1>1. CASE v = NULL
  <2>1. Fetched(b, v) = [b EXCEPT !.null = TRUE] BY <1>1 DEF Fetched
  <2> QED BY <1>1, <2>1 DEF Shown
<1>2. CASE v # NULL
  <2>1. Fetched(b, v) = [b EXCEPT !.null = FALSE, !.held = [b.held EXCEPT ![b.type] = v]]
     BY <1>2 DEF Fetched
  <2> QED BY <2>1 DEF Shown
<1> QED BY <1>1, <1>2

\* A connection begins with buffers that hold nothing.
LEMMA FreshIsBuffers == Fresh \in Buffers
BY DEF Fresh, Buffers, Values, Types

\* Each row of a query has a value for each of its columns.
LEMMA RowValues ==
    ASSUME NEW q \in Queries, NEW r \in 1 .. Len(Rows[q])
    PROVE  /\ Len(Rows[q]) \in Nat /\ Len(Rows[q][r]) \in Nat
           /\ Rows[q][r] \in Seq({Rows[q][r][c] : c \in 1 .. Len(Rows[q][r])})
           /\ Len(Rows[q][r]) = Len(Columns[q])
           /\ \A c \in 1 .. Len(Columns[q]) : Rows[q][r][c] \in Values
<1>0. /\ Rows[q] \in Seq({Rows[q][i] : i \in 1 .. Len(Rows[q])})
      /\ Len(Rows[q][r]) = Len(Columns[q])
      /\ Rows[q][r] \in Seq({Rows[q][r][c] : c \in 1 .. Len(Rows[q][r])})
   BY OracleAssumption, Zenon DEF OracleAssumption
<1>1. Len(Rows[q]) \in Nat /\ DOMAIN Rows[q] = 1 .. Len(Rows[q])
  <2>1. \A T, s : s \in Seq(T) => Len(s) \in Nat /\ DOMAIN s = 1 .. Len(s) OBVIOUS
  <2> QED BY <1>0, <2>1, Zenon
<1>2. Len(Rows[q][r]) \in Nat /\ DOMAIN Rows[q][r] = 1 .. Len(Rows[q][r])
  <2>1. \A T, s : s \in Seq(T) => Len(s) \in Nat /\ DOMAIN s = 1 .. Len(s) OBVIOUS
  <2> QED BY <1>0, <2>1, Zenon
<1>3. ASSUME NEW c \in 1 .. Len(Columns[q]) PROVE Rows[q][r][c] \in Values
  <2>1. c \in DOMAIN Rows[q][r] BY <1>0, <1>2
  <2>2. r \in DOMAIN Rows[q] BY <1>1
  <2>3. Rows[q][r][c] \in UNION {{Rows[q][i][d] : d \in DOMAIN Rows[q][i]} : i \in DOMAIN Rows[q]}
     BY <2>1, <2>2
  <2>4. Rows[q][r][c] \in UNION {UNION {{Rows[p][i][d] : d \in DOMAIN Rows[p][i]} :
                                          i \in DOMAIN Rows[p]} : p \in Queries}
     BY <2>3
  <2> QED BY <2>4 DEF Values
<1> QED BY <1>0, <1>1, <1>2, <1>3

\* What the buffers hold of the first w columns of a row is the beginning of the row.
LEMMA FirstColumns ==
    ASSUME NEW S, NEW row \in Seq(S), NEW w \in Nat, w <= Len(row),
           NEW b, \A c \in 1 .. w : b[c] = row[c]
    PROVE  [c \in 1 .. w |-> b[c]] = SubSeq(row, 1, w)
<1>1. SubSeq(row, 1, w) = [c \in 1 .. w |-> row[c]]
   BY SubSeqProperties
<1> QED BY <1>1

\* Before the first row nothing has been passed.
LEMMA NothingPassed == \A q, w, v : Passed(q, 1, w) = <<>> /\ Repeated(v, 1) = <<>>
<1> TAKE q, w, v
<1>1. 1 .. 1 - 1 = {} OBVIOUS
<1> QED BY <1>1 DEF Passed, Repeated

\* A sequence that a function gives grows by the next value of the function.
LEMMA NextOf ==
    ASSUME NEW f(_), NEW n \in Nat \ {0}
    PROVE  [i \in 1 .. (n + 1) - 1 |-> f(i)] = Append([i \in 1 .. n - 1 |-> f(i)], f(n))
<1> DEFINE S == {f(i) : i \in 1 .. n}
           s == [i \in 1 .. n - 1 |-> f(i)]
           u == [i \in 1 .. (n + 1) - 1 |-> f(i)]
           t == Append(s, f(n))
<1>1. s \in Seq(S) /\ Len(s) = n - 1 /\ f(n) \in S OBVIOUS
<1>2. u \in Seq(S) /\ Len(u) = n /\ \A i \in 1 .. n : u[i] = f(i) OBVIOUS
<1>3. t \in Seq(S) /\ Len(t) = n /\ \A i \in 1 .. n : t[i] = f(i) BY <1>1
<1> HIDE DEF S, t, u
<1>4. u = t BY <1>2, <1>3, SeqEqual, Zenon
<1> QED BY <1>4 DEF t, u

\* The next row follows those that were passed before.
LEMMA PassedNext ==
    ASSUME NEW q \in Queries, NEW n \in Nat \ {0}, NEW w, NEW v
    PROVE  /\ Passed(q, n + 1, w) = Append(Passed(q, n, w), SubSeq(Rows[q][n], 1, w))
           /\ Repeated(v, n + 1) = Append(Repeated(v, n), <<v>>)
<1>1. Passed(q, n + 1, w) = Append(Passed(q, n, w), SubSeq(Rows[q][n], 1, w))
  <2> DEFINE f(i) == SubSeq(Rows[q][i], 1, w)
  <2>1. [i \in 1 .. (n + 1) - 1 |-> f(i)] = Append([i \in 1 .. n - 1 |-> f(i)], f(n))
    <3> HIDE DEF f
    <3> QED BY NextOf
  <2> QED BY <2>1 DEF Passed
<1>2. Repeated(v, n + 1) = Append(Repeated(v, n), <<v>>)
  <2> DEFINE f(i) == <<v>>
  <2>1. [i \in 1 .. (n + 1) - 1 |-> f(i)] = Append([i \in 1 .. n - 1 |-> f(i)], f(n))
    <3> HIDE DEF f
    <3> QED BY NextOf
  <2> QED BY <2>1 DEF Repeated
<1> QED BY <1>1, <1>2

---------------------------------------------------------------------------
(* The inductive invariant *)

\* The logins that there may be are numbers.
LEMMA LoginsAreNumbers ==
    ASSUME Shape
    PROVE  KeptLogins \in 0 .. 1 /\ OwnLogins \in 0 .. 1 /\ MaxLost \in Nat /\ logins \in Int
<1>1. KeptLogins \in 0 .. 1 /\ OwnLogins \in 0 .. 1 BY DEF KeptLogins, OwnLogins
<1> QED BY <1>1, OracleAssumption DEF OracleAssumption, Shape

\* Opening and closing the kept connection leaves the buffers fresh.
LEMMA KeptStep ==
    ASSUME IInv, Open \/ OpenWithoutCursor \/ Close
    PROVE  IInv'
<1>1. call = NULL /\ call' = NULL /\ OwnLogins = 0 /\ OwnLogins' = 0
   BY DEF Open, OpenWithoutCursor, Close, OwnLogins
<1>2. /\ lost \in Nat /\ lost <= MaxLost /\ MaxLost \in Nat /\ crashed \in BOOLEAN
      /\ kept[1] = "open" => logins = lost + 1
      /\ kept[1] # "open" => logins = lost
  <2>1. /\ lost \in Nat /\ lost <= MaxLost /\ MaxLost \in Nat /\ crashed \in BOOLEAN
        /\ logins = lost + KeptLogins + OwnLogins
     BY LoginsAreNumbers DEF IInv, Shape
  <2>2. kept[1] = "open" => KeptLogins = 1 BY DEF KeptLogins
  <2>3. kept[1] # "open" => KeptLogins = 0 BY DEF KeptLogins
  <2> QED BY <1>1, <2>1, <2>2, <2>3
<1>3. ASSUME NEW state \in {"none", "failed", "open"}, NEW k \in {0, 1},
             state = "open" <=> k = 1, kept' = <<state, Fresh>>,
             lost' \in Nat, lost' <= MaxLost, crashed' = crashed, logins' = lost' + k
      PROVE  Shape'
  <2>1. kept' \in {"none", "failed", "open"} \X Buffers /\ kept'[1] = state
     BY <1>3, FreshIsBuffers
  <2>2. KeptLogins' = k BY <1>3, <2>1 DEF KeptLogins
  <2>3. logins' = lost' + KeptLogins' + OwnLogins' BY <1>1, <1>3, <2>2
  <2> QED BY <1>1, <1>2, <1>3, <2>1, <2>3 DEF Shape
<1>4. ASSUME Open PROVE Shape'
  <2>1. kept[1] = "none" /\ lost' = lost /\ crashed' = crashed BY <1>4 DEF Open
  <2>2. CASE kept' = <<"open", Fresh>> /\ logins' = logins + 1
    <3>1. logins' = lost' + 1 /\ lost' \in Nat /\ lost' <= MaxLost BY <1>2, <2>1, <2>2
    <3> QED BY <1>3, <2>1, <2>2, <3>1
  <2>3. CASE kept' = <<"failed", Fresh>> /\ UNCHANGED logins
    <3>1. logins' = lost' + 0 /\ lost' \in Nat /\ lost' <= MaxLost BY <1>2, <2>1, <2>3
    <3> QED BY <1>3, <2>1, <2>3, <3>1
  <2> QED BY <1>4, <2>2, <2>3 DEF Open
<1>5. ASSUME OpenWithoutCursor PROVE Shape'
  <2>1. kept[1] = "none" BY <1>5 DEF OpenWithoutCursor
  <2>2. CASE kept' = <<"failed", Fresh>> /\ UNCHANGED <<logins, lost, crashed>>
    <3>1. logins' = lost' + 0 /\ lost' \in Nat /\ lost' <= MaxLost BY <1>2, <2>1, <2>2
    <3> QED BY <1>3, <2>2, <3>1
  <2>3. CASE /\ kept' = <<"failed", Fresh>> /\ lost < MaxLost
             /\ logins' = logins + 1 /\ lost' = lost + 1 /\ UNCHANGED crashed
    <3>1. logins' = lost' + 0 /\ lost' \in Nat /\ lost' <= MaxLost BY <1>2, <2>1, <2>3
    <3> QED BY <1>3, <2>3, <3>1
  <2>4. CASE crashed' = TRUE /\ UNCHANGED <<kept, logins, lost>>
    BY <1>1, <2>4 DEF IInv, Shape, KeptLogins
  <2> QED BY <1>5, <2>2, <2>3, <2>4 DEF OpenWithoutCursor
<1>6. ASSUME Close PROVE Shape'
  <2>1. kept' = <<"none", Fresh>> /\ crashed' = crashed BY <1>6 DEF Close
  <2>2. logins' = lost' + 0 /\ lost' \in Nat /\ lost' <= MaxLost
    <3>1. CASE kept[1] = "open" /\ LoggedOff BY <1>2, <3>1 DEF LoggedOff
    <3>2. CASE kept[1] = "open" /\ MayFail("ologof") /\ LeftBehind BY <1>2, <3>2 DEF LeftBehind
    <3>3. CASE kept[1] = "failed" /\ UNCHANGED <<logins, lost>> BY <1>2, <3>3
    <3> QED BY <1>6, <3>1, <3>2, <3>3 DEF Close
  <2> QED BY <1>3, <2>1, <2>2
<1> QED BY <1>1, <1>4, <1>5, <1>6 DEF IInv, Progress, Course

\* A query starts with the buffers that the query before it on the connection has left.
LEMMA CallStep ==
    ASSUME IInv, NEW q \in Queries, NEW byId \in BOOLEAN, Call(q, byId)
    PROVE  IInv'
<1>1. kept[1] \in {"none", "failed", "open"} /\ kept[2] \in Buffers BY DEF IInv, Shape
<1>2. PICK own \in BOOLEAN, at \in {"login", "parse"}, b \in Buffers :
         /\ call' = [q |-> q, own |-> own, at |-> at, buffers |-> b,
                     ncols |-> 0, defined |-> 0, next |-> 1, res |-> 0, failed |-> {}]
         /\ (own /\ at = "login" /\ b = Fresh)
            \/ (~own /\ kept[1] = "open" /\ at = "parse" /\ b = kept[2])
  <2>1. CASE ~byId \/ kept[1] = "failed" BY FreshIsBuffers, <2>1 DEF Call
  <2>2. CASE ~(~byId \/ kept[1] = "failed")
    <3>1. kept[1] = "open" BY <1>1, <2>2 DEF Call
    <3>2. call' = [q |-> q, own |-> FALSE, at |-> "parse", buffers |-> kept[2],
                   ncols |-> 0, defined |-> 0, next |-> 1, res |-> 0, failed |-> {}]
       BY <2>2 DEF Call
    <3> QED BY <1>1, <3>1, <3>2
  <2> QED BY <2>1, <2>2
<1>3. call' \in Calls
  <2>1. at \in Steps BY DEF Steps
  <2> QED BY <1>2, <2>1 DEF Calls
<1>4. call = NULL /\ UNCHANGED <<kept, logins, lost, crashed>> /\ delivered' = <<>> BY DEF Call
<1>5. Shape'
  <2>1. OwnLogins = 0 BY <1>4 DEF OwnLogins
  <2>2. OwnLogins' = 0 BY <1>2 DEF OwnLogins
  <2>3. KeptLogins' = KeptLogins BY <1>4 DEF KeptLogins
  <2> QED BY <1>2, <1>3, <1>4, <2>1, <2>2, <2>3 DEF IInv, Shape
<1>6. Course'
  <2>1. Len(Rows[q]) \in Nat
    <3>1. Rows[q] \in Seq({Rows[q][i] : i \in 1 .. Len(Rows[q])})
       BY OracleAssumption DEF OracleAssumption
    <3> QED BY <3>1
  <2>2. call'.buffers = Start' BY <1>2, <1>4 DEF Start
  <2> QED BY <1>2, <2>1, <2>2, WidthFits, OracleAssumption DEF Course, OracleAssumption
<1>7. Progress'
  <2>1. ~Undescribed' BY <1>2 DEF Undescribed
  <2> QED BY <1>2, <1>4, <2>1, NothingPassed DEF Progress
<1> QED BY <1>5, <1>6, <1>7 DEF IInv

\* What a step of a query owes to the shape of the state.
LEMMA ShapeKept ==
    ASSUME IInv, call # NULL, call' \in Calls, call'.own = call.own, kept' = kept,
           crashed' \in BOOLEAN, lost' \in Nat, lost' <= MaxLost,
           call'.at \in {"login", "cursor", "logoff"} => call.own,
           logins' = lost' + KeptLogins
                     + (IF call.own /\ call'.at \notin {"login", "return"} THEN 1 ELSE 0)
    PROVE  Shape'
<1>1. call' # NULL BY NullAssumption
<1>2. KeptLogins' = KeptLogins BY DEF KeptLogins
<1>3. OwnLogins' = IF call.own /\ call'.at \notin {"login", "return"} THEN 1 ELSE 0
   BY <1>1 DEF OwnLogins
<1> QED BY <1>1, <1>2, <1>3 DEF IInv, Shape

\* A call of the database fails and the query is over.
LEMMA FailsStep ==
    ASSUME IInv, call # NULL, call.at \in {"login", "cursor", "parse", "exec"},
           NEW f \in Failed, NEW next \in {"logoff", "return"}, Fails(f, next),
           UNCHANGED <<kept, delivered>>, crashed' = crashed,
           lost' \in Nat, lost' <= MaxLost, next = "logoff" => call.own,
           logins' = lost' + KeptLogins + (IF next = "logoff" THEN 1 ELSE 0)
    PROVE  IInv'
<1>1. call \in Calls /\ f \in Faults /\ crashed \in BOOLEAN BY DEF IInv, Shape, Fails, MayFail
<1>2. call' \in Calls
  <2>1. \A n \in Int : [call EXCEPT !.at = next, !.res = n, !.failed = {f}] \in Calls
     BY <1>1 DEF Calls, Steps
  <2>2. -1 \in Int OBVIOUS
  <2> QED BY <2>1, <2>2, Zenon DEF Fails
<1>3. /\ call'.q = call.q /\ call'.own = call.own /\ call'.at = next
      /\ call'.next = call.next /\ call'.res = -1 /\ call'.failed = {f}
      /\ call'.ncols = call.ncols /\ call'.defined = call.defined
      /\ call'.buffers = call.buffers
   BY <1>1 DEF Fails, Calls
<1>4. call.next = 1 BY DEF IInv, Course
<1>5. delivered = <<>> BY <1>4, NothingPassed, Zenon DEF IInv, Progress
<1>6. Shape'
  <2>1. (IF next = "logoff" THEN 1 ELSE 0)
           = (IF call.own /\ call'.at \notin {"login", "return"} THEN 1 ELSE 0)
     BY <1>3
  <2> QED BY <1>1, <1>2, <1>3, <2>1, ShapeKept
<1>7. Course' BY <1>1, <1>3, <1>4 DEF IInv, Course, Failed
<1>8. Progress'
  <2>1. ~Undescribed' BY <1>3 DEF Undescribed, Failed
  <2> QED BY <1>3, <1>4, <1>5, <2>1, NothingPassed, Zenon DEF Progress
<1> QED BY <1>6, <1>7, <1>8 DEF IInv

\* The connection of the query is made, step by step.
LEMMA LoginStep ==
    ASSUME IInv, Login \/ OpenCursor
    PROVE  IInv'
<1>1. call # NULL /\ call \in Calls /\ call.at \in {"login", "cursor"} /\ call.own
      /\ crashed \in BOOLEAN
   BY DEF Login, OpenCursor, At, IInv, Shape
<1>2. /\ lost \in Nat /\ lost <= MaxLost /\ MaxLost \in Nat /\ KeptLogins \in 0 .. 1
      /\ logins = lost + KeptLogins + (IF call.at = "cursor" THEN 1 ELSE 0)
   BY <1>1, LoginsAreNumbers DEF IInv, Shape, OwnLogins
<1>3. ASSUME NEW step \in {"cursor", "parse"}, Goto(step), UNCHANGED <<kept, delivered, lost, crashed>>,
             logins' = lost + KeptLogins + 1
      PROVE  IInv'
  <2>1. call' \in Calls BY <1>1, <1>3 DEF Goto, Calls, Steps
  <2>2. call' = [call EXCEPT !.at = step] BY <1>3 DEF Goto
  <2>3. /\ call'.q = call.q /\ call'.own = call.own /\ call'.at = step
        /\ call'.next = call.next /\ call'.res = call.res /\ call'.failed = call.failed
        /\ call'.ncols = call.ncols /\ call'.defined = call.defined
        /\ call'.buffers = call.buffers
     BY <1>1, <2>2 DEF Calls
  <2>4. Shape' BY <1>1, <1>2, <1>3, <2>1, <2>3, ShapeKept
  <2>5. Start' = Start BY <1>3, <2>3 DEF Start
  <2>6. Course' BY <1>1, <1>3, <2>3, <2>5 DEF IInv, Course
  <2>7. Progress'
    <3>1. ~Undescribed' /\ ~Undescribed /\ call.next = 1
       BY <1>1, <2>3 DEF IInv, Course, Undescribed
    <3>2. delivered = <<>> BY <1>1, <3>1, NothingPassed, Zenon DEF IInv, Progress
    <3> QED BY <1>3, <2>3, <3>1, <3>2, NothingPassed, Zenon DEF Progress
  <2> QED BY <2>4, <2>6, <2>7 DEF IInv
<1>4. CASE Login
  <2>1. call.at = "login" /\ UNCHANGED <<kept, delivered, lost, crashed>> BY <1>4 DEF Login, At
  <2>2. CASE Goto("cursor") /\ logins' = logins + 1
    BY <1>2, <1>3, <2>1, <2>2
  <2>3. CASE Fails("olog", "return") /\ UNCHANGED logins
    BY <1>1, <1>2, <2>1, <2>3, FailsStep DEF Failed
  <2> QED BY <1>4, <2>2, <2>3 DEF Login
<1>5. CASE OpenCursor
  <2>1. call.at = "cursor" /\ UNCHANGED <<kept, delivered>> BY <1>5 DEF OpenCursor, At
  <2>2. CASE Goto("parse") /\ UNCHANGED <<logins, lost, crashed>>
    BY <1>2, <1>3, <2>1, <2>2
  <2>3. CASE Fails("oopen", "return") /\ (LoggedOff \/ LeftBehind) /\ UNCHANGED crashed
    <3>1. /\ lost' \in Nat /\ lost' <= MaxLost
          /\ logins' = lost' + KeptLogins + (IF "return" = "logoff" THEN 1 ELSE 0)
      <4>1. CASE LoggedOff BY <1>2, <2>1, <4>1 DEF LoggedOff
      <4>2. CASE LeftBehind BY <1>2, <2>1, <4>2 DEF LeftBehind
      <4> QED BY <2>3, <4>1, <4>2
    <3> QED BY <1>1, <2>1, <2>3, <3>1, FailsStep DEF Failed
  <2>4. CASE crashed' = TRUE /\ UNCHANGED <<call, logins, lost>>
    BY <2>1, <2>4 DEF IInv, Shape, Course, Progress, KeptLogins, OwnLogins, Undescribed, Start, Taken
  <2> QED BY <1>5, <2>2, <2>3, <2>4 DEF OpenCursor
<1> QED BY <1>4, <1>5

\* The statement is parsed and executed.
LEMMA StatementStep ==
    ASSUME IInv, Parse \/ Exec
    PROVE  IInv'
<1>1. call # NULL /\ call \in Calls /\ call.at \in {"parse", "exec"} /\ call.q \in Queries
      /\ call.own \in BOOLEAN /\ crashed \in BOOLEAN
   BY DEF Parse, Exec, At, IInv, Shape, Calls
<1>2. UNCHANGED <<kept, delivered, logins, lost, crashed>> BY DEF Parse, Exec
<1>3. /\ lost \in Nat /\ lost <= MaxLost /\ MaxLost \in Nat /\ KeptLogins \in 0 .. 1
      /\ logins = lost + KeptLogins + (IF call.own THEN 1 ELSE 0)
   BY <1>1, LoginsAreNumbers DEF IInv, Shape, OwnLogins
<1>4. ASSUME Fails("oparse", Over) \/ Fails("oexec", Over) PROVE IInv'
  <2>1. Over \in {"logoff", "return"} /\ (Over = "logoff" => call.own)
        /\ (IF Over = "logoff" THEN 1 ELSE 0) = (IF call.own THEN 1 ELSE 0)
     BY DEF Over
  <2>2. logins' = lost' + KeptLogins + (IF Over = "logoff" THEN 1 ELSE 0)
     BY <1>2, <1>3, <2>1
  <2>3. lost' \in Nat /\ lost' <= MaxLost BY <1>2, <1>3
  <2> HIDE DEF Over
  <2> QED BY <1>1, <1>2, <1>4, <2>1, <2>2, <2>3, FailsStep DEF Failed
<1>5. ASSUME NEW step \in Steps \ {"login", "cursor"}, call' = [call EXCEPT !.at = step],
             \/ call.at = "parse" /\ step = IF IsSelect(call.q) THEN "describe" ELSE "exec"
             \/ call.at = "exec" /\ step = IF IsSelect(call.q) THEN "fetch" ELSE Over
      PROVE  IInv'
  <2>1. call' \in Calls BY <1>1, <1>5 DEF Calls
  <2>2. /\ call'.q = call.q /\ call'.own = call.own /\ call'.at = step
        /\ call'.next = call.next /\ call'.res = call.res /\ call'.failed = call.failed
        /\ call'.ncols = call.ncols /\ call'.defined = call.defined
        /\ call'.buffers = call.buffers
     BY <1>1, <1>5 DEF Calls
  <2>3. Shape'
    <3>1. (step = "logoff" => call.own) /\ (step = "return" => ~call.own) BY <1>5 DEF Over
    <3>2. (IF call.own THEN 1 ELSE 0)
             = (IF call.own /\ call'.at \notin {"login", "return"} THEN 1 ELSE 0)
       BY <1>5, <2>2, <3>1
    <3>3. logins' = lost' + KeptLogins
                    + (IF call.own /\ call'.at \notin {"login", "return"} THEN 1 ELSE 0)
       BY <1>2, <1>3, <3>2
    <3> QED BY <1>1, <1>2, <1>3, <1>5, <2>1, <2>2, <3>1, <3>3, ShapeKept
  <2>4. call.next = 1 /\ call.res = 0 BY <1>1 DEF IInv, Course
  <2>5. ~IsSelect(call.q) => Len(Rows[call.q]) = 0
    <3>1. ~IsSelect(call.q) => Rows[call.q] = <<>>
       BY <1>1, OracleAssumption, Zenon DEF OracleAssumption, IsSelect
    <3> QED BY <3>1
  <2>6. Start' = Start /\ (Undescribed' <=> Undescribed) /\ Taken' = Taken
     BY <1>2, <2>2 DEF Start, Undescribed, Taken
  <2>7. ~IsSelect(call.q) /\ call.at = "exec" => call.failed \subseteq {"odescr", "odefin"}
     BY <1>1 DEF IInv, Course
  <2>8. Course' BY <1>1, <1>2, <1>5, <2>2, <2>4, <2>5, <2>6, <2>7 DEF IInv, Course, Over
  <2>9. Progress' BY <1>1, <1>2, <2>2, <2>6, Zenon DEF IInv, Progress
  <2> QED BY <2>3, <2>8, <2>9 DEF IInv
<1>6. ASSUME Parse, ~Fails("oparse", Over) PROVE IInv'
  BY <1>5, <1>6 DEF Parse, At, Steps
<1>7. ASSUME Exec, ~Fails("oexec", Over) PROVE IInv'
  <2>1. Over \in {"logoff", "return"} BY DEF Over
  <2> QED BY <1>5, <1>7, <2>1 DEF Exec, At, Goto, Steps
<1> QED BY <1>4, <1>6, <1>7

\* The columns are described and defined, or only the first ones.
LEMMA DescribeStep ==
    ASSUME IInv, Describe
    PROVE  IInv'
<1>1. call # NULL /\ call \in Calls /\ call.at = "describe" /\ call.q \in Queries
      /\ call.buffers \in Buffers /\ crashed \in BOOLEAN
   BY DEF Describe, At, IInv, Shape, Calls
<1>2. UNCHANGED <<kept, delivered, logins, lost, crashed>> BY DEF Describe
<1> DEFINE w == Width(call.q)
<1>3. w \in Nat /\ w <= MaxCols /\ (\A c \in 1 .. w : Columns[call.q][c] \in Types) /\ w # 0
   BY <1>1, WidthFits DEF IInv, Course
<1> HIDE DEF w
<1>4. MaxCols \in Nat \ {0} BY OracleAssumption DEF OracleAssumption
<1>5. PICK n \in Nat, m \in Nat, ncols \in Nat, f \in SUBSET Faults :
         /\ Described(n, m, ncols, f) /\ n <= w /\ m <= w /\ ncols <= MaxCols
         /\ \/ f \in {{"odescr"}, {"odefin"}} /\ ncols = 1
            \/ f = {} /\ n = w /\ ncols = w
  <2>1. CASE Described(w, w, w, {}) BY <1>3, <2>1
  <2>2. ASSUME NEW k \in 0 .. w - 1, NEW j \in {k, k + 1}, NEW g \in {"odescr", "odefin"},
               MayFail(g), Described(k, j, 1, {g})
        PROVE  \E n \in Nat, m \in Nat, ncols \in Nat, f \in SUBSET Faults :
                  /\ Described(n, m, ncols, f) /\ n <= w /\ m <= w /\ ncols <= MaxCols
                  /\ \/ f \in {{"odescr"}, {"odefin"}} /\ ncols = 1
                     \/ f = {} /\ n = w /\ ncols = w
    <3>1. /\ k \in Nat /\ k <= w /\ j \in Nat /\ j <= w /\ 1 \in Nat /\ 1 <= MaxCols
          /\ {g} \in SUBSET Faults /\ {g} \in {{"odescr"}, {"odefin"}}
       BY <1>3, <1>4, <2>2 DEF MayFail
    <3> QED BY <2>2, <3>1
  <2>3. CASE DescribeFails
    <3>1. PICK k \in 0 .. w - 1 : \/ MayFail("odescr") /\ Described(k, k, 1, {"odescr"})
                                  \/ MayFail("odefin") /\ Described(k, k + 1, 1, {"odefin"})
       BY <2>3 DEF DescribeFails, w
    <3>2. CASE MayFail("odescr") /\ Described(k, k, 1, {"odescr"}) BY <2>2, <3>2
    <3>3. CASE MayFail("odefin") /\ Described(k, k + 1, 1, {"odefin"}) BY <2>2, <3>3
    <3> QED BY <3>1, <3>2, <3>3
  <2> QED BY <2>1, <2>3 DEF Describe, w
<1> DEFINE b == [c \in Slots |-> IF c <= m
                                 THEN [call.buffers[c] EXCEPT !.type = Columns[call.q][c]]
                                 ELSE call.buffers[c]]
<1>6. b \in Buffers
  <2>1. \A c \in Slots : c <= m => Columns[call.q][c] \in Types
     BY <1>3, <1>5 DEF Slots
  <2> QED BY <1>1, <2>1 DEF Buffers
<1>7. b[1].null = call.buffers[1].null /\ b[1].held = call.buffers[1].held
  <2>1. 1 \in Slots BY <1>4 DEF Slots
  <2>2. call.buffers[1] \in [type : Types, null : BOOLEAN, held : [Types -> Values]]
     BY <1>1, <2>1 DEF Buffers
  <2> QED BY <2>1, <2>2
<1>8. call' = [call EXCEPT !.at = "exec", !.defined = n, !.ncols = ncols, !.failed = f,
                           !.buffers = b]
   BY <1>1, <1>5, Zenon DEF Described
<1> HIDE DEF b
<1>9. call' \in Calls BY <1>1, <1>5, <1>6, <1>8 DEF Calls, Steps
<1>10. /\ call'.q = call.q /\ call'.own = call.own /\ call'.at = "exec"
       /\ call'.next = call.next /\ call'.res = call.res /\ call'.failed = f
       /\ call'.ncols = ncols /\ call'.defined = n /\ call'.buffers = b
   BY <1>1, <1>8 DEF Calls
<1>11. Shape'
  <2>1. logins = lost + KeptLogins + (IF call.own THEN 1 ELSE 0) /\ lost \in Nat /\ lost <= MaxLost
     BY <1>1 DEF IInv, Shape, OwnLogins
  <2> QED BY <1>1, <1>2, <1>9, <1>10, <2>1, ShapeKept
<1>12. call.buffers = Start /\ call.next = 1 /\ call.failed = {} /\ Start' = Start
   BY <1>1, <1>2, <1>10 DEF IInv, Course, Start
<1>13. Course' BY <1>1, <1>3, <1>5, <1>10, <1>12 DEF IInv, Course, w
<1>14. Progress'
  <2>1. ~Undescribed BY <1>12 DEF Undescribed
  <2>2. delivered = <<>> BY <1>1, <1>12, <2>1, NothingPassed, Zenon DEF IInv, Progress
  <2>3. /\ call'.next = 1 /\ delivered' = <<>>
        /\ call'.buffers[1].null = Start'[1].null /\ call'.buffers[1].held = Start'[1].held
     BY <1>2, <1>7, <1>10, <1>12, <2>2
  <2>4. Undescribed' => call'.ncols = 1 BY <1>5, <1>10 DEF Undescribed
  <2> QED BY <2>3, <2>4, NothingPassed, Zenon DEF Progress
<1> QED BY <1>11, <1>13, <1>14 DEF IInv

\* A row is fetched into the buffers that are defined, and passed on: whatever they
\* held before, it is the beginning of the row unless no column was described.
LEMMA FetchRowStep ==
    ASSUME IInv, FetchRow
    PROVE  IInv'
<1>1. call # NULL /\ call \in Calls /\ call.at = "fetch" /\ call.q \in Queries
      /\ call.next \in Nat \ {0} /\ call.res \in Int /\ call.buffers \in Buffers
      /\ call.ncols \in Nat /\ call.defined \in Nat /\ crashed \in BOOLEAN
   BY DEF FetchRow, At, IInv, Shape, Calls
<1>2. UNCHANGED <<kept, logins, lost, crashed>> BY DEF FetchRow
<1> DEFINE q == call.q
           n == call.next
           row == Rows[q][n]
           fetched == [c \in Slots |-> IF c <= call.defined
                                       THEN Fetched(call.buffers[c], row[c])
                                       ELSE call.buffers[c]]
<1>3. n \in 1 .. Len(Rows[q]) /\ Len(Rows[q]) \in Nat
  <2>1. Len(Rows[q]) \in Nat
    <3>1. Rows[q] \in Seq({Rows[q][i] : i \in 1 .. Len(Rows[q])})
       BY <1>1, OracleAssumption DEF OracleAssumption
    <3> QED BY <3>1
  <2>2. n <= Len(Rows[q]) BY ZenonT(60) DEF FetchRow
  <2> QED BY <1>1, <2>1, <2>2
<1>4. /\ call.defined <= Width(q) /\ Width(q) \in Nat /\ Width(q) <= MaxCols /\ Width(q) # 0
      /\ Len(row) \in Nat /\ Width(q) <= Len(row) /\ MaxCols \in Nat \ {0}
      /\ row \in Seq({row[c] : c \in 1 .. Len(row)})
      /\ \A c \in 1 .. Width(q) : row[c] \in Values
  <2>1. call.defined <= Width(q) /\ IsSelect(q) BY <1>1 DEF IInv, Course
  <2>2. /\ Len(row) \in Nat /\ Len(row) = Len(Columns[q])
        /\ row \in Seq({row[c] : c \in 1 .. Len(row)})
        /\ \A c \in 1 .. Len(Columns[q]) : row[c] \in Values
     BY <1>1, <1>3, RowValues
  <2>3. Width(q) \in Nat /\ Width(q) <= MaxCols /\ Width(q) <= Len(Columns[q]) /\ Width(q) # 0
     BY <1>1, <2>1, WidthFits
  <2>4. MaxCols \in Nat \ {0} BY OracleAssumption DEF OracleAssumption
  <2> HIDE DEF row, q
  <2> QED BY <2>1, <2>2, <2>3, <2>4
<1> HIDE DEF row
<1>5. \A c \in Slots : /\ fetched[c] \in [type : Types, null : BOOLEAN, held : [Types -> Values]]
                       /\ c <= call.defined => Shown(fetched[c]) = row[c]
                       /\ c > call.defined => fetched[c] = call.buffers[c]
  <2> SUFFICES ASSUME NEW c \in Slots
               PROVE  /\ fetched[c] \in [type : Types, null : BOOLEAN, held : [Types -> Values]]
                      /\ c <= call.defined => Shown(fetched[c]) = row[c]
                      /\ c > call.defined => fetched[c] = call.buffers[c]
    OBVIOUS
  <2>1. call.buffers[c] \in [type : Types, null : BOOLEAN, held : [Types -> Values]]
        /\ c \in Nat \ {0}
     BY <1>1, <1>4 DEF Buffers, Slots
  <2>2. CASE c <= call.defined
    <3>1. row[c] \in Values BY <1>1, <1>4, <2>1, <2>2
    <3>2. fetched[c] = Fetched(call.buffers[c], row[c]) BY <2>2
    <3>3. /\ Fetched(call.buffers[c], row[c])
                \in [type : Types, null : BOOLEAN, held : [Types -> Values]]
          /\ Shown(Fetched(call.buffers[c], row[c])) = row[c]
       BY <2>1, <3>1, FetchedIsShown, Zenon
    <3>4. ~(c > call.defined) BY <1>1, <2>1, <2>2
    <3> HIDE DEF fetched
    <3> QED BY <3>2, <3>3, <3>4, Zenon
  <2>3. CASE ~(c <= call.defined)
    <3>1. fetched[c] = call.buffers[c] BY <2>3
    <3> QED BY <2>1, <2>3, <3>1
  <2> QED BY <2>2, <2>3
<1>6. fetched \in Buffers
  <2>1. fetched = [c \in Slots |-> fetched[c]] OBVIOUS
  <2> HIDE DEF fetched
  <2> QED BY <1>5, <2>1 DEF Buffers
<1> DEFINE passed == [c \in 1 .. call.ncols |-> Shown(fetched[c])]
<1>7. call' = [call EXCEPT !.next = @ + 1, !.res = @ + 1, !.buffers = fetched]
      /\ delivered' = Append(delivered, passed)
   BY DEF FetchRow, row
<1> HIDE DEF fetched
<1>8. call' \in Calls
  <2>1. n + 1 \in Nat \ {0} /\ call.res + 1 \in Int BY <1>1
  <2>2. \A k \in Nat \ {0}, r \in Int :
           [call EXCEPT !.next = k, !.res = r, !.buffers = fetched] \in Calls
     BY <1>1, <1>6 DEF Calls
  <2> QED BY <1>7, <2>1, <2>2, Zenon
<1>9. /\ call'.q = q /\ call'.own = call.own /\ call'.at = "fetch"
      /\ call'.next = n + 1 /\ call'.res = call.res + 1 /\ call'.failed = call.failed
      /\ call'.ncols = call.ncols /\ call'.defined = call.defined /\ call'.buffers = fetched
   BY <1>1, <1>7 DEF Calls
<1>10. Shape'
  <2>1. logins = lost + KeptLogins + (IF call.own THEN 1 ELSE 0) /\ lost \in Nat /\ lost <= MaxLost
     BY <1>1 DEF IInv, Shape, OwnLogins
  <2> QED BY <1>1, <1>2, <1>8, <1>9, <2>1, ShapeKept
<1>11. Start' = Start /\ (Undescribed' <=> Undescribed) /\ Taken' = Taken
   BY <1>2, <1>9 DEF Start, Undescribed, Taken
<1>12. Course'
  <2>1. call.res = n - 1 /\ IsSelect(q) BY <1>1 DEF IInv, Course
  <2>2. call'.next - 1 <= Len(Rows[q]) BY <1>3, <1>9
  <2>3. call'.res = call'.next - 1 BY <1>1, <1>9, <2>1
  <2> HIDE DEF q, n
  <2> QED BY <1>1, <1>9, <2>1, <2>2, <2>3 DEF IInv, Course, q
<1>13. Progress'
  <2>1. CASE Undescribed /\ call.defined = 0
    <3>1. delivered = Repeated(Shown(call.buffers[1]), n) /\ call.ncols = 1
          /\ call.buffers[1].null = Start[1].null /\ call.buffers[1].held = Start[1].held
       BY <1>1, <2>1, Zenon DEF IInv, Progress
    <3>2. fetched[1] = call.buffers[1]
      <4>1. 1 \in Slots /\ 1 > call.defined BY <1>4, <2>1 DEF Slots
      <4> QED BY <1>5, <4>1
    <3>3. passed = <<Shown(call.buffers[1])>> BY <3>1, <3>2
    <3> HIDE DEF passed
    <3>4. delivered' = Repeated(Shown(call.buffers[1]), n + 1)
       BY <1>1, <1>7, <3>1, <3>3, PassedNext
    <3> QED BY <1>9, <1>11, <2>1, <3>1, <3>2, <3>4 DEF Progress
  <2>2. CASE ~(Undescribed /\ call.defined = 0)
    <3>1. delivered = Passed(q, n, Taken) /\ (Undescribed => call.ncols = 1)
       BY <1>1, <2>2, Zenon DEF IInv, Progress
    <3>2. call.ncols = Taken /\ Taken \in Nat /\ Taken <= Len(row) /\ Taken <= MaxCols
          /\ Taken <= call.defined
      <4>1. CASE Undescribed BY <1>1, <1>4, <2>2, <3>1, <4>1 DEF Taken
      <4>2. CASE ~Undescribed
        <5>1. call.failed = {} BY <1>1, <4>2 DEF IInv, Course, Undescribed
        <5>2. call.ncols = Width(q) /\ call.defined = Width(q) BY <1>1, <5>1 DEF IInv, Course
        <5> QED BY <1>4, <4>2, <5>2 DEF Taken
      <4> QED BY <4>1, <4>2
    <3>3. \A c \in 1 .. Taken : passed[c] = row[c]
      <4> SUFFICES ASSUME NEW c \in 1 .. Taken PROVE passed[c] = row[c]
        OBVIOUS
      <4>1. c \in Slots /\ c <= call.defined /\ c \in 1 .. call.ncols
         BY <1>1, <1>4, <3>2 DEF Slots
      <4> QED BY <1>5, <4>1
    <3>4. passed = [c \in 1 .. Taken |-> passed[c]] BY <3>2
    <3> HIDE DEF passed
    <3>5. [c \in 1 .. Taken |-> passed[c]] = SubSeq(row, 1, Taken)
       BY <1>4, <3>2, <3>3, FirstColumns
    <3>6. Passed(q, n + 1, Taken) = Append(Passed(q, n, Taken), SubSeq(row, 1, Taken))
       BY <1>1, PassedNext DEF row
    <3>7. delivered' = Passed(q, n + 1, Taken) BY <1>7, <3>1, <3>4, <3>5, <3>6, Zenon
    <3> QED BY <1>9, <1>11, <2>2, <3>1, <3>7 DEF Progress
  <2> QED BY <2>1, <2>2
<1> QED BY <1>10, <1>12, <1>13 DEF IInv

\* The rows end, or an error is taken for their end.
LEMMA FetchEndsStep ==
    ASSUME IInv, FetchEnds
    PROVE  IInv'
<1>1. call # NULL /\ call \in Calls /\ call.at = "fetch" /\ call.q \in Queries
      /\ call.own \in BOOLEAN /\ crashed \in BOOLEAN
   BY DEF FetchEnds, At, IInv, Shape, Calls
<1>2. UNCHANGED <<kept, delivered, logins, lost, crashed>> BY DEF FetchEnds
<1>3. Over = (IF call.own THEN "logoff" ELSE "return") /\ Over \in Steps BY DEF Over, Steps
<1> HIDE DEF Over
<1>4. PICK f \in SUBSET Faults :
         /\ call' = [call EXCEPT !.at = Over, !.failed = f]
         /\ \/ f = call.failed /\ call.next > Len(Rows[call.q])
            \/ f = call.failed \cup {"ofetch"}
  <2>1. CASE call.next > Len(Rows[call.q]) /\ Goto(Over)
    <3>1. call' = [call EXCEPT !.at = Over, !.failed = call.failed]
       BY <1>1, <2>1 DEF Goto, Calls
    <3>2. call.failed \in SUBSET Faults BY <1>1 DEF Calls
    <3> QED BY <2>1, <3>1, <3>2
  <2>2. CASE MayFail("ofetch") /\ call' = [call EXCEPT !.at = Over, !.failed = @ \cup {"ofetch"}]
    <3>1. call.failed \cup {"ofetch"} \in SUBSET Faults BY <1>1, <2>2 DEF Calls, MayFail
    <3>2. call' = [call EXCEPT !.at = Over, !.failed = call.failed \cup {"ofetch"}]
       BY <2>2
    <3> QED BY <3>1, <3>2
  <2> QED BY <2>1, <2>2 DEF FetchEnds
<1>5. call' \in Calls BY <1>1, <1>3, <1>4 DEF Calls
<1>6. /\ call'.q = call.q /\ call'.own = call.own /\ call'.at = Over
      /\ call'.next = call.next /\ call'.res = call.res /\ call'.failed = f
      /\ call'.ncols = call.ncols /\ call'.defined = call.defined /\ call'.buffers = call.buffers
   BY <1>1, <1>4 DEF Calls
<1>7. Shape'
  <2>1. logins = lost + KeptLogins + (IF call.own THEN 1 ELSE 0) /\ lost \in Nat /\ lost <= MaxLost
     BY <1>1 DEF IInv, Shape, OwnLogins
  <2> QED BY <1>1, <1>2, <1>3, <1>5, <1>6, <2>1, ShapeKept
<1>8. /\ call.failed \in {{}, {"odescr"}, {"odefin"}} /\ call.res = call.next - 1
      /\ call.next - 1 <= Len(Rows[call.q]) /\ call.ncols <= MaxCols
      /\ call.defined <= Width(call.q)
   BY <1>1 DEF IInv, Course
<1>9. Course'
  <2>1. call.next \in Nat \ {0} /\ Len(Rows[call.q]) \in Nat
    <3>1. Rows[call.q] \in Seq({Rows[call.q][i] : i \in 1 .. Len(Rows[call.q])})
       BY <1>1, OracleAssumption DEF OracleAssumption
    <3>2. call.next \in Nat \ {0} BY <1>1 DEF Calls
    <3> QED BY <3>1, <3>2
  <2>2. "ofetch" \notin f => call.next - 1 = Len(Rows[call.q]) BY <1>4, <1>8, <2>1
  <2>3. f \subseteq {"odescr", "odefin", "ofetch"} BY <1>4, <1>8
  <2> QED BY <1>3, <1>6, <1>8, <2>2, <2>3 DEF Course
<1>10. Progress'
  <2>1. (Undescribed' <=> Undescribed) /\ Start' = Start
     BY <1>2, <1>4, <1>6 DEF Undescribed, Start
  <2>2. Taken' = Taken BY <1>6, <2>1 DEF Taken
  <2> QED BY <1>1, <1>2, <1>6, <2>1, <2>2, Zenon DEF IInv, Progress
<1> QED BY <1>7, <1>9, <1>10 DEF IInv

\* The login of the query is given back, unless the database does not let it go.
LEMMA LogOffStep ==
    ASSUME IInv, LogOff
    PROVE  IInv'
<1>1. call # NULL /\ call \in Calls /\ call.at = "logoff" /\ call.own /\ crashed \in BOOLEAN
   BY DEF LogOff, At, IInv, Shape
<1>2. UNCHANGED <<kept, delivered, crashed>> /\ call' = [call EXCEPT !.at = "return"]
   BY DEF LogOff, Goto
<1>3. call' \in Calls BY <1>1, <1>2 DEF Calls, Steps
<1>4. /\ call'.q = call.q /\ call'.own = call.own /\ call'.at = "return"
      /\ call'.next = call.next /\ call'.res = call.res /\ call'.failed = call.failed
      /\ call'.ncols = call.ncols /\ call'.defined = call.defined /\ call'.buffers = call.buffers
   BY <1>1, <1>2 DEF Calls
<1>5. Shape'
  <2>1. /\ logins = lost + KeptLogins + 1 /\ lost \in Nat /\ lost <= MaxLost
        /\ KeptLogins \in 0 .. 1 /\ MaxLost \in Nat
     BY <1>1, LoginsAreNumbers DEF IInv, Shape, OwnLogins
  <2>2. lost' \in Nat /\ lost' <= MaxLost /\ logins' = lost' + KeptLogins + 0
    <3>1. CASE LoggedOff BY <2>1, <3>1 DEF LoggedOff
    <3>2. CASE LeftBehind BY <2>1, <3>2 DEF LeftBehind
    <3> QED BY <3>1, <3>2 DEF LogOff
  <2> QED BY <1>1, <1>2, <1>3, <1>4, <2>2, ShapeKept
<1>6. Start' = Start /\ (Undescribed' <=> Undescribed) /\ Taken' = Taken
   BY <1>2, <1>4 DEF Start, Undescribed, Taken
<1>7. Course' BY <1>1, <1>4 DEF IInv, Course
<1>8. Progress' BY <1>1, <1>2, <1>4, <1>6, Zenon DEF IInv, Progress
<1> QED BY <1>5, <1>7, <1>8 DEF IInv

\* The buffers of the query stay with the kept connection.
LEMMA ReturnStep ==
    ASSUME IInv, Return
    PROVE  IInv'
<1>1. call # NULL /\ call' = NULL /\ call \in Calls /\ call.buffers \in Buffers
      /\ call.own \in BOOLEAN /\ call.at = "return"
   BY DEF Return, At, IInv, Shape, Calls
<1>2. kept[1] \in {"none", "failed", "open"} BY DEF IInv, Shape
<1>3. kept' \in {"none", "failed", "open"} \X Buffers /\ kept'[1] = kept[1]
   BY <1>1, <1>2 DEF Return, IInv, Shape
<1>4. OwnLogins = 0 /\ OwnLogins' = 0 /\ KeptLogins' = KeptLogins
   BY <1>1, <1>3 DEF OwnLogins, KeptLogins
<1> QED BY <1>1, <1>3, <1>4 DEF Return, IInv, Shape, Course, Progress

\* The invariant holds of every run.
LEMMA OracleSafe == Spec => []IInv
<1>1. Init => IInv
  <2> SUFFICES ASSUME Init PROVE IInv
    OBVIOUS
  <2>1. kept \in {"none", "failed", "open"} \X Buffers /\ kept[1] = "none"
     BY FreshIsBuffers DEF Init
  <2>2. KeptLogins = 0 /\ OwnLogins = 0 BY <2>1 DEF Init, KeptLogins, OwnLogins
  <2>3. MaxLost \in Nat BY OracleAssumption DEF OracleAssumption
  <2>4. call = NULL /\ crashed = FALSE /\ lost = 0 /\ logins = 0 BY DEF Init
  <2>5. Shape
    <3>1. crashed \in BOOLEAN BY <2>4, Zenon
    <3>2. logins = lost + KeptLogins + OwnLogins /\ lost \in Nat /\ lost <= MaxLost
       BY <2>2, <2>3, <2>4
    <3> QED BY <2>1, <2>4, <3>1, <3>2 DEF Shape
  <2> QED BY <2>4, <2>5 DEF IInv, Course, Progress
<1>2. IInv /\ [Next]_vars => IInv'
  <2> SUFFICES ASSUME IInv, [Next]_vars PROVE IInv'
    OBVIOUS
  <2>1. CASE UNCHANGED vars
    BY <2>1 DEF vars, IInv, Shape, Course, Progress, KeptLogins, OwnLogins, Undescribed, Start,
                Taken
  <2> QED
    BY <2>1, KeptStep, CallStep, LoginStep, StatementStep, DescribeStep, FetchRowStep,
       FetchEndsStep, LogOffStep, ReturnStep DEF Next
<1> QED BY <1>1, <1>2, PTL DEF Spec

---------------------------------------------------------------------------
(* Theorems *)

\* The state stays well formed: no query describes more columns than there is room
\* for, or passes on more rows than it has.
THEOREM TypeOKAlways == Spec => []TypeOK
<1>1. IInv => TypeOK
  <2> SUFFICES ASSUME IInv PROVE TypeOK
    OBVIOUS
  <2>0. logins \in 0 .. MaxLost + 2 /\ lost \in 0 .. MaxLost
     BY LoginsAreNumbers DEF IInv, Shape
  <2>1. CASE call = NULL BY <2>0, <2>1 DEF IInv, Shape, TypeOK
  <2>2. CASE call # NULL
    <3>1. call \in Calls /\ call.q \in Queries /\ MaxCols \in Nat
       BY <2>2, OracleAssumption DEF OracleAssumption, IInv, Shape, Calls
    <3>2. Len(Rows[call.q]) \in Nat
      <4>1. Rows[call.q] \in Seq({Rows[call.q][i] : i \in 1 .. Len(Rows[call.q])})
         BY <3>1, OracleAssumption DEF OracleAssumption
      <4> QED BY <4>1
    <3>3. call.ncols \in 0 .. MaxCols /\ call.defined \in 0 .. MaxCols
       BY <2>2, <3>1, WidthFits DEF IInv, Course, Calls
    <3>4. call.next \in 1 .. Len(Rows[call.q]) + 1
       BY <2>2, <3>1, <3>2 DEF IInv, Course, Calls
    <3>5. call.res \in -1 .. Len(Rows[call.q])
      <4>1. call.res \in {0, -1, call.next - 1}
         BY <2>2, <3>1 DEF IInv, Course, Calls, Steps
      <4> QED BY <3>2, <3>4, <4>1
    <3> QED BY <2>0, <2>2, <3>1, <3>3, <3>4, <3>5 DEF IInv, Shape, TypeOK
  <2> QED BY <2>1, <2>2
<1> QED BY <1>1, OracleSafe, PTL

\* Each query is answered by its own rows and their number, or by -1 if the login, the
\* cursor, the statement or its execution has failed; where the driver departs from
\* sdb.3:38-39, when a column cannot be described or a fetch fails, it is by what the
\* property names and no more (oracle_driver.c:146-290).
THEOREM QueriesAreAnsweredAlways == Spec => []QueriesAreAnswered
<1>1. IInv => QueriesAreAnswered
  <2> SUFFICES ASSUME IInv, call # NULL
               PROVE  /\ IF Undescribed /\ call.defined = 0
                         THEN \E value \in Stale : delivered = Repeated(value, call.next)
                         ELSE delivered = Passed(call.q, call.next, Taken)
                      /\ call.at \in {"logoff", "return"} =>
                            IF call.failed \cap Failed # {}
                            THEN call.res = -1 /\ delivered = <<>>
                            ELSE /\ call.res = Len(delivered)
                                 /\ "ofetch" \notin call.failed =>
                                       Len(delivered) = Len(Rows[call.q])
    BY Zenon DEF QueriesAreAnswered, Passed, Repeated, Taken, Failed
  <2>1. call \in Calls /\ call.buffers \in Buffers /\ call.next - 1 \in Nat
        /\ call.next \in Nat \ {0} /\ kept[2] \in Buffers
     BY DEF IInv, Shape, Calls
  <2>2. CASE Undescribed /\ call.defined = 0
    <3>1. delivered = Repeated(Shown(call.buffers[1]), call.next)
          /\ call.buffers[1].null = Start[1].null /\ call.buffers[1].held = Start[1].held
       BY <2>2, Zenon DEF IInv, Progress
    <3>2. call.buffers[1].type \in Types
      <4>1. 1 \in Slots BY OracleAssumption DEF OracleAssumption, Slots
      <4> QED BY <2>1, <4>1 DEF Buffers
    <3>3. Stale = IF Start[1].null THEN {NULL} ELSE {Start[1].held[t] : t \in Types}
       BY Zenon DEF Stale, Start
    <3>4. Shown(call.buffers[1]) \in Stale BY <3>1, <3>2, <3>3 DEF Shown
    <3>5. Len(delivered) = call.next - 1
      <4>1. Len(Repeated(Shown(call.buffers[1]), call.next)) = call.next - 1
         BY <2>1 DEF Repeated
      <4> QED BY <3>1, <4>1
    <3>6. call.failed \cap Failed = {} /\ call.at \in {"logoff", "return"} =>
             call.res = call.next - 1
       BY <2>2 DEF IInv, Course, Failed
    <3>7. call.at \in {"logoff", "return"} => call.failed \cap Failed = {}
       BY <2>2 DEF IInv, Course, Failed, Undescribed
    <3> QED BY <2>2, <3>1, <3>4, <3>5, <3>6, <3>7 DEF IInv, Course
  <2>3. CASE ~(Undescribed /\ call.defined = 0)
    <3>1. delivered = Passed(call.q, call.next, Taken) BY <2>3, Zenon DEF IInv, Progress
    <3>2. Len(delivered) = call.next - 1
      <4>1. Len(Passed(call.q, call.next, Taken)) = call.next - 1 BY <2>1 DEF Passed
      <4> QED BY <3>1, <4>1
    <3>3. call.next = 1 => delivered = <<>> BY <3>1, NothingPassed
    <3>4. ASSUME call.at \in {"logoff", "return"}
          PROVE  IF call.failed \cap Failed # {} THEN call.res = -1 /\ delivered = <<>>
                 ELSE /\ call.res = Len(delivered)
                      /\ "ofetch" \notin call.failed => Len(delivered) = Len(Rows[call.q])
      <4>1. CASE call.failed \in {{f} : f \in Failed}
        BY <3>3, <3>4, <4>1 DEF IInv, Course, Failed
      <4>2. CASE call.failed \subseteq {"odescr", "odefin", "ofetch"}
        <5>1. call.failed \cap Failed = {} /\ call.failed \notin {{f} : f \in Failed}
           BY <4>2 DEF Failed
        <5> QED BY <2>1, <3>2, <3>4, <5>1 DEF IInv, Course
      <4> QED BY <3>4, <4>1, <4>2 DEF IInv, Course
    <3> QED BY <2>3, <3>1, <3>4
  <2> QED BY <2>2, <2>3
<1> QED BY <1>1, OracleSafe, PTL

\* Between queries the database holds the login of sdb_open and those that a logoff
\* has left, and no query has left another one (oracle_driver.c:114-125, 133-144,
\* 298-307).
THEOREM LoginsAreAccountedAlways == Spec => []LoginsAreAccounted
<1>1. IInv => LoginsAreAccounted
  <2> SUFFICES ASSUME IInv, call = NULL PROVE logins = lost + KeptLogins
    BY DEF LoginsAreAccounted, KeptLogins
  <2>1. OwnLogins = 0 BY DEF OwnLogins
  <2> QED BY <2>1, LoginsAreNumbers DEF IInv, Shape
<1> QED BY <1>1, OracleSafe, PTL
=============================================================================
