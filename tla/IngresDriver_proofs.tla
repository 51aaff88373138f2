------------------------ MODULE IngresDriver_proofs -------------------------
(***************************************************************************)
(* Proofs about the ingres driver, for any queries, types and values, any  *)
(* depth of the queries that callbacks make, and whichever calls of the    *)
(* database fail, those that release included.                             *)
(***************************************************************************)
EXTENDS IngresDriver, TLAPS

\* The columns in s are those of row i of q, converted, as far as they are not null.
Agrees(q, i, s) ==
    \A k \in 1 .. Len(s) :
        Rows[q][i][k] # NULL => s[k] = Converted(Columns[q][k], Rows[q][i][k])

\* How far a query has come in its result.
Placed(c) ==
    /\ c.next.row <= Len(Rows[c.q]) + 1
    /\ c.next = Start \/ c.next.col <= Len(Columns[c.q])
    /\ Len(c.cols) <= Len(Columns[c.q])
    /\ c.at = "fetch" => Len(c.cols) < Len(Columns[c.q])
    /\ c.at \in {"fetch", "callback"} => Columns[c.q] # <<>>
    /\ c.at = "callback" => c.cols = <<>>
    /\ c.at = "connect" => c.own
    /\ c.at \in {"connect", "query", "describe"} =>
          c.next = Start /\ c.cols = <<>> /\ c.delivered = <<>> /\ c.row = 0

\* What a query without long values has collected and passed on by then.
Faithful(c) ==
    Short(c.q) =>
       /\ c.next.seg = 1
       /\ Len(c.cols) = c.next.col - 1 /\ Len(c.delivered) = c.next.row - 1
       /\ c.row = Len(c.delivered) - (IF c.at = "callback" THEN 1 ELSE 0)
       /\ Agrees(c.q, c.next.row, c.cols)
       /\ \A i \in 1 .. Len(c.delivered) :
             Len(c.delivered[i]) = Len(Columns[c.q]) /\ Agrees(c.q, i, c.delivered[i])
       /\ c.at = "close" /\ c.failed = {} /\ c.connected => Len(c.delivered) = Len(Rows[c.q])

Good(c) == Placed(c) /\ Faithful(c)

\* Every query but the innermost waits for its callback.
Layered ==
    /\ calls \in Seq(Calls) /\ Len(calls) <= Depth
    /\ \A l \in 1 .. Len(calls) :
          Good(calls[l]) /\ (l < Len(calls) => calls[l].at = "callback")

\* The query c of level l has opened x and not closed it.
Mine(x, l, c) ==
    \/ x = <<"connection", l>> /\ c.own /\ c.at # "connect"
    \/ x = <<"transaction", l>> /\ c.at \notin {"connect", "query", "disconnect"}
    \/ x = <<"statement", l>> /\ c.at \notin {"connect", "query", "commit", "disconnect"}

Owned ==
    \A x \in held :
        \/ x = <<"connection", 0>> /\ kept = "open"
        \/ \E l \in 1 .. Len(calls) : Mine(x, l, calls[l])

\* What the database has refused to release belongs to a connection that is open, or
\* has been left behind with it; the queries by id are on the connection of sdb_open.
Leftover ==
    \A x \in left :
        /\ x \in {"connection", "transaction", "statement"} \X (Gone .. Depth)
        /\ \/ x[2] \in 1 .. Len(calls) /\ calls[x[2]].own
           \/ x[2] = 0 /\ kept = "open"
           \/ x[2] = Gone /\ <<"connection", Gone>> \in left

Linked == \A l \in 1 .. Len(calls) : calls[l].own \/ ~calls[l].connected \/ kept = "open"

IInv ==
    /\ kept \in {"none", "empty", "open", "broken"}
    /\ Layered
    /\ Owned

---------------------------------------------------------------------------
(* The operators of the model *)

\* The rows of a query have a value for each column, and nothing else is a value.
LEMMA RowValues ==
    ASSUME NEW q \in Queries
    PROVE  /\ Len(Columns[q]) \in Nat /\ Len(Rows[q]) \in Nat
           /\ DOMAIN Rows[q] = 1 .. Len(Rows[q])
           /\ Columns[q] = <<>> <=> Len(Columns[q]) = 0
           /\ Columns[q] = <<>> => Len(Rows[q]) = 0
           /\ \A i \in 1 .. Len(Rows[q]) :
                 /\ DOMAIN Rows[q][i] = 1 .. Len(Columns[q])
                 /\ Len(Rows[q][i]) = Len(Columns[q])
                 /\ \A k \in 1 .. Len(Columns[q]) : Rows[q][i][k] \in Values
<1>1. /\ Columns[q] \in Seq(STRING)
      /\ Rows[q] \in Seq({Rows[q][i] : i \in 1 .. Len(Rows[q])})
      /\ Columns[q] = <<>> => Rows[q] = <<>>
   BY IngresAssumption, Zenon DEF IngresAssumption
<1>2. \A T, s : s \in Seq(T) =>
         Len(s) \in Nat /\ DOMAIN s = 1 .. Len(s) /\ (s = <<>> <=> Len(s) = 0)
   OBVIOUS
<1>3. /\ Len(Columns[q]) \in Nat /\ Len(Rows[q]) \in Nat /\ DOMAIN Rows[q] = 1 .. Len(Rows[q])
      /\ Columns[q] = <<>> <=> Len(Columns[q]) = 0
      /\ Columns[q] = <<>> => Len(Rows[q]) = 0
  <2>1. Len(Columns[q]) \in Nat /\ (Columns[q] = <<>> <=> Len(Columns[q]) = 0)
     BY <1>1, <1>2
  <2>2. /\ Len(Rows[q]) \in Nat /\ DOMAIN Rows[q] = 1 .. Len(Rows[q])
        /\ (Rows[q] = <<>> <=> Len(Rows[q]) = 0)
     BY <1>1, <1>2
  <2> QED BY <1>1, <2>1, <2>2
<1>4. ASSUME NEW i \in 1 .. Len(Rows[q])
      PROVE  /\ DOMAIN Rows[q][i] = 1 .. Len(Columns[q]) /\ Len(Rows[q][i]) = Len(Columns[q])
             /\ \A k \in 1 .. Len(Columns[q]) : Rows[q][i][k] \in Values
  <2>1. Rows[q][i] \in Seq({Rows[q][i][k] : k \in 1 .. Len(Rows[q][i])})
        /\ Len(Rows[q][i]) = Len(Columns[q])
     BY IngresAssumption, Zenon DEF IngresAssumption
  <2>2. DOMAIN Rows[q][i] = 1 .. Len(Columns[q]) BY <1>2, <2>1, Zenon
  <2>3. ASSUME NEW k \in 1 .. Len(Columns[q]) PROVE Rows[q][i][k] \in Values
    <3>1. Rows[q][i][k] \in UNION {{Rows[q][j][d] : d \in DOMAIN Rows[q][j]} : j \in DOMAIN Rows[q]}
       BY <1>3, <2>2
    <3>2. Rows[q][i][k] \in UNION {UNION {{Rows[p][j][d] : d \in DOMAIN Rows[p][j]} :
                                            j \in DOMAIN Rows[p]} : p \in Queries}
       BY <3>1
    <3> QED BY <3>2 DEF Values
  <2> QED BY <2>1, <2>2, <2>3
<1> QED BY <1>3, <1>4

\* What is fetched from a place in the result.
LEMMA ValueAt ==
    ASSUME NEW q \in Queries, NEW i \in 1 .. Len(Rows[q]), NEW k \in 1 .. Len(Columns[q])
    PROVE  Rows[q][i][k] \in Values /\ (Short(q) => Rows[q][i][k] \notin Long)
<1>1. /\ DOMAIN Rows[q] = 1 .. Len(Rows[q])
      /\ \A j \in 1 .. Len(Rows[q]) :
            /\ DOMAIN Rows[q][j] = 1 .. Len(Columns[q])
            /\ \A m \in 1 .. Len(Columns[q]) : Rows[q][j][m] \in Values
   BY RowValues
<1>2. i \in DOMAIN Rows[q] /\ k \in DOMAIN Rows[q][i] BY <1>1, Zenon
<1>3. Rows[q][i][k] \in Values BY <1>1, Zenon
<1> QED BY <1>2, <1>3, Zenon DEF Short

\* The cursor stays in the result until it is behind its last row.
LEMMA AfterPlaces ==
    ASSUME NEW q \in Queries, NEW p \in Places,
           p.row <= Len(Rows[q]), p.col <= Len(Columns[q])
    PROVE  /\ After(q, p) \in Places
           /\ After(q, p).row <= Len(Rows[q]) + 1 /\ After(q, p).col <= Len(Columns[q])
<1> USE DEF Places
<1>1. Len(Columns[q]) \in Nat /\ Len(Rows[q]) \in Nat /\ p.row \in Nat \ {0} /\ p.col \in Nat \ {0}
   BY RowValues
<1>2. CASE p.seg = 1 /\ Rows[q][p.row][p.col] \in Long
  <2>1. After(q, p) = [p EXCEPT !.seg = 2] BY <1>2 DEF After
  <2> QED BY <1>1, <2>1
<1>3. CASE ~(p.seg = 1 /\ Rows[q][p.row][p.col] \in Long) /\ p.col < Len(Columns[q])
  <2>1. After(q, p) = [row |-> p.row, col |-> p.col + 1, seg |-> 1] BY <1>3 DEF After
  <2>2. p.col + 1 \in Nat \ {0} BY <1>1
  <2> QED BY <1>1, <1>3, <2>1, <2>2
<1>4. CASE ~(p.seg = 1 /\ Rows[q][p.row][p.col] \in Long) /\ ~(p.col < Len(Columns[q]))
  <2>1. After(q, p) = [row |-> p.row + 1, col |-> 1, seg |-> 1] BY <1>4 DEF After
  <2>2. p.row + 1 \in Nat \ {0} BY <1>1
  <2> QED BY <1>1, <1>4, <2>1, <2>2
<1> QED BY <1>2, <1>3, <1>4

---------------------------------------------------------------------------
(* The stack of queries *)

\* A step of the innermost query changes no other one.
LEMMA TopChanged ==
    ASSUME Layered, calls # <<>>, NEW c \in Calls, calls' = [calls EXCEPT ![Top] = c]
    PROVE  /\ Len(calls') = Len(calls) /\ calls' \in Seq(Calls)
           /\ Len(calls) \in Nat /\ Top \in 1 .. Len(calls)
           /\ calls'[Top] = c
           /\ \A l \in 1 .. Len(calls) : l # Top => calls'[l] = calls[l]
BY DEF Layered, Top

\* It keeps the invariant if it keeps it for itself, and gives no connection away.
LEMMA TopStep ==
    ASSUME IInv, calls # <<>>, NEW c \in Calls, calls' = [calls EXCEPT ![Top] = c], Good(c),
           kept' = kept,
           \A x \in held' : Mine(x, Top, c) \/ (x \in held /\ x[2] # Top)
    PROVE  IInv'
<1>1. /\ Len(calls') = Len(calls) /\ calls' \in Seq(Calls)
      /\ Len(calls) \in Nat /\ Top \in 1 .. Len(calls)
      /\ calls'[Top] = c
      /\ \A l \in 1 .. Len(calls) : l # Top => calls'[l] = calls[l]
   BY TopChanged DEF IInv
<1>2. Layered'
  <2>1. Len(calls') <= Depth BY <1>1 DEF IInv, Layered
  <2>2. ASSUME NEW l \in 1 .. Len(calls')
        PROVE  Good(calls'[l]) /\ (l < Len(calls') => calls'[l].at = "callback")
    <3>1. CASE l = Top
      <4>1. calls'[l] = c BY <1>1, <3>1
      <4>2. l = Len(calls) BY <3>1 DEF Top
      <4>3. ~(l < Len(calls')) BY <1>1, <4>2
      <4> QED BY <4>1, <4>3, Zenon
    <3>2. CASE l # Top BY <1>1, <2>2, <3>2 DEF IInv, Layered
    <3> QED BY <3>1, <3>2
  <2> QED BY <1>1, <2>1, <2>2 DEF Layered
<1>3. Owned'
  <2> SUFFICES ASSUME NEW x \in held'
               PROVE  \/ x = <<"connection", 0>> /\ kept' = "open"
                      \/ \E l \in 1 .. Len(calls') : Mine(x, l, calls'[l])
    BY DEF Owned
  <2>1. CASE Mine(x, Top, c) BY <1>1, <2>1
  <2>2. CASE x \in held /\ x[2] # Top
    <3>1. \/ x = <<"connection", 0>> /\ kept = "open"
          \/ \E l \in 1 .. Len(calls) : Mine(x, l, calls[l])
       BY <2>2 DEF IInv, Owned
    <3>2. ASSUME NEW l \in 1 .. Len(calls), Mine(x, l, calls[l])
          PROVE  \E m \in 1 .. Len(calls') : Mine(x, m, calls'[m])
      <4>1. x[2] = l BY <3>2 DEF Mine
      <4> QED BY <1>1, <2>2, <3>2, <4>1
    <3> QED BY <3>1, <3>2
  <2> QED BY <2>1, <2>2
<1> QED BY <1>2, <1>3 DEF IInv

\* Of what the database holds for the level of the innermost query, all is its own.
LEMMA TopOwns ==
    ASSUME IInv, calls # <<>>, NEW x \in held, x[2] = Top
    PROVE  Mine(x, Top, call)
<1>1. Top \in 1 .. Len(calls) /\ Len(calls) \in Nat BY DEF IInv, Layered, Top
<1>2. PICK l \in 1 .. Len(calls) : Mine(x, l, calls[l])
   BY <1>1 DEF IInv, Owned
<1>3. x[2] = l BY <1>2 DEF Mine
<1> QED BY <1>2, <1>3 DEF call

\* A query that returns with nothing of its own left open uncovers the one that
\* waits for its callback.
LEMMA ReturnStep ==
    ASSUME IInv, calls # <<>>, Returned, kept' = kept,
           \A x \in held' : x \in held /\ ~Mine(x, Top, call)
    PROVE  IInv'
<1>1. Len(calls) \in Nat \ {0} /\ Top = Len(calls) BY DEF IInv, Layered, Top
<1>2. /\ calls' \in Seq(Calls) /\ Len(calls') = Len(calls) - 1
      /\ \A l \in 1 .. Len(calls) - 1 : calls'[l] = calls[l]
  <2>1. calls' = SubSeq(calls, 1, Len(calls) - 1) BY DEF Returned, Front
  <2> QED BY <1>1, <2>1 DEF IInv, Layered
<1>3. Layered'
  <2>1. \A l \in 1 .. Len(calls) - 1 : l \in 1 .. Len(calls) /\ l < Len(calls) BY <1>1
  <2>2. Len(calls') <= Depth
    BY <1>1, <1>2, IngresAssumption DEF IInv, Layered, IngresAssumption
  <2>3. \A l \in 1 .. Len(calls') : Good(calls'[l]) /\ calls'[l].at = "callback"
    BY <1>1, <1>2, <2>1 DEF IInv, Layered
  <2> QED BY <1>2, <2>2, <2>3 DEF Layered
<1>4. Owned'
  <2> SUFFICES ASSUME NEW x \in held'
               PROVE  \/ x = <<"connection", 0>> /\ kept' = "open"
                      \/ \E l \in 1 .. Len(calls') : Mine(x, l, calls'[l])
    BY DEF Owned
  <2>1. \/ x = <<"connection", 0>> /\ kept = "open"
        \/ \E l \in 1 .. Len(calls) : Mine(x, l, calls[l])
     BY DEF IInv, Owned
  <2>2. ASSUME NEW l \in 1 .. Len(calls), Mine(x, l, calls[l])
        PROVE  \E m \in 1 .. Len(calls') : Mine(x, m, calls'[m])
    <3>1. l # Top BY <2>2 DEF call
    <3>2. l \in 1 .. Len(calls') /\ calls'[l] = calls[l] BY <1>1, <1>2, <3>1
    <3> QED BY <2>2, <3>2
  <2> QED BY <2>1, <2>2
<1> QED BY <1>3, <1>4 DEF IInv

---------------------------------------------------------------------------
(* Steps of a query *)

\* What the invariant says of the innermost query.
LEMMA TopGood ==
    ASSUME IInv, calls # <<>>
    PROVE  call \in Calls /\ Good(call) /\ Top \in 1 .. Depth
<1>1. Top \in 1 .. Len(calls) /\ Len(calls) \in Nat /\ Depth \in Nat
   BY IngresAssumption DEF IngresAssumption, IInv, Layered, Top
<1>2. call \in Calls BY <1>1 DEF call, IInv, Layered
<1>3. Good(call) BY <1>1 DEF call, IInv, Layered
<1> QED BY <1>1, <1>2, <1>3 DEF IInv, Layered

\* sdb_open and sdb_close, between queries.
LEMMA KeptStep ==
    ASSUME IInv, Open \/ Close
    PROVE  IInv'
<1>1. calls = <<>> /\ calls' = calls BY DEF Open, Close
<1>2. Layered' BY <1>1 DEF IInv, Layered
<1>3. \A x \in held : x = <<"connection", 0>> /\ kept = "open"
   BY <1>1 DEF IInv, Owned
<1>4. Owned' BY <1>1, <1>3 DEF Open, Close, Owned
<1> QED BY <1>2, <1>4 DEF IInv, Open, Close

\* A query starts, above the one whose callback makes it.
LEMMA CallStep ==
    ASSUME IInv, NEW q \in Queries, NEW byId \in BOOLEAN, Call(q, byId)
    PROVE  IInv'
<1>1. PICK c : /\ calls' = Append(calls, c)
               /\ c \in Calls /\ c.at \in {"connect", "query"} /\ c.q = q
               /\ c.at = "connect" => c.own
               /\ c.next = Start /\ c.cols = <<>> /\ c.delivered = <<>> /\ c.row = 0
  <2>1. Start \in Places /\ Junk \in Values BY DEF Start, Places, Values
  <2>2. PICK own \in BOOLEAN, at \in {"connect", "query"}, connected \in BOOLEAN :
        /\ at = "connect" => own
        /\ calls' = Append(calls, [q |-> q, own |-> own, at |-> at, connected |-> connected,
                                   buffer |-> Junk, cols |-> <<>>, next |-> Start,
                                   delivered |-> <<>>, row |-> 0, failed |-> {}])
     BY DEF Call
  <2> DEFINE c == [q |-> q, own |-> own, at |-> at, connected |-> connected,
                   buffer |-> Junk, cols |-> <<>>, next |-> Start,
                   delivered |-> <<>>, row |-> 0, failed |-> {}]
  <2>3. c \in Calls BY <2>1 DEF Calls, Steps
  <2> QED BY <2>2, <2>3
<1>2. /\ Len(calls) \in Nat /\ calls' \in Seq(Calls) /\ Len(calls') = Len(calls) + 1
      /\ calls'[Len(calls) + 1] = c /\ \A l \in 1 .. Len(calls) : calls'[l] = calls[l]
   BY <1>1 DEF IInv, Layered
<1>3. Good(c)
  <2>1. Len(Columns[q]) \in Nat /\ Len(Rows[q]) \in Nat BY RowValues
  <2>2. Placed(c) BY <1>1, <2>1 DEF Placed, Start
  <2>3. Faithful(c) BY <1>1, <2>1 DEF Faithful, Agrees, Start
  <2> QED BY <2>2, <2>3 DEF Good
<1>4. Layered'
  <2>1. Len(calls') <= Depth
     BY <1>2, IngresAssumption DEF IngresAssumption, Call, Top
  <2>2. ASSUME NEW l \in 1 .. Len(calls')
        PROVE  Good(calls'[l]) /\ (l < Len(calls') => calls'[l].at = "callback")
    <3>1. CASE l = Len(calls) + 1
      <4>1. calls'[l] = c BY <1>2, <3>1
      <4>2. ~(l < Len(calls')) BY <1>2, <3>1
      <4> QED BY <1>3, <4>1, <4>2, Zenon
    <3>2. CASE l \in 1 .. Len(calls)
      <4>1. calls'[l] = calls[l] /\ Good(calls[l]) BY <1>2, <3>2 DEF IInv, Layered
      <4>2. CASE l < Len(calls) BY <4>1, <3>2, <4>2 DEF IInv, Layered
      <4>3. CASE l = Len(calls)
        <5>1. call.at = "callback" BY <1>2, <3>2, <4>3 DEF Call, Idle, At
        <5> QED BY <4>1, <4>3, <5>1 DEF call, Top
      <4> QED BY <1>2, <3>2, <4>2, <4>3
    <3> QED BY <1>2, <2>2, <3>1, <3>2
  <2> QED BY <1>2, <2>1, <2>2 DEF Layered
<1>5. Owned'
  <2> SUFFICES ASSUME NEW x \in held
               PROVE  \/ x = <<"connection", 0>> /\ kept = "open"
                      \/ \E l \in 1 .. Len(calls') : Mine(x, l, calls'[l])
    BY DEF Owned, Call
  <2>1. \/ x = <<"connection", 0>> /\ kept = "open"
        \/ \E l \in 1 .. Len(calls) : Mine(x, l, calls[l])
     BY DEF IInv, Owned
  <2>2. ASSUME NEW l \in 1 .. Len(calls), Mine(x, l, calls[l])
        PROVE  \E m \in 1 .. Len(calls') : Mine(x, m, calls'[m])
    <3>1. l \in 1 .. Len(calls') /\ calls'[l] = calls[l] BY <1>2
    <3> QED BY <2>2, <3>1
  <2> QED BY <2>1, <2>2
<1> QED BY <1>4, <1>5 DEF IInv, Call

\* The steps that say how far a query has come, and change nothing in its result.
LEMMA GotoStep ==
    ASSUME IInv, calls # <<>>, kept' = kept,
           NEW step \in {"query", "describe", "fetch", "close", "commit", "disconnect"},
           NEW connected \in BOOLEAN, NEW failed \in SUBSET Faults,
           Changed([call EXCEPT !.at = step, !.connected = connected, !.failed = failed]),
           step \in {"query", "describe"} => call.at \in {"connect", "query"},
           step = "fetch" =>
              Columns[call.q] # <<>> /\ call.at # "callback" /\ Len(call.cols) < Len(Columns[call.q]),
           call.at # "callback",
           step = "close" /\ failed = {} /\ connected =>
              call.at \in {"describe", "fetch"} /\ call.next.row > Len(Rows[call.q]),
           \A x \in held' :
              \/ x = <<"connection", Top>> /\ call.own
              \/ x = <<"transaction", Top>> /\ step \in {"describe", "fetch", "close", "commit"}
              \/ x = <<"statement", Top>> /\ step \in {"describe", "fetch", "close"}
              \/ x \in held /\ x[2] # Top
    PROVE  IInv'
<1>1. call \in Calls /\ Good(call) BY TopGood
<1> DEFINE c == [call EXCEPT !.at = step, !.connected = connected, !.failed = failed]
<1>2. c \in Calls BY <1>1 DEF Calls, Steps
<1>3. /\ c.q = call.q /\ c.own = call.own /\ c.at = step /\ c.connected = connected
      /\ c.failed = failed /\ c.next = call.next /\ c.cols = call.cols
      /\ c.delivered = call.delivered /\ c.row = call.row
   BY <1>1 DEF Calls
<1>4. calls' = [calls EXCEPT ![Top] = c] BY DEF Changed
<1> HIDE DEF c
<1>5. Good(c)
  <2>1. Placed(c) BY <1>1, <1>3 DEF Good, Placed
  <2>2. Faithful(c)
    <3> SUFFICES ASSUME Short(call.q) PROVE Faithful(c)
      BY <1>3 DEF Faithful
    <3>1. /\ call.next.seg = 1
          /\ Len(call.cols) = call.next.col - 1 /\ Len(call.delivered) = call.next.row - 1
          /\ call.row = Len(call.delivered)
          /\ Agrees(call.q, call.next.row, call.cols)
          /\ \A i \in 1 .. Len(call.delivered) :
                 /\ Len(call.delivered[i]) = Len(Columns[call.q])
                 /\ Agrees(call.q, i, call.delivered[i])
       BY <1>1 DEF Good, Faithful, Calls
    <3>2. call.next.row <= Len(Rows[call.q]) + 1 BY <1>1 DEF Good, Placed
    <3>3. call.next.row \in Nat /\ Len(Rows[call.q]) \in Nat
       BY <1>1, RowValues DEF Calls, Places
    <3>4. step = "close" /\ failed = {} /\ connected => Len(call.delivered) = Len(Rows[call.q])
       BY <3>1, <3>2, <3>3
    <3> QED BY <1>3, <3>1, <3>4 DEF Faithful
  <2> QED BY <2>1, <2>2 DEF Good
<1>6. \A x \in held' : Mine(x, Top, c) \/ (x \in held /\ x[2] # Top)
   BY <1>3 DEF Mine
<1> QED BY <1>2, <1>4, <1>5, <1>6, TopStep

\* A step that changes the place only is one that keeps the connection and failures.
LEMMA GotoForm ==
    ASSUME call \in Calls, NEW step
    PROVE  Goto(step) =>
              /\ Changed([call EXCEPT !.at = step, !.connected = call.connected,
                                      !.failed = call.failed])
              /\ call.connected \in BOOLEAN /\ call.failed \in SUBSET Faults
<1>1. [call EXCEPT !.at = step]
        = [call EXCEPT !.at = step, !.connected = call.connected, !.failed = call.failed]
   BY DEF Calls
<1>2. call.connected \in BOOLEAN /\ call.failed \in SUBSET Faults BY DEF Calls
<1> QED BY <1>1, <1>2, Zenon DEF Goto

\* Likewise one that fails, which is remembered.
LEMMA FailedForm ==
    ASSUME call \in Calls, NEW f, NEW step
    PROVE  Failed(f, step) =>
              /\ Changed([call EXCEPT !.at = step, !.connected = call.connected,
                                      !.failed = call.failed \cup {f}])
              /\ call.connected \in BOOLEAN /\ call.failed \cup {f} \in SUBSET Faults
<1> SUFFICES ASSUME Failed(f, step)
             PROVE  /\ Changed([call EXCEPT !.at = step, !.connected = call.connected,
                                            !.failed = call.failed \cup {f}])
                    /\ call.connected \in BOOLEAN /\ call.failed \cup {f} \in SUBSET Faults
  OBVIOUS
<1>1. [call EXCEPT !.at = step, !.failed = @ \cup {f}]
        = [call EXCEPT !.at = step, !.connected = call.connected, !.failed = call.failed \cup {f}]
   BY DEF Calls
<1>2. call.connected \in BOOLEAN /\ call.failed \cup {f} \in SUBSET Faults
   BY DEF Calls, Failed, MayFail
<1> QED BY <1>1, <1>2, Zenon DEF Failed

\* The steps before the first column.
LEMMA OpeningStep ==
    ASSUME IInv, Connect \/ Query \/ QueryFails \/ Describe \/ DescribeFails
    PROVE  IInv'
<1>1. calls # <<>> /\ kept' = kept /\ call.at \in {"connect", "query", "describe"}
   BY DEF Connect, Query, QueryFails, Describe, DescribeFails, At
<1>2. call \in Calls /\ Good(call) BY <1>1, TopGood
<1>3. /\ call.next = Start /\ call.cols = <<>> /\ Len(call.cols) = 0
   BY <1>1, <1>2 DEF Good, Placed
<1>4. \A x \in held : x[2] = Top => Mine(x, Top, call) BY <1>1, TopOwns
<1>5. CASE Connect
  <2>1. CASE /\ Changed([call EXCEPT !.at = "query", !.connected = TRUE])
             /\ held' = Acquire("connection")
    <3>1. [call EXCEPT !.at = "query", !.connected = TRUE]
            = [call EXCEPT !.at = "query", !.connected = TRUE, !.failed = call.failed]
       BY <1>2 DEF Calls
    <3>2. call.failed \in SUBSET Faults BY <1>2 DEF Calls
    <3>3. Changed([call EXCEPT !.at = "query", !.connected = TRUE, !.failed = call.failed])
       BY <2>1, <3>1, Zenon
    <3>4. call.own BY <1>2, <1>5 DEF Connect, At, Good, Placed
    <3> QED BY <1>1, <1>4, <1>5, <2>1, <3>2, <3>3, <3>4, GotoStep DEF Connect, At, Acquire, Mine
  <2>2. CASE Failed("connect", "query") /\ UNCHANGED held
    BY <1>1, <1>2, <1>4, <1>5, <2>2, FailedForm, GotoStep, ZenonT(60) DEF Connect, At, Mine
  <2> QED BY <1>5, <2>1, <2>2 DEF Connect
<1>6. CASE Query
  <2>1. \A x \in held' : \/ x = <<"transaction", Top>> \/ x = <<"statement", Top>> \/ x \in held
     BY <1>6 DEF Query, Acquire
  <2>2. \A x \in held : x[2] = Top => x = <<"connection", Top>> /\ call.own
     BY <1>4, <1>6 DEF Query, At, Mine
  <2>3. Goto("describe") /\ call.at = "query" BY <1>6 DEF Query, At
  <2> QED BY <1>1, <1>2, <2>1, <2>2, <2>3, GotoForm, GotoStep
<1>7. CASE QueryFails
  <2>1. \A x \in held' : \/ x = <<"transaction", Top>> \/ x = <<"statement", Top>> \/ x \in held
     BY <1>7 DEF QueryFails, Acquire
  <2>2. \A x \in held : x[2] = Top => x = <<"connection", Top>> /\ call.own
     BY <1>4, <1>7 DEF QueryFails, At, Mine
  <2>3. Goto("describe") \/ Failed("query", "describe") BY <1>7 DEF QueryFails
  <2>4. call.at = "query" BY <1>7 DEF QueryFails, At
  <2> QED BY <1>1, <1>2, <2>1, <2>2, <2>3, <2>4, GotoForm, FailedForm, GotoStep, ZenonT(60)
<1>8. CASE Describe \/ DescribeFails
  <2>1. held' = held /\ call.at = "describe" BY <1>8 DEF Describe, DescribeFails, At
  <2>2. \A x \in held' : \/ x = <<"connection", Top>> /\ call.own
                         \/ x = <<"transaction", Top>>
                         \/ x = <<"statement", Top>>
                         \/ x \in held /\ x[2] # Top
     BY <1>4, <2>1, Zenon DEF Mine
  <2>3. /\ Len(Columns[call.q]) \in Nat /\ Len(Rows[call.q]) \in Nat
        /\ Columns[call.q] = <<>> <=> Len(Columns[call.q]) = 0
        /\ Columns[call.q] = <<>> => Len(Rows[call.q]) = 0
    <3>1. call.q \in Queries BY <1>2 DEF Calls
    <3> QED BY <3>1, RowValues
  <2>4. call.next.row = 1 BY <1>3 DEF Start
  <2>5. CASE Goto("fetch") /\ Columns[call.q] # <<>>
    <3>1. Len(call.cols) < Len(Columns[call.q]) BY <1>3, <2>3, <2>5
    <3> QED BY <1>1, <1>2, <2>1, <2>2, <2>5, <3>1, GotoForm, GotoStep
  <2>6. CASE Goto("close") /\ Columns[call.q] = <<>>
    <3>1. call.next.row > Len(Rows[call.q]) BY <2>3, <2>4, <2>6
    <3> QED BY <1>1, <1>2, <2>1, <2>2, <2>6, <3>1, GotoForm, GotoStep
  <2>7. CASE Goto("close") /\ (~call.connected \/ "query" \in call.failed)
    BY <1>1, <1>2, <2>1, <2>2, <2>7, GotoForm, GotoStep
  <2>8. CASE Failed("describe", "close")
    BY <1>1, <1>2, <2>1, <2>2, <2>8, FailedForm, GotoStep, ZenonT(60)
  <2> QED BY <1>8, <2>5, <2>6, <2>7, <2>8 DEF Describe, DescribeFails
<1> QED BY <1>5, <1>6, <1>7, <1>8

\* The steps after the last column.
LEMMA ClosingStep ==
    ASSUME IInv, FetchEnds \/ CloseStatement \/ Commit \/ Disconnect
    PROVE  IInv'
<1>1. calls # <<>> /\ kept' = kept /\ call.at \in {"fetch", "close", "commit", "disconnect"}
   BY DEF FetchEnds, CloseStatement, Commit, Disconnect, At
<1>2. call \in Calls BY <1>1, TopGood
<1>3. \A x \in held : x[2] = Top => Mine(x, Top, call) BY <1>1, TopOwns
<1>4. CASE FetchEnds
  <2>1. held' = held /\ call.at = "fetch" BY <1>4 DEF FetchEnds, At
  <2>2. \A x \in held' : \/ x = <<"connection", Top>> /\ call.own
                         \/ x = <<"transaction", Top>>
                         \/ x = <<"statement", Top>>
                         \/ x \in held /\ x[2] # Top
     BY <1>3, <2>1, Zenon DEF Mine
  <2>3. CASE call.next.row > Len(Rows[call.q]) /\ Goto("close")
    BY <1>1, <1>2, <2>1, <2>2, <2>3, GotoForm, GotoStep
  <2>4. CASE Failed("fetch", "close")
    BY <1>1, <1>2, <2>1, <2>2, <2>4, FailedForm, GotoStep, ZenonT(60)
  <2> QED BY <1>4, <2>3, <2>4 DEF FetchEnds
<1>5. CASE CloseStatement
  <2>1. Goto("commit") /\ held' = held \ {<<"statement", Top>>} /\ call.at = "close"
     BY <1>5 DEF CloseStatement, Refused, At, Release
  <2>2. \A x \in held' : \/ x = <<"connection", Top>> /\ call.own
                         \/ x = <<"transaction", Top>>
                         \/ x \in held /\ x[2] # Top
     BY <1>3, <2>1, Zenon DEF Mine
  <2> QED BY <1>1, <1>2, <2>1, <2>2, GotoForm, GotoStep
<1>6. CASE Commit
  <2>1. held' = held \ {<<"transaction", Top>>} /\ call.at = "commit"
     BY <1>6 DEF Commit, Refused, At, Release
  <2>2. \A x \in held' : \/ x = <<"connection", Top>> /\ call.own
                         \/ x \in held /\ x[2] # Top
     BY <1>3, <2>1, Zenon DEF Mine
  <2>3. CASE call.own
    <3>1. Goto("disconnect") BY <1>6, <2>3 DEF Commit
    <3> QED BY <1>1, <1>2, <2>1, <2>2, <3>1, GotoForm, GotoStep
  <2>4. CASE ~call.own
    <3>1. \A x \in held' : x \in held /\ x[2] # Top BY <2>1, <2>2, <2>4
    <3>2. \A x : Mine(x, Top, call) => x[2] = Top BY DEF Mine
    <3> QED BY <1>1, <1>6, <2>4, <3>1, <3>2, ReturnStep DEF Commit
  <2> QED BY <2>3, <2>4
<1>7. CASE Disconnect
  <2>1. held' = held \ {<<"connection", Top>>} /\ call.at = "disconnect"
     BY <1>7 DEF Disconnect, At, Release
  <2>2. \A x \in held' : x \in held /\ ~Mine(x, Top, call) BY <2>1 DEF Mine
  <2> QED BY <1>1, <1>7, <2>2, ReturnStep DEF Disconnect
<1> QED BY <1>4, <1>5, <1>6, <1>7

\* One more column agrees with the row if it is converted from the value there.
LEMMA OneMore ==
    ASSUME NEW q, NEW i, NEW s \in Seq(Values), NEW v, Agrees(q, i, s),
           Rows[q][i][Len(s) + 1] # NULL =>
              v = Converted(Columns[q][Len(s) + 1], Rows[q][i][Len(s) + 1])
    PROVE  Agrees(q, i, Append(s, v))
<1>1. /\ Len(s) \in Nat /\ Len(Append(s, v)) = Len(s) + 1
      /\ Append(s, v)[Len(s) + 1] = v /\ \A k \in 1 .. Len(s) : Append(s, v)[k] = s[k]
   OBVIOUS
<1>2. \A k \in 1 .. Len(s) + 1 : k \in 1 .. Len(s) \/ k = Len(s) + 1 BY <1>1
<1> DEFINE t == Append(s, v)
<1> HIDE DEF t
<1>3. \A k \in 1 .. Len(s) + 1 :
         Rows[q][i][k] # NULL => t[k] = Converted(Columns[q][k], Rows[q][i][k])
   BY <1>1, <1>2 DEF Agrees, t
<1>4. Len(t) = Len(s) + 1 BY <1>1 DEF t
<1> QED BY <1>3, <1>4 DEF Agrees, t

\* A column is fetched and collected, and with the last one the row is passed on.
LEMMA FetchStep ==
    ASSUME IInv, Fetch
    PROVE  IInv'
<1>1. calls # <<>> /\ kept' = kept /\ held' = held /\ call.at = "fetch"
   BY DEF Fetch, At
<1>2. call \in Calls /\ Good(call) BY <1>1, TopGood
<1> DEFINE q == call.q
           p == call.next
           w == Len(Columns[q])
           value == Rows[q][p.row][p.col]
           arrived == IF value = NULL THEN call.buffer ELSE value
           v == Converted(Columns[q][Len(call.cols) + 1], arrived)
           cols == Append(call.cols, v)
<1>3. /\ q \in Queries /\ p \in Places /\ p.row \in Nat \ {0} /\ p.col \in Nat \ {0}
      /\ call.cols \in Seq(Values) /\ Len(call.cols) \in Nat /\ call.row \in Nat
      /\ call.delivered \in Seq(Seq(Values)) /\ Len(call.delivered) \in Nat
      /\ call.buffer \in Values
   BY <1>2 DEF Calls, Places
<1>4. /\ w \in Nat /\ Len(Rows[q]) \in Nat /\ DOMAIN Rows[q] = 1 .. Len(Rows[q])
      /\ \A i \in 1 .. Len(Rows[q]) :
            /\ DOMAIN Rows[q][i] = 1 .. w
            /\ \A k \in 1 .. w : Rows[q][i][k] \in Values
   BY <1>3, RowValues
<1>5. Len(call.cols) < w /\ p.row <= Len(Rows[q]) /\ p.col <= w /\ Columns[q] # <<>>
  <2>1. Len(call.cols) < w /\ (p = Start \/ p.col <= w) /\ Columns[q] # <<>>
     BY <1>1, <1>2 DEF Good, Placed
  <2>2. p = Start => p.col = 1 BY DEF Start
  <2>3. p.row <= Len(Rows[q]) BY <1>1, ZenonT(60) DEF Fetch
  <2> QED BY <1>3, <1>4, <2>1, <2>2, <2>3
<1>6. value \in Values /\ arrived \in Values /\ v \in Values
  <2>0. p.row \in 1 .. Len(Rows[q]) /\ p.col \in 1 .. w BY <1>3, <1>4, <1>5
  <2>1. value \in Values BY <1>3, <2>0, ValueAt, Zenon
  <2>2. arrived \in Values BY <1>3, <2>1
  <2>3. Count \in Values /\ Zero \in Values BY DEF Values
  <2> QED BY <2>1, <2>2, <2>3 DEF Converted
<1>7. After(q, p) \in Places /\ After(q, p).row <= Len(Rows[q]) + 1 /\ After(q, p).col <= w
   BY <1>3, <1>5, AfterPlaces
<1>8. cols \in Seq(Values) /\ Len(cols) = Len(call.cols) + 1 BY <1>3, <1>6
<1>9. Column(arrived, cols) BY DEF Fetch
<1>10. Short(q) => /\ p.seg = 1 /\ value \notin Long /\ Len(call.cols) + 1 = p.col
                   /\ Len(call.delivered) = p.row - 1 /\ call.row = Len(call.delivered)
                   /\ Agrees(q, p.row, cols)
                   /\ \A i \in 1 .. Len(call.delivered) :
                         Len(call.delivered[i]) = w /\ Agrees(q, i, call.delivered[i])
  <2> SUFFICES ASSUME Short(q)
               PROVE  /\ p.seg = 1 /\ value \notin Long /\ Len(call.cols) + 1 = p.col
                      /\ Len(call.delivered) = p.row - 1 /\ call.row = Len(call.delivered)
                      /\ Agrees(q, p.row, cols)
                      /\ \A i \in 1 .. Len(call.delivered) :
                            Len(call.delivered[i]) = w /\ Agrees(q, i, call.delivered[i])
    OBVIOUS
  <2>1. /\ p.seg = 1 /\ Len(call.cols) = p.col - 1 /\ Len(call.delivered) = p.row - 1
        /\ call.row = Len(call.delivered) - 0 /\ Agrees(q, p.row, call.cols)
        /\ \A i \in 1 .. Len(call.delivered) :
              Len(call.delivered[i]) = w /\ Agrees(q, i, call.delivered[i])
     BY <1>1, <1>2 DEF Good, Faithful
  <2>0. p.row \in 1 .. Len(Rows[q]) /\ p.col \in 1 .. w BY <1>3, <1>4, <1>5
  <2>2. value \notin Long BY <1>3, <2>0, ValueAt, Zenon
  <2>3. Len(call.cols) + 1 = p.col BY <1>3, <2>1
  <2>4. Rows[q][p.row][Len(call.cols) + 1] # NULL =>
           v = Converted(Columns[q][Len(call.cols) + 1], Rows[q][p.row][Len(call.cols) + 1])
     BY <2>3
  <2> HIDE DEF q, p, v, value
  <2>5. Agrees(q, p.row, cols) BY <1>3, <2>1, <2>4, OneMore
  <2> QED BY <1>3, <2>1, <2>2, <2>3, <2>5
<1>11. \A x \in held : x[2] = Top => Mine(x, Top, call) BY <1>1, TopOwns
<1> HIDE DEF v, arrived, cols
<1>12. CASE Len(cols) < w
  <2> DEFINE c == [call EXCEPT !.next = After(q, p), !.buffer = arrived, !.cols = cols]
  <2>1. calls' = [calls EXCEPT ![Top] = c] BY <1>9, <1>12 DEF Column, Changed
  <2>2. c \in Calls BY <1>2, <1>6, <1>7, <1>8 DEF Calls
  <2>3. /\ c.q = q /\ c.own = call.own /\ c.at = "fetch" /\ c.connected = call.connected
        /\ c.failed = call.failed /\ c.next = After(q, p) /\ c.cols = cols
        /\ c.delivered = call.delivered /\ c.row = call.row
     BY <1>1, <1>2 DEF Calls
  <2> HIDE DEF c
  <2>4. Placed(c) BY <1>5, <1>7, <1>12, <2>3 DEF Placed
  <2>5. Faithful(c)
    <3> SUFFICES ASSUME Short(q) PROVE Faithful(c)
      BY <2>3 DEF Faithful
    <3>1. After(q, p) = [row |-> p.row, col |-> p.col + 1, seg |-> 1]
       BY <1>8, <1>10, <1>12 DEF After
    <3>2. /\ After(q, p).seg = 1 /\ Len(cols) = After(q, p).col - 1
          /\ After(q, p).row = p.row
       BY <1>3, <1>8, <1>10, <3>1
    <3>3. c.row = Len(c.delivered) - 0 BY <1>3, <1>10, <2>3
    <3> HIDE DEF q, p, w
    <3> QED BY <1>10, <2>3, <3>2, <3>3 DEF Faithful, q, w
  <2>6. \A x \in held : Mine(x, Top, c) \/ x[2] # Top BY <1>1, <1>11, <2>3 DEF Mine
  <2> QED BY <1>1, <2>1, <2>2, <2>4, <2>5, <2>6, TopStep DEF Good
<1>13. CASE ~(Len(cols) < w)
  <2> DEFINE c == [call EXCEPT !.next = After(q, p), !.buffer = arrived, !.cols = <<>>,
                               !.delivered = Append(@, cols), !.at = "callback"]
             d == Append(call.delivered, cols)
  <2>1. calls' = [calls EXCEPT ![Top] = c] BY <1>9, <1>13 DEF Column, Changed
  <2>2. c \in Calls
    <3>1. d \in Seq(Seq(Values)) BY <1>3, <1>8
    <3>2. c = [call EXCEPT !.next = After(q, p), !.buffer = arrived, !.cols = <<>>,
                           !.delivered = d, !.at = "callback"]
       OBVIOUS
    <3>3. \A n \in Places, b \in Values, t \in Seq(Values), e \in Seq(Seq(Values)) :
             [call EXCEPT !.next = n, !.buffer = b, !.cols = t, !.delivered = e, !.at = "callback"]
                \in Calls
       BY <1>2 DEF Calls, Steps
    <3>4. <<>> \in Seq(Values) OBVIOUS
    <3> HIDE DEF d, c, p, q
    <3> QED BY <1>6, <1>7, <3>1, <3>2, <3>3, <3>4, Zenon
  <2>3. /\ c.q = q /\ c.own = call.own /\ c.at = "callback" /\ c.connected = call.connected
        /\ c.failed = call.failed /\ c.next = After(q, p) /\ c.cols = <<>>
        /\ c.delivered = d /\ c.row = call.row
     BY <1>1, <1>2 DEF Calls
  <2>4. /\ Len(d) = Len(call.delivered) + 1 /\ d[Len(call.delivered) + 1] = cols
        /\ \A i \in 1 .. Len(call.delivered) : d[i] = call.delivered[i]
     BY <1>3, <1>8
  <2> HIDE DEF c, d
  <2>5. Placed(c) BY <1>4, <1>5, <1>7, <2>3 DEF Placed
  <2>6. Faithful(c)
    <3> SUFFICES ASSUME Short(q) PROVE Faithful(c)
      BY <2>3 DEF Faithful
    <3>1. After(q, p) = [row |-> p.row + 1, col |-> 1, seg |-> 1]
       BY <1>3, <1>4, <1>8, <1>10, <1>13 DEF After
    <3>2. /\ After(q, p).seg = 1 /\ 0 = After(q, p).col - 1
          /\ Len(d) = After(q, p).row - 1 /\ call.row = Len(d) - 1
       BY <1>3, <1>10, <2>4, <3>1
    <3>3. Len(cols) = w BY <1>3, <1>4, <1>5, <1>8, <1>13
    <3>4. \A i \in 1 .. Len(d) : Len(d[i]) = w /\ Agrees(q, i, d[i])
      <4>1. \A i \in 1 .. Len(d) : i \in 1 .. Len(call.delivered) \/ i = p.row
         BY <1>3, <1>10, <2>4, SMTT(30)
      <4>2. d[p.row] = cols BY <1>3, <1>10, <2>4
      <4> HIDE DEF q, p, w
      <4> QED BY <1>10, <2>4, <3>3, <4>1, <4>2
    <3>5. Agrees(q, After(q, p).row, <<>>) BY DEF Agrees
    <3> HIDE DEF q, p, w
    <3> QED BY <2>3, <3>2, <3>4, <3>5 DEF Faithful, w
  <2>7. \A x \in held : Mine(x, Top, c) \/ x[2] # Top BY <1>1, <1>11, <2>3 DEF Mine
  <2> QED BY <1>1, <2>1, <2>2, <2>5, <2>6, <2>7, TopStep DEF Good
<1> QED BY <1>12, <1>13

\* The callback returns, and the row is counted.
LEMMA CallbackStep ==
    ASSUME IInv, CallbackReturns
    PROVE  IInv'
<1>1. calls # <<>> /\ kept' = kept /\ held' = held /\ call.at = "callback"
   BY DEF CallbackReturns, At
<1>2. call \in Calls /\ Good(call) BY <1>1, TopGood
<1> DEFINE c == [call EXCEPT !.at = "fetch", !.row = @ + 1]
<1>3. calls' = [calls EXCEPT ![Top] = c] BY DEF CallbackReturns, Changed
<1>4. c \in Calls
  <2>1. call.row + 1 \in Nat BY <1>2 DEF Calls
  <2>2. \A n \in Nat : [call EXCEPT !.at = "fetch", !.row = n] \in Calls
     BY <1>2 DEF Calls, Steps
  <2> QED BY <2>1, <2>2, Zenon
<1>5. /\ c.q = call.q /\ c.own = call.own /\ c.at = "fetch" /\ c.connected = call.connected
      /\ c.failed = call.failed /\ c.next = call.next /\ c.cols = call.cols
      /\ c.delivered = call.delivered /\ c.row = call.row + 1
   BY <1>2 DEF Calls
<1> HIDE DEF c
<1>6. call.q \in Queries /\ call.row \in Nat /\ Len(call.delivered) \in Nat
   BY <1>2 DEF Calls
<1>7. Placed(c)
  <2>1. call.cols = <<>> /\ Columns[call.q] # <<>> BY <1>1, <1>2 DEF Good, Placed
  <2>2. Len(Columns[call.q]) \in Nat /\ Len(Columns[call.q]) # 0 BY <1>6, <2>1, RowValues
  <2>3. Len(call.cols) < Len(Columns[call.q]) BY <2>1, <2>2
  <2> QED BY <1>1, <1>2, <1>5, <2>1, <2>3 DEF Good, Placed
<1>8. Faithful(c)
  <2> SUFFICES ASSUME Short(call.q) PROVE Faithful(c)
    BY <1>5 DEF Faithful
  <2>1. call.row = Len(call.delivered) - 1 BY <1>1, <1>2 DEF Good, Faithful
  <2>2. c.row = Len(c.delivered) - 0 BY <1>5, <1>6, <2>1
  <2> QED BY <1>2, <1>5, <2>2 DEF Good, Faithful
<1>9. \A x \in held : Mine(x, Top, c) \/ x[2] # Top
  <2>1. \A x \in held : x[2] = Top => Mine(x, Top, call) BY <1>1, TopOwns
  <2> QED BY <1>1, <1>5, <2>1 DEF Mine
<1> QED BY <1>1, <1>3, <1>4, <1>7, <1>8, <1>9, TopStep DEF Good

---------------------------------------------------------------------------
(* What the database refuses to release *)

\* A step of the innermost query that leaves something behind, or nothing.
LEMMA LeftKept ==
    ASSUME IInv, Leftover, Linked, calls # <<>>, NEW c \in Calls,
           calls' = [calls EXCEPT ![Top] = c], c.own = call.own,
           c.own \/ c.connected = call.connected, kept' = kept,
           \A x \in left' :
              \/ x \in left
              \/ /\ call.connected
                 /\ \E kind \in {"transaction", "statement"} :
                       x = <<kind, IF call.own THEN Top ELSE 0>>,
           left \subseteq left'
    PROVE  Leftover' /\ Linked'
<1>1. /\ Len(calls') = Len(calls) /\ Len(calls) \in Nat /\ Top \in 1 .. Len(calls)
      /\ calls'[Top] = c
      /\ \A l \in 1 .. Len(calls) : l # Top => calls'[l] = calls[l]
   BY TopChanged DEF IInv
<1>2. Len(calls) <= Depth /\ Depth \in Nat
   BY IngresAssumption DEF IInv, Layered, IngresAssumption
<1>3. \A l \in 1 .. Len(calls) : calls'[l].own = calls[l].own BY <1>1 DEF call
<1>4. ASSUME NEW x \in left'
      PROVE  /\ x \in {"connection", "transaction", "statement"} \X (Gone .. Depth)
             /\ \/ x[2] \in 1 .. Len(calls') /\ calls'[x[2]].own
                \/ x[2] = 0 /\ kept' = "open"
                \/ x[2] = Gone /\ <<"connection", Gone>> \in left'
  <2>1. CASE x \in left BY <1>1, <1>3, <2>1 DEF Leftover
  <2>2. ASSUME call.connected, NEW kind \in {"transaction", "statement"},
               x = <<kind, IF call.own THEN Top ELSE 0>>
        PROVE  /\ x \in {"connection", "transaction", "statement"} \X (Gone .. Depth)
               /\ \/ x[2] \in 1 .. Len(calls') /\ calls'[x[2]].own
                  \/ x[2] = 0 /\ kept' = "open"
    <3>1. CASE call.own
      <4>1. x = <<kind, Top>> BY <2>2, <3>1
      <4>2. Top \in Gone .. Depth BY <1>1, <1>2 DEF Gone
      <4> QED BY <1>1, <3>1, <4>1, <4>2
    <3>2. CASE ~call.own
      <4>1. x = <<kind, 0>> BY <2>2, <3>2
      <4>2. kept = "open" BY <1>1, <2>2, <3>2 DEF Linked, call
      <4>3. 0 \in Gone .. Depth BY <1>2 DEF Gone
      <4> QED BY <4>1, <4>2, <4>3
    <3> QED BY <3>1, <3>2
  <2> QED BY <2>1, <2>2
<1>5. Linked'
  <2> SUFFICES ASSUME NEW l \in 1 .. Len(calls)
               PROVE  calls'[l].own \/ ~calls'[l].connected \/ kept = "open"
    BY <1>1 DEF Linked
  <2>1. calls[l].own \/ ~calls[l].connected \/ kept = "open" BY DEF Linked
  <2>2. CASE l = Top BY <1>1, <2>1, <2>2 DEF call
  <2>3. CASE l # Top BY <1>1, <2>1, <2>3
  <2> QED BY <2>2, <2>3
<1> QED BY <1>4, <1>5 DEF Leftover

\* A query returns; what it leaves on a connection of its own goes with it, or stays
\* with it.
LEMMA LeftReturn ==
    ASSUME IInv, Leftover, Linked, calls # <<>>, Returned, kept' = kept,
           \/ ~call.own /\ left' = left
           \/ ~call.own /\ call.connected /\ left' = left \cup {<<"transaction", 0>>}
           \/ left' = Without(Top) \/ left' = Orphaned(Top)
    PROVE  Leftover' /\ Linked'
<1>1. Len(calls) \in Nat \ {0} /\ Top = Len(calls) BY DEF IInv, Layered, Top
<1>2. /\ calls' \in Seq(Calls) /\ Len(calls') = Len(calls) - 1
      /\ \A l \in 1 .. Len(calls) - 1 : calls'[l] = calls[l]
  <2>1. calls' = SubSeq(calls, 1, Len(calls) - 1) BY DEF Returned, Front
  <2> QED BY <1>1, <2>1 DEF IInv, Layered
<1>3. \A l \in 1 .. Len(calls) : l # Top => l \in 1 .. Len(calls') /\ calls'[l] = calls[l]
   BY <1>1, <1>2
<1>4. Depth \in Nat BY IngresAssumption DEF IngresAssumption
<1>5. Linked'
  <2> SUFFICES ASSUME NEW l \in 1 .. Len(calls')
               PROVE  calls'[l].own \/ ~calls'[l].connected \/ kept' = "open"
    BY DEF Linked
  <2>1. l \in 1 .. Len(calls) /\ calls'[l] = calls[l] BY <1>1, <1>2
  <2> QED BY <2>1 DEF Linked
<1>6. ASSUME NEW x \in left, x[2] # Top
      PROVE  /\ x \in {"connection", "transaction", "statement"} \X (Gone .. Depth)
             /\ \/ x[2] \in 1 .. Len(calls') /\ calls'[x[2]].own
                \/ x[2] = 0 /\ kept = "open"
                \/ x[2] = Gone /\ <<"connection", Gone>> \in left
  BY <1>3, <1>6 DEF Leftover
<1>7. <<"connection", Gone>>[2] # Top BY <1>1 DEF Gone
<1>8. CASE ~call.own /\ left' = left
  <2>1. \A x \in left : x[2] # Top BY <1>1, <1>8 DEF Leftover, call, Gone
  <2> QED BY <1>5, <1>6, <1>8, <2>1 DEF Leftover
<1>9. CASE ~call.own /\ call.connected /\ left' = left \cup {<<"transaction", 0>>}
  <2>1. \A x \in left : x[2] # Top BY <1>1, <1>9 DEF Leftover, call, Gone
  <2>2. kept = "open" BY <1>1, <1>9 DEF Linked, call
  <2>3. 0 \in Gone .. Depth BY <1>4 DEF Gone
  <2>4. <<"transaction", 0>> \in {"connection", "transaction", "statement"} \X (Gone .. Depth)
     BY <2>3
  <2> QED BY <1>5, <1>6, <1>9, <2>1, <2>2, <2>4 DEF Leftover
<1>10. CASE left' = Without(Top)
  <2>1. \A x \in left' : x \in left /\ x[2] # Top BY <1>10 DEF Without
  <2>2. <<"connection", Gone>> \in left => <<"connection", Gone>> \in left'
     BY <1>7, <1>10 DEF Without
  <2> QED BY <1>5, <1>6, <2>1, <2>2 DEF Leftover
<1>11. CASE left' = Orphaned(Top)
  <2>1. ASSUME NEW x \in left'
        PROVE  \/ x \in left /\ x[2] # Top
               \/ \E y \in left : x = <<y[1], Gone>>
               \/ x = <<"connection", Gone>>
    BY <1>11, <2>1, Zenon DEF Orphaned, Without
  <2>2. <<"connection", Gone>> \in left' BY <1>11 DEF Orphaned
  <2>3. Gone \in Gone .. Depth BY <1>4 DEF Gone
  <2>4. ASSUME NEW y \in left
        PROVE  <<y[1], Gone>> \in {"connection", "transaction", "statement"} \X (Gone .. Depth)
    <3>1. y \in {"connection", "transaction", "statement"} \X (Gone .. Depth)
       BY DEF Leftover
    <3> QED BY <2>3, <3>1
  <2>5. ASSUME NEW x \in left'
        PROVE  /\ x \in {"connection", "transaction", "statement"} \X (Gone .. Depth)
               /\ \/ x[2] \in 1 .. Len(calls') /\ calls'[x[2]].own
                  \/ x[2] = 0 /\ kept' = "open"
                  \/ x[2] = Gone /\ <<"connection", Gone>> \in left'
    <3>1. CASE x \in left /\ x[2] # Top BY <1>6, <2>2, <3>1
    <3>2. CASE \E y \in left : x = <<y[1], Gone>>
      <4>1. PICK y \in left : x = <<y[1], Gone>> BY <3>2
      <4> QED BY <2>2, <2>4, <4>1
    <3>3. CASE x = <<"connection", Gone>> BY <2>2, <2>3, <3>3
    <3> QED BY <2>1, <3>1, <3>2, <3>3
  <2> QED BY <1>5, <2>5 DEF Leftover
<1> QED BY <1>8, <1>9, <1>10, <1>11

\* The connection of sdb_open is opened and closed.
LEMMA LeftWithKept ==
    ASSUME IInv, Leftover, Linked, Open \/ Close
    PROVE  Leftover' /\ Linked'
<1>1. calls = <<>> /\ calls' = calls /\ Len(calls) = 0 BY DEF Open, Close
<1>2. Linked' BY <1>1 DEF Linked
<1>3. Depth \in Nat BY IngresAssumption DEF IngresAssumption
<1>4. ASSUME NEW x \in left
      PROVE  /\ x \in {"connection", "transaction", "statement"} \X (Gone .. Depth)
             /\ \/ x[2] = 0 /\ kept = "open"
                \/ x[2] = Gone /\ <<"connection", Gone>> \in left
  BY <1>1 DEF Leftover
<1>5. CASE Open BY <1>2, <1>4, <1>5 DEF Open, Leftover
<1>6. CASE Close
  <2>1. \A x \in Without(0) : x \in left /\ x[2] = Gone BY <1>4 DEF Without
  <2>2. <<"connection", Gone>> \in left => <<"connection", Gone>> \in Without(0)
     BY DEF Without, Gone
  <2>3. CASE left' = Without(0)
    <3>1. ASSUME NEW x \in left'
          PROVE  /\ x \in {"connection", "transaction", "statement"} \X (Gone .. Depth)
                 /\ x[2] = Gone /\ <<"connection", Gone>> \in left
      <4>1. x \in left /\ x[2] = Gone BY <2>1, <2>3, <3>1
      <4>2. Gone # 0 BY DEF Gone
      <4> QED BY <1>4, <4>1, <4>2
    <3> QED BY <1>2, <2>2, <2>3, <3>1 DEF Leftover
  <2>4. CASE left' = Orphaned(0)
    <3>1. <<"connection", Gone>> \in left' BY <2>4 DEF Orphaned
    <3>2. ASSUME NEW x \in left'
          PROVE  /\ x \in {"connection", "transaction", "statement"} \X (Gone .. Depth)
                 /\ x[2] = Gone
      <4>1. \/ x \in Without(0)
            \/ \E y \in left : x = <<y[1], Gone>>
            \/ x = <<"connection", Gone>>
         BY <2>4, <3>2, Zenon DEF Orphaned
      <4>2. Gone \in Gone .. Depth BY <1>3 DEF Gone
      <4>3. CASE x \in Without(0) BY <1>4, <2>1, <4>3
      <4>4. CASE \E y \in left : x = <<y[1], Gone>>
        <5>1. PICK y \in left : x = <<y[1], Gone>> BY <4>4
        <5>2. y \in {"connection", "transaction", "statement"} \X (Gone .. Depth) BY <1>4
        <5> QED BY <4>2, <5>1, <5>2
      <4>5. CASE x = <<"connection", Gone>> BY <4>2, <4>5
      <4> QED BY <4>1, <4>3, <4>4, <4>5
    <3> QED BY <1>2, <3>1, <3>2 DEF Leftover
  <2> QED BY <1>6, <2>3, <2>4 DEF Close
<1> QED BY <1>5, <1>6

\* A query begins on a connection of its own, or on that of sdb_open.
LEMMA LeftWithCall ==
    ASSUME IInv, Leftover, Linked, NEW q \in Queries, NEW byId \in BOOLEAN, Call(q, byId)
    PROVE  Leftover' /\ Linked'
<1>1. /\ Len(calls) \in Nat /\ calls \in Seq(Calls) BY DEF IInv, Layered
<1>2. PICK c : calls' = Append(calls, c) /\ (c.own \/ ~c.connected \/ kept = "open")
  <2> DEFINE own == ~byId \/ kept = "empty"
             c == [q |-> q, own |-> own, at |-> IF own THEN "connect" ELSE "query",
                   connected |-> ~own /\ kept = "open", buffer |-> Junk, cols |-> <<>>,
                   next |-> Start, delivered |-> <<>>, row |-> 0, failed |-> {}]
  <2>1. calls' = Append(calls, c) BY DEF Call
  <2>2. c.connected => kept = "open" BY Zenon
  <2> QED BY <2>1, <2>2, Zenon
<1>3. /\ Len(calls') = Len(calls) + 1 /\ calls'[Len(calls) + 1] = c
      /\ \A l \in 1 .. Len(calls) : calls'[l] = calls[l]
   BY <1>1, <1>2
<1>4. kept' = kept /\ left' = left BY DEF Call
<1>5. \A l \in 1 .. Len(calls) : l \in 1 .. Len(calls') BY <1>1, <1>3
<1>6. Leftover' BY <1>3, <1>4, <1>5 DEF Leftover
<1>7. Linked'
  <2>1. \A l \in 1 .. Len(calls') : l \in 1 .. Len(calls) \/ l = Len(calls) + 1 BY <1>1, <1>3
  <2> QED BY <1>2, <1>3, <1>4, <2>1 DEF Linked
<1> QED BY <1>6, <1>7

\* Every other step of a query.
LEMMA LeftWithStep ==
    ASSUME IInv, Leftover, Linked,
           \/ Connect \/ Query \/ QueryFails \/ Describe \/ DescribeFails
           \/ Fetch \/ FetchEnds \/ CallbackReturns
           \/ CloseStatement \/ Commit \/ Disconnect
    PROVE  Leftover' /\ Linked'
<1>1. calls # <<>> /\ kept' = kept
   BY DEF Connect, Query, QueryFails, Describe, DescribeFails, Fetch, FetchEnds,
          CallbackReturns, CloseStatement, Commit, Disconnect, At
<1>2. call \in Calls /\ Good(call) BY <1>1, TopGood
<1>3. ASSUME NEW c, Changed(c), c \in Calls, c.own = call.own,
             c.own \/ c.connected = call.connected,
             \/ left' = left
             \/ \E kind \in {"transaction", "statement"} :
                   /\ call.connected
                   /\ left' = left \cup {<<kind, IF call.own THEN Top ELSE 0>>}
      PROVE  Leftover' /\ Linked'
  <2>1. calls' = [calls EXCEPT ![Top] = c] BY <1>3 DEF Changed
  <2>2. left \subseteq left' BY <1>3
  <2>3. \A x \in left' :
           \/ x \in left
           \/ /\ call.connected
              /\ \E kind \in {"transaction", "statement"} :
                    x = <<kind, IF call.own THEN Top ELSE 0>>
     BY <1>3
  <2> QED BY <1>1, <1>3, <2>1, <2>2, <2>3, LeftKept
<1>4. ASSUME NEW step \in Steps, Goto(step) \/ \E f : Failed(f, step),
             \/ left' = left
             \/ \E kind \in {"transaction", "statement"} :
                   /\ call.connected
                   /\ left' = left \cup {<<kind, IF call.own THEN Top ELSE 0>>}
      PROVE  Leftover' /\ Linked'
  <2>1. CASE Goto(step)
    <3> DEFINE c == [call EXCEPT !.at = step]
    <3>1. c \in Calls /\ c.own = call.own /\ c.connected = call.connected BY <1>2 DEF Calls
    <3>2. Changed(c) BY <2>1 DEF Goto
    <3> HIDE DEF c
    <3> QED BY <1>3, <1>4, <3>1, <3>2
  <2>2. CASE \E f : Failed(f, step)
    <3>1. PICK f : Failed(f, step) BY <2>2
    <3> DEFINE c == [call EXCEPT !.at = step, !.failed = call.failed \cup {f}]
    <3>2. call.failed \cup {f} \in SUBSET Faults BY <1>2, <3>1 DEF Failed, MayFail, Calls
    <3>3. c \in Calls /\ c.own = call.own /\ c.connected = call.connected
       BY <1>2, <3>2 DEF Calls
    <3>4. Changed(c) BY <3>1 DEF Failed
    <3> HIDE DEF c
    <3> QED BY <1>3, <1>4, <3>3, <3>4
  <2> QED BY <1>4, <2>1, <2>2
<1>5. CASE Connect
  <2>1. left' = left BY <1>5 DEF Connect
  <2>2. CASE Changed([call EXCEPT !.at = "query", !.connected = TRUE])
    <3> DEFINE c == [call EXCEPT !.at = "query", !.connected = TRUE]
    <3>1. c \in Calls /\ c.own = call.own BY <1>2 DEF Calls, Steps
    <3>2. call.own BY <1>2, <1>5 DEF Connect, At, Good, Placed
    <3> HIDE DEF c
    <3> QED BY <1>3, <2>1, <2>2, <3>1, <3>2 DEF c
  <2>3. CASE Failed("connect", "query") BY <1>4, <2>1, <2>3 DEF Steps
  <2> QED BY <1>5, <2>2, <2>3 DEF Connect
<1>6. CASE Query BY <1>4, <1>6 DEF Query, Steps
<1>7. CASE QueryFails BY <1>4, <1>7 DEF QueryFails, Steps
<1>8. CASE Describe BY <1>4, <1>8 DEF Describe, Steps
<1>9. CASE DescribeFails BY <1>4, <1>9 DEF DescribeFails, Steps
<1>10. CASE Fetch
  <2> DEFINE q == call.q
             value == Rows[q][call.next.row][call.next.col]
             arrived == IF value = NULL THEN call.buffer ELSE value
             cols == Append(call.cols, Converted(Columns[q][Len(call.cols) + 1], arrived))
  <2>1. calls' \in Seq(Calls)
    <3>1. IInv' BY <1>10, FetchStep
    <3> QED BY <3>1 DEF IInv, Layered
  <2>2. PICK c : /\ Changed(c) /\ c.own = call.own /\ c.connected = call.connected
    <3>1. Column(arrived, cols) BY <1>10 DEF Fetch
    <3> HIDE DEF arrived, cols
    <3>2. CASE Len(cols) < Len(Columns[q])
      <4> DEFINE d == [call EXCEPT !.next = After(call.q, @), !.buffer = arrived, !.cols = cols]
      <4>1. Changed(d) BY <3>1, <3>2 DEF Column
      <4>2. d.own = call.own /\ d.connected = call.connected BY <1>2 DEF Calls
      <4> QED BY <4>1, <4>2
    <3>3. CASE ~(Len(cols) < Len(Columns[q]))
      <4> DEFINE d == [call EXCEPT !.next = After(call.q, @), !.buffer = arrived, !.cols = <<>>,
                                   !.delivered = Append(@, cols), !.at = "callback"]
      <4>1. Changed(d) BY <3>1, <3>3 DEF Column
      <4>2. d.own = call.own /\ d.connected = call.connected BY <1>2 DEF Calls
      <4> QED BY <4>1, <4>2
    <3> QED BY <3>2, <3>3
  <2>3. c \in Calls
    <3>1. Top \in 1 .. Len(calls) /\ calls \in Seq(Calls) BY <1>1 DEF IInv, Layered, Top
    <3>2. calls' = [calls EXCEPT ![Top] = c] BY <2>2 DEF Changed
    <3>3. Len(calls') = Len(calls) /\ calls'[Top] = c BY <3>1, <3>2
    <3> QED BY <2>1, <3>1, <3>3
  <2>4. left' = left BY <1>10 DEF Fetch
  <2> QED BY <1>3, <2>2, <2>3, <2>4
<1>11. CASE FetchEnds BY <1>4, <1>11 DEF FetchEnds, Steps
<1>12. CASE CallbackReturns
  <2> DEFINE c == [call EXCEPT !.at = "fetch", !.row = call.row + 1]
  <2>1. Changed(c) /\ left' = left BY <1>12 DEF CallbackReturns
  <2>2. call.row + 1 \in Nat BY <1>2 DEF Calls
  <2>3. c \in Calls /\ c.own = call.own /\ c.connected = call.connected
     BY <1>2, <2>2 DEF Calls, Steps
  <2> HIDE DEF c
  <2> QED BY <1>3, <2>1, <2>3
<1>13. CASE CloseStatement
  <2>1. Goto("commit") /\ "commit" \in Steps BY <1>13 DEF CloseStatement, Steps
  <2>2. \/ left' = left
        \/ \E kind \in {"transaction", "statement"} :
              /\ call.connected
              /\ left' = left \cup {<<kind, IF call.own THEN Top ELSE 0>>}
     BY <1>13 DEF CloseStatement, Refused
  <2> QED BY <1>4, <2>1, <2>2
<1>14. CASE Commit
  <2>1. \/ left' = left
        \/ call.connected /\ left' = left \cup {<<"transaction", IF call.own THEN Top ELSE 0>>}
     BY <1>14 DEF Commit, Refused
  <2>2. CASE call.own
    <3>1. Goto("disconnect") /\ "disconnect" \in Steps BY <1>14, <2>2 DEF Commit, Steps
    <3> QED BY <1>4, <2>1, <3>1
  <2>3. CASE ~call.own
    <3>1. Returned BY <1>14, <2>3 DEF Commit
    <3>2. left' = left \/ (call.connected /\ left' = left \cup {<<"transaction", 0>>})
       BY <2>1, <2>3
    <3> QED BY <1>1, <2>3, <3>1, <3>2, LeftReturn
  <2> QED BY <2>2, <2>3
<1>15. CASE Disconnect BY <1>1, <1>15, LeftReturn DEF Disconnect
<1> QED
  BY <1>5, <1>6, <1>7, <1>8, <1>9, <1>10, <1>11, <1>12, <1>13, <1>14, <1>15

\* The invariant holds of every run.
LEMMA IngresSafe == Spec => [](IInv /\ Leftover /\ Linked)
<1>1. Init => IInv /\ Leftover /\ Linked
  <2> SUFFICES ASSUME Init PROVE IInv /\ Leftover /\ Linked
    OBVIOUS
  <2>1. calls \in Seq(Calls) /\ Len(calls) = 0 BY DEF Init
  <2>2. Layered BY <2>1, IngresAssumption DEF IngresAssumption, Layered
  <2> QED BY <2>1, <2>2 DEF Init, IInv, Owned, Leftover, Linked
<1>2. IInv /\ Leftover /\ Linked /\ [Next]_vars => (IInv /\ Leftover /\ Linked)'
  <2> SUFFICES ASSUME IInv, Leftover, Linked, [Next]_vars PROVE IInv' /\ Leftover' /\ Linked'
    OBVIOUS
  <2>1. CASE UNCHANGED vars BY <2>1 DEF vars, IInv, Layered, Owned, Leftover, Linked
  <2>2. CASE Next
    <3>1. IInv'
      BY <2>2, KeptStep, CallStep, OpeningStep, FetchStep, CallbackStep, ClosingStep DEF Next
    <3>2. Leftover' /\ Linked' BY <2>2, LeftWithKept, LeftWithCall, LeftWithStep DEF Next
    <3> QED BY <3>1, <3>2
  <2> QED BY <2>1, <2>2
<1> QED BY <1>1, <1>2, PTL DEF Spec

---------------------------------------------------------------------------
(* The properties *)

\* Levels, columns and places of every query stay within their bounds, and what the
\* database keeps belongs to a level (ingres_driver.c:290-345).
THEOREM TypeOKAlways == Spec => []TypeOK
<1>1. IInv /\ Leftover => TypeOK
  <2> SUFFICES ASSUME IInv, Leftover PROVE TypeOK
    OBVIOUS
  <2>1. calls \in Seq(Calls) /\ Len(calls) \in Nat /\ DOMAIN calls = 1 .. Len(calls)
     BY DEF IInv, Layered
  <2>2. ASSUME NEW l \in 1 .. Len(calls)
        PROVE  /\ l < Len(calls) => calls[l].at = "callback"
               /\ Len(calls[l].cols) <= Len(Columns[calls[l].q])
               /\ calls[l].at = "fetch" => Len(calls[l].cols) < Len(Columns[calls[l].q])
               /\ \/ calls[l].next = Start
                  \/ /\ calls[l].next.row <= Len(Rows[calls[l].q]) + 1
                     /\ calls[l].next.col <= Len(Columns[calls[l].q])
    <3>1. Placed(calls[l]) /\ (l < Len(calls) => calls[l].at = "callback")
       BY DEF IInv, Layered, Good
    <3> QED BY <3>1 DEF Placed
  <2>3. ASSUME NEW x \in held
        PROVE  x \in {"connection", "transaction", "statement"} \X (0 .. Depth)
    <3>1. Depth \in Nat BY IngresAssumption DEF IngresAssumption
    <3>2. CASE x = <<"connection", 0>> BY <3>1, <3>2
    <3>3. CASE \E l \in 1 .. Len(calls) : Mine(x, l, calls[l])
      <4>1. PICK l \in 1 .. Len(calls) : Mine(x, l, calls[l]) BY <3>3
      <4>2. l \in 0 .. Depth BY <2>1, <3>1 DEF IInv, Layered
      <4> QED BY <4>1, <4>2 DEF Mine
    <3> QED BY <3>2, <3>3 DEF IInv, Owned
  <2>4. left \subseteq {"connection", "transaction", "statement"} \X (Gone .. Depth)
     BY DEF Leftover
  <2> QED BY <2>1, <2>2, <2>3, <2>4 DEF TypeOK, IInv, Layered
<1> QED BY <1>1, IngresSafe, PTL

\* The rows passed on are those of the query, in order and with all their columns,
\* although single columns are counted and callbacks make queries meanwhile; the values
\* are its own where they are not null and of a type that is passed on as it is
\* (ingres_driver.c:316-341).
THEOREM RowsAreOwnAlways == Spec => []RowsAreOwn
<1>1. IInv => RowsAreOwn
  <2> SUFFICES ASSUME IInv, NEW l \in DOMAIN calls, Short(calls[l].q)
               PROVE  LET c    == calls[l]
                          rows == Rows[c.q]
                      IN  /\ Len(c.delivered) <= Len(rows)
                          /\ \A i \in DOMAIN c.delivered :
                                /\ Len(c.delivered[i]) = Len(rows[i])
                                /\ \A k \in DOMAIN rows[i] :
                                      rows[i][k] # NULL /\ Plain(Columns[c.q][k]) =>
                                         c.delivered[i][k] = rows[i][k]
                          /\ c.row = Len(c.delivered) - (IF c.at = "callback" THEN 1 ELSE 0)
                          /\ c.at = "close" /\ c.failed = {} /\ c.connected =>
                                Len(c.delivered) = Len(rows)
    BY DEF RowsAreOwn
  <2> DEFINE c == calls[l]
             q == c.q
  <2>1. c \in Calls /\ Good(c) BY DEF IInv, Layered
  <2>2. /\ q \in Queries /\ c.delivered \in Seq(Seq(Values)) /\ Len(c.delivered) \in Nat
        /\ DOMAIN c.delivered = 1 .. Len(c.delivered) /\ c.next.row \in Nat
     BY <2>1 DEF Calls, Places
  <2>3. /\ Len(c.delivered) = c.next.row - 1 /\ c.next.row <= Len(Rows[q]) + 1
        /\ c.row = Len(c.delivered) - (IF c.at = "callback" THEN 1 ELSE 0)
        /\ c.at = "close" /\ c.failed = {} /\ c.connected => Len(c.delivered) = Len(Rows[q])
        /\ \A i \in 1 .. Len(c.delivered) :
              Len(c.delivered[i]) = Len(Columns[q]) /\ Agrees(q, i, c.delivered[i])
     BY <2>1 DEF Good, Placed, Faithful
  <2>4. /\ Len(Rows[q]) \in Nat
        /\ \A i \in 1 .. Len(Rows[q]) :
              DOMAIN Rows[q][i] = 1 .. Len(Columns[q]) /\ Len(Rows[q][i]) = Len(Columns[q])
     BY <2>2, RowValues
  <2>5. Len(c.delivered) <= Len(Rows[q]) BY <2>2, <2>3, <2>4, SMTT(30)
  <2> HIDE DEF q, c
  <2>6. ASSUME NEW i \in DOMAIN c.delivered
        PROVE  /\ Len(c.delivered[i]) = Len(Rows[q][i])
               /\ \A k \in DOMAIN Rows[q][i] :
                     Rows[q][i][k] # NULL /\ Plain(Columns[q][k]) =>
                        c.delivered[i][k] = Rows[q][i][k]
    <3>1. i \in 1 .. Len(Rows[q]) /\ i \in 1 .. Len(c.delivered) BY <2>2, <2>4, <2>5
    <3>2. /\ Len(c.delivered[i]) = Len(Columns[q]) /\ Agrees(q, i, c.delivered[i])
          /\ DOMAIN Rows[q][i] = 1 .. Len(Columns[q]) /\ Len(Rows[q][i]) = Len(Columns[q])
       BY <2>3, <2>4, <3>1
    <3>3. \A type, v : Plain(type) => Converted(type, v) = v BY DEF Plain, Converted
    <3> QED BY <3>2, <3>3, Zenon DEF Agrees
  <2> QED BY <2>3, <2>5, <2>6, Zenon DEF c, q
<1> QED BY <1>1, IngresSafe, PTL

\* A query that has returned leaves nothing open but what the database has refused to
\* release, and what it has refused is on a connection that is open or was left behind
\* with it (ingres_driver.c:345-362).
THEOREM NothingLeftOpenAlways == Spec => []NothingLeftOpen
<1>1. IInv /\ Leftover => NothingLeftOpen
  <2> SUFFICES ASSUME IInv, Leftover
               PROVE  /\ \A x \in held : \/ x[2] \in DOMAIN calls
                                         \/ x = <<"connection", 0>> /\ kept = "open"
                      /\ \A x \in left : \/ x[2] \in DOMAIN calls /\ calls[x[2]].own
                                         \/ x[2] = 0 /\ kept = "open"
                                         \/ x[2] = Gone /\ <<"connection", Gone>> \in left
    BY DEF NothingLeftOpen
  <2>1. DOMAIN calls = 1 .. Len(calls) BY DEF IInv, Layered
  <2>2. ASSUME NEW x \in held, NEW l \in 1 .. Len(calls), Mine(x, l, calls[l])
        PROVE  x[2] \in DOMAIN calls
    BY <2>1, <2>2 DEF Mine
  <2> QED BY <2>1, <2>2 DEF IInv, Owned, Leftover
<1> QED BY <1>1, IngresSafe, PTL
=============================================================================
