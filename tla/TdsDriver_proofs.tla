-------------------------- MODULE TdsDriver_proofs --------------------------
(***************************************************************************)
(* Proofs about the tds driver, for any queries, results and values, and   *)
(* whichever the server refuses or breaks off.                             *)
(***************************************************************************)
EXTENDS TdsDriver, TLAPS

\* Sent and LastWithRows, of any call.
SentOf(c, j) ==
    IF j = c.result /\ (c.at = "row" \/ c.failed = "rows") THEN c.next - 1
    ELSE IF j = c.result /\ c.at = "free" THEN c.next
    ELSE Len(Results[c.q][j])

LastOf(c, j) ==
    /\ Results[c.q][j] # <<>>
    /\ \A k \in 1 .. c.result : k > j => Results[c.q][k] = <<>>

\* What the callback is given for the row i of the result j.
Same(q, j, i, s) ==
    /\ Len(s) = Len(Results[q][j][i])
    /\ \A k \in DOMAIN Results[q][j][i] :
          Results[q][j][i][k] \notin NoText => s[k] = Results[q][j][i][k]

\* The place in the results, and the array for the result there.
Placed(c) ==
    /\ c.result <= Len(Results[c.q])
    /\ c.at \in {"open", "submit"} => c.result = 0 /\ c.rows = -1 /\ c.failed = "nothing"
    /\ c.at \in {"row", "free"} =>
          /\ c.failed = "nothing"
          /\ c.result > 0 /\ Results[c.q][c.result] # <<>>
          /\ c.next >= 1 /\ c.next <= Len(Results[c.q][c.result]) + 1
          /\ c.at = "free" => c.next <= Len(Results[c.q][c.result])
          /\ Len(c.p) = Len(Results[c.q][c.result][1])
    /\ c.rows >= -1

Told(c, d) ==
    /\ Len(d) = c.result
    /\ \A j \in 1 .. c.result :
          /\ Len(d[j]) = SentOf(c, j)
          /\ \A i \in 1 .. SentOf(c, j) : Same(c.q, j, i, d[j][i])

Counted(c) ==
    /\ \A j \in 1 .. c.result : LastOf(c, j) => c.rows = SentOf(c, j)
    /\ (\A j \in 1 .. c.result : Results[c.q][j] = <<>>) => c.rows = -1

\* A query that could not be started has no results, and one without failures has all
\* of them at its end.
Ended(c) ==
    /\ c.failed = "start" => c.result = 0
    /\ c.at = "close" /\ c.failed = "nothing" => c.result = Len(Results[c.q])

Good(c, d) == Placed(c) /\ Told(c, d) /\ Counted(c) /\ Ended(c)

\* The kept connection, and that of a query of its own.
Linked ==
    /\ "kept" \in sockets <=> kept = "open"
    /\ "own" \in sockets => call # NULL /\ call.own /\ call.at # "open"
    /\ call # NULL =>
          /\ call.own /\ call.at \in {"submit", "tokens", "row", "free"} => "own" \in sockets
          /\ ~call.own => kept = "open" /\ call.at # "open"

IInv ==
    /\ kept \in {"none", "failed", "open"}
    /\ call \in Calls \cup {NULL}
    /\ delivered \in Seq(Seq(Seq(Cells)))
    /\ sockets \subseteq {"kept", "own"}
    /\ ended \in {NULL, "exit", "crash"}
    /\ Linked
    /\ call # NULL => Good(call, delivered)

---------------------------------------------------------------------------
(* The data *)

\* Results are sequences of rows with the same columns.
LEMMA ResultRows ==
    ASSUME NEW q \in Queries
    PROVE  /\ Len(Results[q]) \in Nat
           /\ \A j \in 1 .. Len(Results[q]) :
                 /\ Len(Results[q][j]) \in Nat
                 /\ Results[q][j] = <<>> <=> Len(Results[q][j]) = 0
                 /\ \A i \in 1 .. Len(Results[q][j]) :
                       /\ Results[q][j][i] \in Seq(Values \cup {NULL})
                       /\ Len(Results[q][j][i]) = Len(Results[q][j][1])
<1>1. /\ Results[q] \in Seq(Seq(Seq(Values \cup {NULL})))
      /\ \A j \in DOMAIN Results[q] : \A i \in DOMAIN Results[q][j] :
            Len(Results[q][j][i]) = Len(Results[q][j][1])
   BY TdsAssumption, Zenon DEF TdsAssumption
<1>2. \A T, t : t \in Seq(T) =>
         /\ Len(t) \in Nat /\ DOMAIN t = 1 .. Len(t) /\ (t = <<>> <=> Len(t) = 0)
         /\ \A i \in 1 .. Len(t) : t[i] \in T
   OBVIOUS
<1>3. /\ Len(Results[q]) \in Nat /\ DOMAIN Results[q] = 1 .. Len(Results[q])
      /\ \A j \in 1 .. Len(Results[q]) : Results[q][j] \in Seq(Seq(Values \cup {NULL}))
   BY <1>1, <1>2, Zenon
<1>4. ASSUME NEW j \in 1 .. Len(Results[q])
      PROVE  /\ Len(Results[q][j]) \in Nat
             /\ Results[q][j] = <<>> <=> Len(Results[q][j]) = 0
             /\ \A i \in 1 .. Len(Results[q][j]) :
                   /\ Results[q][j][i] \in Seq(Values \cup {NULL})
                   /\ Len(Results[q][j][i]) = Len(Results[q][j][1])
  <2>1. Results[q][j] \in Seq(Seq(Values \cup {NULL})) BY <1>3, Zenon
  <2>2. /\ Len(Results[q][j]) \in Nat /\ DOMAIN Results[q][j] = 1 .. Len(Results[q][j])
        /\ (Results[q][j] = <<>> <=> Len(Results[q][j]) = 0)
        /\ \A i \in 1 .. Len(Results[q][j]) : Results[q][j][i] \in Seq(Values \cup {NULL})
     BY <1>2, <2>1, Zenon
  <2> QED BY <1>1, <1>3, <2>2, Zenon
<1> QED BY <1>3, <1>4

\* The fields of a call.
LEMMA CallFields ==
    ASSUME NEW c \in Calls
    PROVE  /\ c # NULL /\ c.q \in Queries /\ c.own \in BOOLEAN
           /\ c.at \in {"open", "submit", "tokens", "row", "free", "close"}
           /\ c.result \in Nat /\ c.next \in Nat /\ c.p \in Seq(Cells) /\ c.rows \in Int
           /\ c.failed \in {"nothing", "start", "rows", "results"}
<1>1. c # NULL BY TdsAssumption DEF TdsAssumption
<1> QED BY <1>1 DEF Calls, Failures

\* One that only says how far the query is, in a result whose rows are all sent,
\* keeps what has been told.
LEMMA KeepsTold ==
    ASSUME NEW c, NEW e, NEW d, Told(c, d), Counted(c),
           e.q = c.q, e.result = c.result, e.rows = c.rows,
           \A j \in 1 .. c.result : SentOf(e, j) = SentOf(c, j)
    PROVE  Told(e, d) /\ Counted(e)
<1>1. Told(e, d) BY DEF Told
<1>2. \A j \in 1 .. c.result : LastOf(e, j) <=> LastOf(c, j) BY DEF LastOf
<1>3. Counted(e) BY <1>2 DEF Counted
<1> QED BY <1>1, <1>3

---------------------------------------------------------------------------
(* Steps *)

\* Connections are opened and closed between queries, and a url with something
\* missing ends the process.
LEMMA ConnectionStep ==
    ASSUME IInv, MissingParameter \/ Open \/ Close
    PROVE  IInv'
<1>1. call' = call /\ delivered' = delivered BY DEF MissingParameter, Open, Close
<1>2. CASE MissingParameter BY <1>2 DEF MissingParameter, IInv, Linked
<1>3. CASE Open \/ Close
  <2>1. call = NULL BY <1>3 DEF Open, Close, Idle
  <2>2. Linked' BY <1>1, <1>3, <2>1 DEF Open, Close, IInv, Linked
  <2> QED BY <1>1, <1>3, <2>1, <2>2 DEF Open, Close, IInv
<1> QED BY <1>2, <1>3

\* A query begins, with no result so far.
LEMMA CallStep ==
    ASSUME IInv, NEW q \in Queries, NEW byId \in BOOLEAN, Call(q, byId)
    PROVE  IInv'
<1> DEFINE own == Own(byId)
           r == [q |-> q, own |-> own, at |-> IF own THEN "open" ELSE "submit",
                 result |-> 0, next |-> 0, p |-> <<>>, rows |-> -1, failed |-> "nothing"]
<1>1. /\ call = NULL /\ call' = r /\ delivered' = <<>>
      /\ kept' = kept /\ sockets' = sockets /\ ended' = ended
      /\ byId => kept # "none"
   BY DEF Call, Idle
<1>2. own \in BOOLEAN BY DEF Own
<1> HIDE DEF own
<1>3. r \in Calls
  <2>1. <<>> \in Seq(Cells) /\ -1 \in Int /\ 0 \in Nat OBVIOUS
  <2>2. \A at \in {"open", "submit"}, t \in Seq(Cells), n \in Int, k \in Nat :
           [q |-> q, own |-> own, at |-> at, result |-> k, next |-> k, p |-> t, rows |-> n,
            failed |-> "nothing"] \in Calls
     BY <1>2 DEF Calls, Failures
  <2> QED BY <2>1, <2>2, Zenon
<1>4. r # NULL BY <1>3, CallFields
<1>5. /\ r.q = q /\ r.own = own /\ r.at = (IF own THEN "open" ELSE "submit")
      /\ r.result = 0 /\ r.rows = -1 /\ r.failed = "nothing"
   OBVIOUS
<1> HIDE DEF r
<1>6. Good(r, <<>>)
  <2>1. Len(Results[q]) \in Nat BY ResultRows
  <2>2. Placed(r) BY <1>5, <2>1 DEF Placed
  <2>3. Told(r, <<>>) BY <1>5 DEF Told
  <2>4. Counted(r) /\ Ended(r) BY <1>5 DEF Counted, Ended
  <2> QED BY <2>2, <2>3, <2>4 DEF Good
<1>7. ~own => kept = "open" BY <1>1 DEF own, Own, IInv
<1>8. Linked' BY <1>1, <1>5, <1>7 DEF IInv, Linked
<1>9. delivered' \in Seq(Seq(Seq(Cells))) BY <1>1
<1> QED BY <1>1, <1>3, <1>6, <1>8, <1>9 DEF IInv

\* Steps from one part of the driver to the next.
LEMMA GotoStep ==
    ASSUME IInv, OpenOwn \/ Submit \/ ResultEnds \/ RowsFail \/ ResultsFail \/ TokensEnd
    PROVE  IInv'
<1> USE DEF OpenOwn, Submit, ResultEnds, RowsFail, ResultsFail, TokensEnd, At
<1>1. PICK at \in {"submit", "tokens", "close"}, failed \in Failures :
         /\ call' = [call EXCEPT !.at = at, !.failed = failed]
         /\ \/ call.at = "open" /\ at = "submit" /\ failed = call.failed
            \/ call.at \in {"open", "submit"} /\ at = "close" /\ failed = "start"
            \/ call.at = "submit" /\ at = "tokens" /\ failed = call.failed
            \/ /\ call.at = "row" /\ at = "tokens" /\ failed = call.failed
               /\ call.next > Len(Results[call.q][call.result])
            \/ call.at = "row" /\ at = "tokens" /\ failed = "rows"
            \/ call.at = "tokens" /\ call.failed = "nothing" /\ at = "close" /\ failed = "results"
            \/ /\ call.at = "tokens" /\ at = "close" /\ failed = call.failed
               /\ call.failed = "nothing" => call.result = Len(Results[call.q])
  <2>1. call \in Calls /\ call.failed \in Failures BY CallFields DEF IInv, Failures
  <2>2. \A at : [call EXCEPT !.at = at] = [call EXCEPT !.at = at, !.failed = call.failed]
     BY <2>1 DEF Calls
  <2>3. \A at, failed : [call EXCEPT !.failed = failed, !.at = at]
                          = [call EXCEPT !.at = at, !.failed = failed]
     BY <2>1 DEF Calls
  <2>4. {"start", "rows", "results"} \subseteq Failures BY DEF Failures
  <2>5. CASE OpenOwn BY <2>1, <2>2, <2>3, <2>4, <2>5 DEF Goto, Fail
  <2>6. CASE Submit BY <2>1, <2>2, <2>3, <2>4, <2>6 DEF Goto, Fail
  <2>7. CASE ResultEnds BY <2>1, <2>2, <2>7 DEF Goto
  <2>8. CASE RowsFail BY <2>3, <2>4, <2>8 DEF Fail
  <2>9. CASE ResultsFail BY <2>3, <2>4, <2>9 DEF Fail
  <2>10. CASE TokensEnd BY <2>1, <2>2, <2>10 DEF Goto
  <2> QED BY <2>5, <2>6, <2>7, <2>8, <2>9, <2>10
<1>2. /\ call # NULL /\ call.at \in {"open", "submit", "row", "tokens"}
      /\ kept' = kept /\ delivered' = delivered /\ ended' = ended
   OBVIOUS
<1>3. call \in Calls /\ Good(call, delivered) BY <1>2 DEF IInv
<1>4. PICK r : r = [call EXCEPT !.at = at, !.failed = failed] OBVIOUS
<1>5. /\ call' = r /\ r \in Calls
      /\ r.q = call.q /\ r.own = call.own /\ r.at = at /\ r.result = call.result
      /\ r.next = call.next /\ r.p = call.p /\ r.rows = call.rows /\ r.failed = failed
   BY <1>1, <1>3, <1>4 DEF Calls
<1>6. r # NULL BY <1>5, CallFields
<1>7. at = "submit" => call.at = "open" /\ failed = call.failed BY <1>1
<1>8. Placed(r) BY <1>3, <1>5, <1>7 DEF Good, Placed
<1>9. \A j \in 1 .. call.result : SentOf(r, j) = SentOf(call, j)
  <2>1. call.at = "row" /\ failed # "rows" => call.next - 1 = Len(Results[call.q][call.result])
    <3> SUFFICES ASSUME call.at = "row", failed # "rows"
                 PROVE  call.next - 1 = Len(Results[call.q][call.result])
      OBVIOUS
    <3>1. call.next > Len(Results[call.q][call.result]) BY <1>1
    <3>2. /\ call.result > 0 /\ call.result <= Len(Results[call.q])
          /\ call.next <= Len(Results[call.q][call.result]) + 1
       BY <1>3 DEF Good, Placed
    <3>3. call.q \in Queries /\ call.result \in Nat /\ call.next \in Nat
       BY <1>3, CallFields
    <3>4. Len(Results[call.q]) \in Nat BY <3>3, ResultRows
    <3>5. Len(Results[call.q][call.result]) \in Nat BY <3>2, <3>3, <3>4, ResultRows
    <3> QED BY <3>1, <3>2, <3>3, <3>5
  <2>2. call.at \in {"open", "submit"} => call.result = 0 BY <1>3 DEF Good, Placed
  <2> QED BY <1>1, <1>2, <1>5, <2>1, <2>2 DEF SentOf
<1>10. Good(r, delivered)
  <2>1. Told(call, delivered) /\ Counted(call) BY <1>3 DEF Good
  <2>2. Told(r, delivered) /\ Counted(r) BY <1>5, <1>9, <2>1, KeepsTold
  <2>3. Ended(r) BY <1>1, <1>3, <1>5 DEF Good, Ended, Placed
  <2> QED BY <1>8, <2>2, <2>3 DEF Good
<1>11. Linked' /\ sockets' \subseteq {"kept", "own"}
  <2>1. CASE OpenOwn
    <3>1. /\ call.at = "open" /\ call.own
          /\ \/ sockets' = sockets \cup {"own"} /\ call'.at = "submit"
             \/ sockets' = sockets /\ call'.at = "close"
       BY <1>2, <1>3, <2>1 DEF Goto, Fail, IInv, Linked, Calls
    <3> QED BY <1>2, <1>5, <1>6, <1>7, <3>1 DEF IInv, Linked
  <2>2. CASE Submit \/ ResultEnds \/ RowsFail \/ ResultsFail \/ TokensEnd
    <3>1. sockets' = sockets /\ call.at \in {"submit", "row", "tokens"}
       BY <2>2
    <3> QED BY <1>2, <1>5, <1>6, <1>7, <3>1 DEF IInv, Linked
  <2> QED BY <2>1, <2>2
<1> QED BY <1>2, <1>5, <1>10, <1>11 DEF IInv

\* The next result, with rows or without.
LEMMA NextResultStep ==
    ASSUME IInv, NextResult
    PROVE  IInv'
<1>1. /\ call # NULL /\ call.at = "tokens" /\ call.result < Len(Results[call.q])
      /\ call.failed = "nothing"
      /\ delivered' = Append(delivered, <<>>)
      /\ kept' = kept /\ sockets' = sockets /\ ended' = ended
   BY DEF NextResult, At
<1>2. call \in Calls /\ Good(call, delivered) /\ delivered \in Seq(Seq(Seq(Cells)))
   BY <1>1 DEF IInv
<1> DEFINE q == call.q
           n == call.result + 1
           result == Results[q][n]
<1>3. q \in Queries /\ call.result \in Nat /\ n \in 1 .. Len(Results[q]) /\ n \in Nat
   BY <1>1, <1>2, CallFields, ResultRows
<1>4. /\ Len(result) \in Nat /\ (result = <<>> <=> Len(result) = 0)
      /\ \A i \in 1 .. Len(result) :
            result[i] \in Seq(Values \cup {NULL}) /\ Len(result[i]) = Len(result[1])
   BY <1>3, ResultRows, Zenon
<1>5. Told(call, delivered) /\ Counted(call) /\ Placed(call) BY <1>2 DEF Good
<1>6. \A j \in 1 .. n : j \in 1 .. call.result \/ j = n BY <1>3
<1>7. /\ Len(delivered) = call.result /\ Len(delivered') = n /\ delivered'[n] = <<>>
      /\ \A j \in 1 .. call.result : delivered'[j] = delivered[j] /\ j # n
      /\ delivered' \in Seq(Seq(Seq(Cells)))
  <2>1. Len(delivered) = call.result BY <1>5 DEF Told
  <2>2. <<>> \in Seq(Seq(Cells)) OBVIOUS
  <2> QED BY <1>1, <1>2, <1>3, <2>1, <2>2
<1>8. PICK r \in Calls :
         /\ call' = r /\ r.q = q /\ r.own = call.own /\ r.result = n /\ r.failed = "nothing"
         /\ \/ result = <<>> /\ r.at = "tokens" /\ r.rows = call.rows
            \/ /\ result # <<>> /\ r.at = "row" /\ r.rows = 0 /\ r.next = 1
               /\ Len(r.p) = Len(result[1])
  <2>1. CASE result = <<>>
    <3>1. call' = [call EXCEPT !.result = @ + 1] BY <2>1 DEF NextResult
    <3>2. \A k \in Nat :
             LET r == [call EXCEPT !.result = k]
             IN  /\ r \in Calls /\ r.q = q /\ r.own = call.own /\ r.result = k
                 /\ r.at = call.at /\ r.rows = call.rows /\ r.failed = call.failed
       BY <1>2 DEF Calls
    <3>3. call' = [call EXCEPT !.result = n] BY <3>1
    <3> HIDE DEF n, result, q
    <3>4. /\ call' \in Calls /\ call'.q = q /\ call'.own = call.own /\ call'.result = n
          /\ call'.at = "tokens" /\ call'.rows = call.rows /\ call'.failed = "nothing"
       BY <1>1, <1>3, <3>2, <3>3, Zenon
    <3> QED BY <2>1, <3>4
  <2>2. CASE result # <<>>
    <3> DEFINE p == [i \in DOMAIN result[1] |-> Wild]
    <3>1. call' = [call EXCEPT !.result = n, !.at = "row", !.next = 1, !.rows = 0, !.p = p]
       BY <2>2 DEF NextResult
    <3>2. p \in Seq(Cells) /\ Len(p) = Len(result[1])
      <4>1. 1 \in 1 .. Len(result) BY <1>4, <2>2
      <4>2. result[1] \in Seq(Values \cup {NULL}) BY <1>4, <4>1
      <4>3. Len(result[1]) \in Nat /\ DOMAIN result[1] = 1 .. Len(result[1]) BY <4>2, SMTT(30)
      <4>4. p = [i \in 1 .. Len(result[1]) |-> Wild] BY <4>3
      <4>5. \A k \in Nat : [i \in 1 .. k |-> Wild] \in Seq(Cells) /\ Len([i \in 1 .. k |-> Wild]) = k
         BY DEF Cells
      <4> HIDE DEF p, result
      <4> QED BY <4>3, <4>4, <4>5
    <3>3. \A k \in Nat, t \in Seq(Cells), x \in Nat, m \in Int :
             [call EXCEPT !.result = k, !.at = "row", !.next = x, !.rows = m, !.p = t] \in Calls
       BY <1>2 DEF Calls
    <3>4. 1 \in Nat /\ 0 \in Int OBVIOUS
    <3> HIDE DEF n, result, q, p
    <3>5. call' \in Calls BY <1>3, <3>1, <3>2, <3>3, <3>4, Zenon
    <3>6. /\ call'.q = call.q /\ call'.own = call.own /\ call'.result = n
          /\ call'.at = "row" /\ call'.rows = 0 /\ call'.next = 1 /\ call'.p = p
          /\ call'.failed = "nothing"
       BY <1>1, <1>2, <3>1 DEF Calls
    <3> QED BY <2>2, <3>2, <3>5, <3>6 DEF q
  <2> QED BY <2>1, <2>2
<1>9. Placed(r)
  <2>1. n <= Len(Results[q]) /\ n > 0 BY <1>3, ResultRows
  <2>2. call.rows >= -1 /\ Len(result) >= 0 BY <1>4, <1>5 DEF Placed
  <2> QED BY <1>4, <1>8, <2>1, <2>2 DEF Placed
<1>10. SentOf(r, n) = 0 BY <1>4, <1>8 DEF SentOf
<1>11. \A j \in 1 .. call.result : SentOf(r, j) = SentOf(call, j) /\ SentOf(r, j) = Len(Results[q][j])
   BY <1>1, <1>7, <1>8 DEF SentOf
<1> HIDE DEF n, q, result
<1>12. Told(r, delivered')
  <2> SUFFICES ASSUME NEW j \in 1 .. n
               PROVE  /\ Len(delivered'[j]) = SentOf(r, j)
                      /\ \A i \in 1 .. SentOf(r, j) : Same(q, j, i, delivered'[j][i])
    BY <1>7, <1>8 DEF Told
  <2>1. CASE j = n BY <1>7, <1>10, <2>1
  <2>2. CASE j \in 1 .. call.result BY <1>5, <1>7, <1>11, <2>2 DEF Told, q
  <2> QED BY <1>6, <2>1, <2>2
<1>13. Counted(r)
  <2>1. CASE result = <<>>
    <3>1. r.rows = call.rows BY <1>8, <2>1
    <3>2. ~LastOf(r, n) BY <1>8, <2>1 DEF LastOf, result
    <3>3. \A j \in 1 .. call.result : LastOf(r, j) => LastOf(call, j)
      <4>1. \A k \in 1 .. call.result : k \in 1 .. n BY <1>3 DEF n
      <4> QED BY <1>8, <4>1 DEF LastOf, q
    <3>4. \A j \in 1 .. n : LastOf(r, j) => r.rows = SentOf(r, j)
       BY <1>5, <1>6, <1>11, <3>1, <3>2, <3>3 DEF Counted
    <3>5. (\A j \in 1 .. n : Results[q][j] = <<>>) => r.rows = -1
      <4>1. \A k \in 1 .. call.result : k \in 1 .. n BY <1>3 DEF n
      <4> QED BY <1>5, <3>1, <4>1 DEF Counted, q
    <3> QED BY <1>8, <3>4, <3>5 DEF Counted
  <2>2. CASE result # <<>>
    <3>1. r.rows = 0 BY <1>8, <2>2
    <3>2. n \in 1 .. n BY <1>3
    <3>3. \A j \in 1 .. call.result : ~LastOf(r, j)
      <4>1. \A j \in 1 .. call.result : n > j BY <1>3 DEF n
      <4> QED BY <1>8, <2>2, <3>2, <4>1 DEF LastOf, result
    <3>4. \A j \in 1 .. n : LastOf(r, j) => r.rows = SentOf(r, j)
       BY <1>6, <1>10, <3>1, <3>3
    <3> QED BY <1>8, <2>2, <3>2, <3>4 DEF Counted, result
  <2> QED BY <2>1, <2>2
<1>14. Linked'
  <2>1. r # NULL BY <1>8, CallFields
  <2> QED BY <1>1, <1>8, <2>1 DEF IInv, Linked
<1>15. Ended(r) BY <1>8 DEF Ended
<1> QED BY <1>1, <1>7, <1>8, <1>9, <1>12, <1>13, <1>14, <1>15 DEF IInv, Good

\* The array of a row has its values, but for those that are no text.
LEMMA ConvertedRow ==
    ASSUME NEW row \in Seq(Values \cup {NULL}), NEW p \in Seq(Cells), Len(p) = Len(row)
    PROVE  /\ Converted(row, p) \in Seq(Cells) /\ Len(Converted(row, p)) = Len(row)
           /\ \A k \in DOMAIN row : row[k] \notin NoText => Converted(row, p)[k] = row[k]
<1> DEFINE t == [k \in 1 .. Len(row) |-> IF row[k] \in NoText THEN p[k] ELSE row[k]]
<1>1. /\ Len(row) \in Nat /\ DOMAIN row = 1 .. Len(row) /\ DOMAIN p = 1 .. Len(row)
      /\ \A k \in 1 .. Len(row) : row[k] \in Cells /\ p[k] \in Cells
   BY DEF Cells
<1>2. Converted(row, p) = t BY <1>1 DEF Converted
<1>3. t \in [1 .. Len(row) -> Cells] BY <1>1
<1>4. t \in Seq(Cells) /\ Len(t) = Len(row) BY <1>1, <1>3
<1>5. \A k \in DOMAIN row : row[k] \notin NoText => t[k] = row[k] BY <1>1
<1> QED BY <1>2, <1>4, <1>5

\* A row is counted and passed on.
LEMMA CallBackStep ==
    ASSUME IInv, CallBack
    PROVE  IInv'
<1> DEFINE q == call.q
           n == call.result
           row == Results[q][n][call.next]
           p == Converted(row, call.p)
<1>1. /\ call # NULL /\ call.at = "row" /\ call.next <= Len(Results[q][n])
      /\ call' = [call EXCEPT !.at = "free", !.rows = @ + 1, !.p = p]
      /\ delivered' = [delivered EXCEPT ![n] = Append(@, p)]
      /\ kept' = kept /\ sockets' = sockets /\ ended' = ended
   BY DEF CallBack, At
<1>2. call \in Calls /\ Good(call, delivered) /\ delivered \in Seq(Seq(Seq(Cells)))
   BY <1>1 DEF IInv
<1>3. /\ q \in Queries /\ n \in Nat /\ call.next \in Nat /\ call.p \in Seq(Cells)
      /\ call.rows \in Int
   BY <1>2, CallFields
<1>4. Told(call, delivered) /\ Counted(call) /\ Placed(call) BY <1>2 DEF Good
<1>5. /\ n > 0 /\ n <= Len(Results[q]) /\ Results[q][n] # <<>> /\ call.next >= 1
      /\ Len(call.p) = Len(Results[q][n][1]) /\ call.rows >= -1 /\ call.failed = "nothing"
   BY <1>1, <1>4 DEF Placed
<1>6. n \in 1 .. Len(Results[q])
  <2>1. Len(Results[q]) \in Nat BY <1>3, ResultRows
  <2> QED BY <1>3, <1>5, <2>1
<1>7. call.next \in 1 .. Len(Results[q][n])
  <2>1. Len(Results[q][n]) \in Nat BY <1>3, <1>6, ResultRows
  <2> QED BY <1>1, <1>3, <1>5, <2>1
<1>8. row \in Seq(Values \cup {NULL}) /\ Len(row) = Len(call.p)
   BY <1>3, <1>5, <1>6, <1>7, ResultRows
<1>9. p \in Seq(Cells) /\ Len(p) = Len(row) /\ Same(q, n, call.next, p)
   BY <1>3, <1>8, ConvertedRow, Zenon DEF Same
<1>10. call.rows = call.next - 1
  <2>1. n \in 1 .. n /\ \A k \in 1 .. n : ~(k > n) BY <1>3, <1>5
  <2>2. LastOf(call, n) BY <1>5, <2>1 DEF LastOf
  <2>3. SentOf(call, n) = call.next - 1 BY <1>1 DEF SentOf
  <2> QED BY <1>4, <2>1, <2>2, <2>3 DEF Counted
<1> HIDE DEF p, row
<1>11. PICK r \in Calls :
          /\ call' = r /\ r.q = q /\ r.own = call.own /\ r.result = n /\ r.at = "free"
          /\ r.next = call.next /\ r.rows = call.next /\ r.p = p /\ r.failed = "nothing"
  <2>1. call' = [call EXCEPT !.at = "free", !.rows = call.next, !.p = p]
    <3>1. call.rows + 1 = call.next BY <1>3, <1>10
    <3> QED BY <1>1, <3>1
  <2>2. \A m \in Int, t \in Seq(Cells) :
           [call EXCEPT !.at = "free", !.rows = m, !.p = t] \in Calls
     BY <1>2 DEF Calls
  <2>3. call.next \in Int BY <1>3
  <2>4. call' \in Calls BY <1>9, <2>1, <2>2, <2>3, Zenon
  <2>5. /\ call'.q = q /\ call'.own = call.own /\ call'.result = n /\ call'.at = "free"
        /\ call'.next = call.next /\ call'.rows = call.next /\ call'.p = p
        /\ call'.failed = "nothing"
     BY <1>2, <1>5, <2>1 DEF Calls
  <2> QED BY <2>4, <2>5
<1>12. /\ delivered' \in Seq(Seq(Seq(Cells))) /\ Len(delivered') = n
       /\ delivered'[n] = Append(delivered[n], p)
       /\ \A j \in 1 .. n : j # n => delivered'[j] = delivered[j]
       /\ delivered[n] \in Seq(Seq(Cells)) /\ Len(delivered[n]) = call.next - 1
       /\ \A i \in 1 .. call.next - 1 : Same(q, n, i, delivered[n][i])
  <2>1. Len(delivered) = n /\ n \in 1 .. n BY <1>3, <1>4, <1>5 DEF Told
  <2>2. SentOf(call, n) = call.next - 1 BY <1>1 DEF SentOf
  <2>3. delivered[n] \in Seq(Seq(Cells)) BY <1>2, <2>1
  <2>4. Append(delivered[n], p) \in Seq(Seq(Cells)) BY <1>9, <2>3
  <2>5. /\ Len(delivered[n]) = call.next - 1
        /\ \A i \in 1 .. call.next - 1 : Same(q, n, i, delivered[n][i])
     BY <1>4, <2>1, <2>2 DEF Told
  <2>6. \A f \in Seq(Seq(Cells)) :
           LET d == [delivered EXCEPT ![n] = f]
           IN  /\ d \in Seq(Seq(Seq(Cells))) /\ Len(d) = n /\ d[n] = f
               /\ \A j \in 1 .. n : j # n => d[j] = delivered[j]
     BY <1>2, <2>1
  <2> HIDE DEF n, q
  <2> QED BY <1>1, <2>3, <2>4, <2>5, <2>6
<1>13. Placed(r)
  <2>1. Len(p) = Len(Results[q][n][1]) BY <1>5, <1>8, <1>9
  <2>2. Len(Results[q][n]) \in Nat /\ call.next \in Nat BY <1>3, <1>6, ResultRows
  <2>3. /\ call.next >= -1 /\ call.next <= Len(Results[q][n]) + 1
        /\ call.next <= Len(Results[q][n])
     BY <1>1, <2>2
  <2> HIDE DEF q, n
  <2> QED BY <1>5, <1>11, <2>1, <2>3 DEF Placed
<1>14. \A j \in 1 .. n : SentOf(r, j) = IF j = n THEN call.next ELSE SentOf(call, j)
   BY <1>1, <1>5, <1>11 DEF SentOf
<1> HIDE DEF n, q
<1>15. Told(r, delivered')
  <2> SUFFICES ASSUME NEW j \in 1 .. n
               PROVE  /\ Len(delivered'[j]) = SentOf(r, j)
                      /\ \A i \in 1 .. SentOf(r, j) : Same(q, j, i, delivered'[j][i])
    BY <1>11, <1>12 DEF Told
  <2>1. CASE j # n BY <1>4, <1>12, <1>14, <2>1 DEF Told, q, n
  <2>2. CASE j = n
    <3>1. /\ Len(delivered'[n]) = call.next /\ delivered'[n][call.next] = p
          /\ \A i \in 1 .. call.next - 1 : delivered'[n][i] = delivered[n][i]
      <4>1. Len(delivered[n]) + 1 = call.next BY <1>3, <1>12
      <4> QED BY <1>12, <4>1, SMTT(30)
    <3>2. \A i \in 1 .. call.next : i \in 1 .. call.next - 1 \/ i = call.next BY <1>3
    <3>3. SentOf(r, j) = call.next BY <1>14, <2>2
    <3>4. \A i \in 1 .. call.next : Same(q, n, i, delivered'[n][i])
       BY <1>9, <1>12, <3>1, <3>2
    <3> QED BY <2>2, <3>1, <3>3, <3>4
  <2> QED BY <2>1, <2>2
<1>16. Counted(r)
  <2>1. n \in 1 .. n BY <1>3, <1>5
  <2>2. \A j \in 1 .. n : LastOf(r, j) => j = n
    <3>1. ASSUME NEW j \in 1 .. n, LastOf(r, j) PROVE j = n
      <4>1. ~(n > j) BY <1>5, <1>11, <2>1, <3>1 DEF LastOf
      <4> QED BY <1>3, <4>1
    <3> QED BY <3>1
  <2> QED BY <1>5, <1>11, <1>14, <2>1, <2>2 DEF Counted
<1>17. Linked'
  <2>1. r # NULL BY <1>11, CallFields
  <2> QED BY <1>1, <1>11, <2>1 DEF IInv, Linked
<1>18. Ended(r) BY <1>11 DEF Ended
<1> QED BY <1>1, <1>11, <1>12, <1>13, <1>15, <1>16, <1>17, <1>18 DEF IInv, Good

\* The values are freed, or the process ends with the attempt.
LEMMA FreeRowStep ==
    ASSUME IInv, FreeRow
    PROVE  IInv'
<1>1. /\ call # NULL /\ call.at = "free" /\ kept' = kept /\ sockets' = sockets
      /\ delivered' = delivered
   BY DEF FreeRow, At
<1>2. call \in Calls /\ Good(call, delivered) BY <1>1 DEF IInv
<1>3. CASE ended' = "crash" /\ UNCHANGED call BY <1>1, <1>3 DEF IInv, Linked
<1>4. CASE /\ call' = [call EXCEPT !.at = "row", !.next = @ + 1,
                          !.p = [i \in DOMAIN @ |-> IF @[i] = NULL THEN NULL ELSE Wild]]
           /\ UNCHANGED ended
  <2> DEFINE p == [i \in DOMAIN call.p |-> IF call.p[i] = NULL THEN NULL ELSE Wild]
  <2>1. call' = [call EXCEPT !.at = "row", !.next = call.next + 1, !.p = p] BY <1>4
  <2>2. p \in Seq(Cells) /\ Len(p) = Len(call.p)
    <3>1. call.p \in Seq(Cells) BY <1>2, CallFields
    <3>2. Len(call.p) \in Nat /\ DOMAIN call.p = 1 .. Len(call.p) BY <3>1
    <3>3. p \in [1 .. Len(call.p) -> Cells] BY <3>2 DEF Cells
    <3> QED BY <3>2, <3>3
  <2>3. call.next \in Nat /\ call.next + 1 \in Nat BY <1>2, CallFields
  <2>4. \A k \in Nat, t \in Seq(Cells) :
           [call EXCEPT !.at = "row", !.next = k, !.p = t] \in Calls
     BY <1>2 DEF Calls
  <2> HIDE DEF p
  <2>5. call' \in Calls BY <2>1, <2>2, <2>3, <2>4, Zenon
  <2>6. /\ call'.q = call.q /\ call'.own = call.own /\ call'.result = call.result
        /\ call'.at = "row" /\ call'.next = call.next + 1 /\ call'.rows = call.rows
        /\ call'.p = p /\ call'.failed = "nothing"
     BY <1>1, <1>2, <2>1 DEF Calls, Good, Placed
  <2>7. PICK r \in Calls : r = call' BY <2>5
  <2>8. Placed(r)
    <3>1. /\ Placed(call) /\ call.result > 0 /\ call.result <= Len(Results[call.q])
          /\ call.next <= Len(Results[call.q][call.result])
       BY <1>1, <1>2 DEF Good, Placed
    <3>2. call.q \in Queries /\ call.result \in Nat BY <1>2, CallFields
    <3>3. Len(Results[call.q]) \in Nat BY <3>2, ResultRows
    <3>4. Len(Results[call.q][call.result]) \in Nat BY <3>1, <3>2, <3>3, ResultRows
    <3>5. /\ Results[call.q][call.result] # <<>> /\ call.rows >= -1
          /\ Len(call.p) = Len(Results[call.q][call.result][1])
       BY <1>1, <3>1 DEF Placed
    <3>6. /\ call.next + 1 >= 1
          /\ call.next + 1 <= Len(Results[call.q][call.result]) + 1
       BY <2>3, <3>1, <3>4
    <3> QED BY <2>2, <2>6, <2>7, <3>1, <3>5, <3>6 DEF Placed
  <2>9. \A j \in 1 .. call.result : SentOf(r, j) = SentOf(call, j)
    <3>1. call.failed = "nothing" BY <1>1, <1>2 DEF Good, Placed
    <3>2. (call.next + 1) - 1 = call.next BY <2>3
    <3> QED BY <1>1, <2>6, <2>7, <3>1, <3>2 DEF SentOf
  <2>10. Told(r, delivered) /\ Counted(r)
     BY <1>2, <2>6, <2>7, <2>9, KeepsTold DEF Good
  <2>11. Ended(r) BY <2>6, <2>7 DEF Ended
  <2>12. Linked'
    <3>1. call' # NULL BY <2>5, CallFields
    <3> QED BY <1>1, <2>6, <3>1 DEF IInv, Linked
  <2> QED BY <1>1, <1>4, <2>5, <2>7, <2>8, <2>10, <2>11, <2>12 DEF IInv, Good
<1> QED BY <1>3, <1>4 DEF FreeRow

\* The driver returns.
LEMMA ReturnStep ==
    ASSUME IInv, Return
    PROVE  IInv'
<1>1. /\ call # NULL /\ call.at = "close" /\ call' = NULL /\ delivered' = <<>>
      /\ kept' = kept /\ ended' = ended
      /\ sockets' = IF call.own THEN sockets \ {"own"} ELSE sockets
   BY DEF Return, At
<1>2. delivered' \in Seq(Seq(Seq(Cells))) BY <1>1
<1>3. Linked' /\ sockets' \subseteq {"kept", "own"} BY <1>1 DEF IInv, Linked
<1> QED BY <1>1, <1>2, <1>3 DEF IInv

\* The invariant holds of every run.
LEMMA TdsSafe == Spec => []IInv
<1>1. Init => IInv BY DEF Init, IInv, Linked
<1>2. IInv /\ [Next]_vars => IInv'
  <2> SUFFICES ASSUME IInv, [Next]_vars PROVE IInv'
    OBVIOUS
  <2>1. CASE UNCHANGED vars BY <2>1 DEF vars, IInv, Linked
  <2> QED
    BY <2>1, ConnectionStep, CallStep, GotoStep, NextResultStep, CallBackStep, FreeRowStep,
       ReturnStep DEF Next
<1> QED BY <1>1, <1>2, PTL DEF Spec

---------------------------------------------------------------------------
(* The properties *)

\* The place of a query stays within its results, and the array has a place for each
\* column (tds_driver.c:103-160).
THEOREM TypeOKAlways == Spec => []TypeOK
<1>1. IInv => TypeOK
  <2> SUFFICES ASSUME IInv PROVE TypeOK
    OBVIOUS
  <2>1. ASSUME call # NULL
        PROVE  /\ call.result <= Len(Results[call.q])
               /\ call.at \in {"row", "free"} =>
                     /\ call.result > 0 /\ call.next \in 1 .. Len(Results[call.q][call.result]) + 1
                     /\ Len(call.p) = Len(Results[call.q][call.result][1])
               /\ call.rows >= -1
    <3>1. call \in Calls /\ Placed(call) BY <2>1 DEF IInv, Good
    <3>2. call.q \in Queries /\ call.result \in Nat /\ call.next \in Nat BY <3>1, CallFields
    <3>3. Len(Results[call.q]) \in Nat BY <3>2, ResultRows
    <3>4. call.result > 0 => Len(Results[call.q][call.result]) \in Nat
       BY <3>1, <3>2, <3>3, ResultRows DEF Placed
    <3> QED BY <3>1, <3>2, <3>4 DEF Placed
  <2> QED BY <2>1 DEF TypeOK, IInv
<1> QED BY <1>1, TdsSafe, PTL

\* Every row that the library hands out is passed on, in order, with its values; without
\* a failure these are all rows of all results.  The number is that of the last result
\* with rows, after a failure too (tds_driver.c:97-186).
THEOREM QueriesAreAnsweredAlways == Spec => []QueriesAreAnswered
<1>1. IInv => QueriesAreAnswered
  <2> SUFFICES ASSUME IInv, call # NULL
               PROVE  /\ Len(delivered) = call.result
                      /\ \A j \in 1 .. call.result :
                            /\ Len(delivered[j]) = Sent(j)
                            /\ \A i \in 1 .. Sent(j) :
                                  LET row == Results[call.q][j][i]
                                  IN  /\ Len(delivered[j][i]) = Len(row)
                                      /\ \A c \in DOMAIN row :
                                            row[c] \notin NoText => delivered[j][i][c] = row[c]
                            /\ LastWithRows(j) => call.rows = Sent(j)
                      /\ (\A j \in 1 .. call.result : Results[call.q][j] = <<>>) => call.rows = -1
                      /\ call.failed = "start" => delivered = <<>>
                      /\ call.at = "close" /\ call.failed = "nothing" =>
                            call.result = Len(Results[call.q])
    BY DEF QueriesAreAnswered
  <2>1. Told(call, delivered) /\ Counted(call) /\ Ended(call) BY DEF IInv, Good
  <2>3. call.failed = "start" => delivered = <<>>
    <3>1. delivered \in Seq(Seq(Seq(Cells))) BY DEF IInv
    <3>2. call.failed = "start" => Len(delivered) = 0 BY <2>1 DEF Told, Ended
    <3> QED BY <3>1, <3>2
  <2>2. \A j : Sent(j) = SentOf(call, j) /\ (LastWithRows(j) <=> LastOf(call, j))
     BY DEF Sent, SentOf, LastWithRows, LastOf
  <2> QED BY <2>1, <2>2, <2>3 DEF Told, Counted, Same, Ended
<1> QED BY <1>1, TdsSafe, PTL

\* A query has a connection, and between queries there is none but the kept one
\* (tds_driver.c:337-346).
THEOREM SocketsAreAccountedAlways == Spec => []SocketsAreAccounted
<1>1. IInv => SocketsAreAccounted
  BY DEF IInv, Linked, SocketsAreAccounted, Idle, At
<1> QED BY <1>1, TdsSafe, PTL
=============================================================================
