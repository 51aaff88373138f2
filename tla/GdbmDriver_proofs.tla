-------------------------- MODULE GdbmDriver_proofs --------------------------
(***************************************************************************)
(* Proofs about the gdbm driver, for any processes, commands and depth of  *)
(* the commands that callbacks give: the driver implements KeyValue.       *)
(***************************************************************************)
EXTENDS GdbmDriver, FiniteSetTheorems, TLAPS

Busy(r) == r # NULL /\ r.at \in {"open", "callback"}

Once(rows) == \A i, j \in 1 .. Len(rows) : i # j => rows[i] # rows[j]

\* A caller with the call r and the lock k, when the file is s.
Fine(r, k, s) ==
    /\ k # "none" => r # NULL /\ r.at # "called" /\ (k = "write" => Writes(r.cmd))
    /\ Busy(r) =>
          /\ s # NULL
          /\ k = IF Writes(r.cmd) THEN "write" ELSE "read"
          /\ r.cmd.op # "list" /\ r.at = "open" => r.rows = <<>>
          /\ r.cmd.op = "list" => Once(r.rows) /\ \A i \in 1 .. Len(r.rows) : r.rows[i] \in DOMAIN s
    /\ r # NULL =>
          /\ r.at = "called" => r.rows = <<>>
          /\ r.at = "callback" => r.cmd.op \in {"fetch", "list"}

Types ==
    /\ store \in Files \cup {NULL}
    /\ calls \in [Callers -> Calls \cup {NULL}]
    /\ lock \in [Callers -> {"none", "read", "write"}]
    /\ cut \subseteq Callers \X Commands

\* Who writes is alone with the file.
Exclusive == \A c, d \in Callers : c # d /\ lock[c] = "write" => lock[d] = "none"

IInv ==
    /\ Types
    /\ \A c \in Callers : Fine(calls[c], lock[c], store)
    /\ Exclusive
    /\ Rebuilt => cut = {}

---------------------------------------------------------------------------
(* The operators of the model *)

\* The record of a call is not NULL.
LEMMA CallFields ==
    ASSUME NEW r \in Calls
    PROVE  /\ r # NULL
           /\ r.cmd \in Commands /\ r.rows \in Seq(Data) /\ r.n \in {-1, 0}
           /\ r.at \in {"called", "open", "callback", "answered"}
<1>1. r # NULL BY NullAssumption DEF NullAssumption
<1> QED BY <1>1 DEF Calls

\* What becomes of it when the call goes on, is answered, or passes on a row.
LEMMA MovedCall ==
    ASSUME NEW r \in Calls, NEW at \in {"called", "open", "callback", "answered"}, NEW t,
           t = [r EXCEPT !.at = at]
    PROVE  /\ t \in Calls /\ t # NULL
           /\ t.at = at /\ t.cmd = r.cmd /\ t.rows = r.rows /\ t.n = r.n
<1>1. t \in Calls /\ t.at = at /\ t.cmd = r.cmd /\ t.rows = r.rows /\ t.n = r.n
   BY DEF Calls
<1> QED BY <1>1, CallFields

\* A call that is answered.
LEMMA AnsweredCall ==
    ASSUME NEW r \in Calls, NEW n \in {-1, 0}, NEW t,
           t = [r EXCEPT !.at = "answered", !.n = n]
    PROVE  /\ t \in Calls /\ t # NULL
           /\ t.at = "answered" /\ t.cmd = r.cmd /\ t.rows = r.rows /\ t.n = n
<1>1. t \in Calls /\ t.at = "answered" /\ t.cmd = r.cmd /\ t.rows = r.rows /\ t.n = n
   BY DEF Calls
<1> QED BY <1>1, CallFields

\* A call whose callback is given another row.
LEMMA RowCall ==
    ASSUME NEW r \in Calls, NEW rows \in Seq(Data), NEW t,
           t = [r EXCEPT !.at = "callback", !.rows = rows]
    PROVE  /\ t \in Calls /\ t # NULL
           /\ t.at = "callback" /\ t.cmd = r.cmd /\ t.rows = rows /\ t.n = r.n
<1>1. t \in Calls /\ t.at = "callback" /\ t.cmd = r.cmd /\ t.rows = rows /\ t.n = r.n
   BY DEF Calls
<1> QED BY <1>1, CallFields

\* A file has keys and values of the data, also when something is put into it or
\* taken out of it; it is not NULL.
LEMMA FileSteps ==
    /\ <<>> \in Files /\ NULL \notin Files
    /\ \A s \in Files : \A k \in DOMAIN s : k \in Data /\ s[k] \in Data
    /\ \A s \in Files, k \in Data, v \in Data :
          [x \in DOMAIN s \cup {k} |-> IF x = k THEN v ELSE s[x]] \in Files
    /\ \A s \in Files, k \in Data : [x \in DOMAIN s \ {k} |-> s[x]] \in Files
<1>1. NULL \notin Files BY NullAssumption DEF NullAssumption
<1>2. <<>> \in Files
  <2>1. <<>> \in [{} -> Data] OBVIOUS
  <2> QED BY <2>1 DEF Files
<1>3. ASSUME NEW s \in Files
      PROVE  DOMAIN s \in SUBSET Data /\ s \in [DOMAIN s -> Data]
   BY DEF Files
<1>4. ASSUME NEW s \in Files, NEW k \in Data, NEW v \in Data
      PROVE  [x \in DOMAIN s \cup {k} |-> IF x = k THEN v ELSE s[x]] \in Files
  <2>1. [x \in DOMAIN s \cup {k} |-> IF x = k THEN v ELSE s[x]] \in [DOMAIN s \cup {k} -> Data]
     BY <1>3
  <2>2. DOMAIN s \cup {k} \in SUBSET Data BY <1>3
  <2> QED BY <2>1, <2>2, Zenon DEF Files
<1>5. ASSUME NEW s \in Files, NEW k \in Data
      PROVE  [x \in DOMAIN s \ {k} |-> s[x]] \in Files
  <2>1. [x \in DOMAIN s \ {k} |-> s[x]] \in [DOMAIN s \ {k} -> Data] BY <1>3
  <2>2. DOMAIN s \ {k} \in SUBSET Data BY <1>3
  <2> QED BY <2>1, <2>2, Zenon DEF Files
<1> QED BY <1>1, <1>2, <1>3, <1>4, <1>5

---------------------------------------------------------------------------
(* The invariant *)

\* A step of one caller: the others find the file as they left it, unless they have
\* not opened it.
LEMMA CallerStep ==
    ASSUME IInv, NEW c \in Callers, NEW r \in Calls \cup {NULL},
           NEW k \in {"none", "read", "write"},
           calls' = [calls EXCEPT ![c] = r], lock' = [lock EXCEPT ![c] = k],
           store' \in Files \cup {NULL},
           cut' \subseteq Callers \X Commands, Rebuilt => cut' = {},
           Fine(r, k, store'),
           store' = store \/ store = NULL \/ lock[c] = "write",
           k = "write" /\ lock[c] # "write" => \A d \in Callers \ {c} : lock[d] = "none",
           k = "read" /\ lock[c] = "none" => \A d \in Callers \ {c} : lock[d] # "write"
    PROVE  IInv'
<1>1. Types' BY DEF IInv, Types
<1>2. /\ calls'[c] = r /\ lock'[c] = k
      /\ \A d \in Callers \ {c} : calls'[d] = calls[d] /\ lock'[d] = lock[d]
   BY DEF IInv, Types
<1>3. ASSUME NEW d \in Callers PROVE Fine(calls'[d], lock'[d], store')
  <2>1. CASE d = c BY <1>2, <2>1
  <2>2. CASE d # c
    <3>1. calls'[d] = calls[d] /\ lock'[d] = lock[d] /\ Fine(calls[d], lock[d], store)
       BY <1>2, <2>2 DEF IInv
    <3>2. CASE store' = store BY <3>1, <3>2
    <3>3. CASE store = NULL
      <4>1. ~Busy(calls[d]) BY <3>1, <3>3 DEF Fine
      <4> QED BY <3>1, <4>1 DEF Fine
    <3>4. CASE lock[c] = "write"
      <4>1. lock[d] = "none" BY <2>2, <3>4 DEF IInv, Exclusive
      <4>2. ~Busy(calls[d]) BY <3>1, <4>1 DEF Fine
      <4> QED BY <3>1, <4>2 DEF Fine
    <3> QED BY <3>2, <3>3, <3>4
  <2> QED BY <2>1, <2>2
<1>4. Exclusive'
  <2> SUFFICES ASSUME NEW d \in Callers, NEW e \in Callers, d # e, lock'[d] = "write"
               PROVE  lock'[e] = "none"
    BY DEF Exclusive
  <2>1. \A a, b \in Callers : a # b /\ lock[a] = "write" => lock[b] = "none"
     BY DEF IInv, Exclusive
  <2>2. CASE d = c
    <3>1. k = "write" /\ lock'[e] = lock[e] BY <1>2, <2>2
    <3> QED BY <2>1, <2>2, <3>1
  <2>3. CASE e = c
    <3>1. lock[d] = "write" BY <1>2, <2>3
    <3>2. lock[c] = "none" BY <2>1, <2>3, <3>1
    <3>3. k # "write" /\ k # "read" BY <2>3, <3>1, <3>2
    <3> QED BY <1>2, <2>3, <3>3
  <2>4. CASE d # c /\ e # c
    <3>1. lock'[d] = lock[d] /\ lock'[e] = lock[e] BY <1>2, <2>4
    <3> QED BY <2>1, <3>1
  <2> QED BY <2>2, <2>3, <2>4
<1> QED BY <1>1, <1>3, <1>4 DEF IInv

\* A step that leaves the lock alone.
LEMMA Relocked ==
    ASSUME IInv, NEW c \in Callers
    PROVE  /\ lock = [lock EXCEPT ![c] = lock[c]] /\ lock[c] \in {"none", "read", "write"}
           /\ cut \subseteq Callers \X Commands /\ (Rebuilt => cut = {})
           /\ store \in Files \cup {NULL}
BY DEF IInv, Types

\* What the invariant says of a call that has begun.
LEMMA CallFine ==
    ASSUME IInv, NEW c \in Callers
    PROVE  /\ calls[c] \in Calls \cup {NULL} /\ Fine(calls[c], lock[c], store)
           /\ calls[c] # NULL => calls[c] \in Calls
BY DEF IInv, Types

\* Calls, refusals and returns leave the file alone.
LEMMA AroundStep ==
    ASSUME IInv, NEW c \in Callers,
           (\E cmd \in Commands : Call(c, cmd)) \/ Problem(c) \/ OpenFails(c) \/ Close(c)
    PROVE  IInv'
<1>1. store' = store BY DEF Call, Problem, OpenFails, Close
<1>2. /\ lock = [lock EXCEPT ![c] = lock[c]] /\ lock[c] \in {"none", "read", "write"}
      /\ cut \subseteq Callers \X Commands /\ (Rebuilt => cut = {}) /\ store \in Files \cup {NULL}
   BY Relocked
<1>3. Fine(calls[c], lock[c], store) /\ (calls[c] # NULL => calls[c] \in Calls) BY CallFine
<1>4. CASE \E cmd \in Commands : Call(c, cmd)
  <2>1. PICK cmd \in Commands : Call(c, cmd) BY <1>4
  <2> DEFINE r == [cmd |-> cmd, at |-> "called", rows |-> <<>>, n |-> -1]
  <2>2. r \in Calls /\ r # NULL
    <3>1. r \in Calls BY DEF Calls
    <3> QED BY <3>1, CallFields
  <2>3. r.at = "called" /\ r.rows = <<>> OBVIOUS
  <2>4. calls' = [calls EXCEPT ![c] = r] /\ lock' = lock /\ cut' = cut /\ calls[c] = NULL
     BY <2>1 DEF Call
  <2> HIDE DEF r
  <2>5. lock[c] = "none" BY <1>2, <1>3, <2>4 DEF Fine
  <2>6. Fine(r, lock[c], store) BY <2>3, <2>5 DEF Fine, Busy
  <2> QED BY <1>1, <1>2, <2>2, <2>4, <2>5, <2>6, CallerStep
<1>5. CASE Problem(c) \/ OpenFails(c)
  <2>1. /\ Answered(c, -1) /\ lock' = lock /\ calls[c] # NULL /\ calls[c].at = "called"
        /\ cut' = cut \/ cut' = CutAfter(c)
     BY <1>5 DEF Problem, OpenFails, At
  <2> DEFINE r == [calls[c] EXCEPT !.at = "answered", !.n = -1]
  <2>2. calls' = [calls EXCEPT ![c] = r]
     BY <2>1 DEF Answered, IInv, Types
  <2>3. r \in Calls /\ r # NULL /\ r.at = "answered" /\ r.cmd = calls[c].cmd
     BY <1>3, <2>1, AnsweredCall, ZenonT(60)
  <2>4. calls[c].cmd \in Commands BY <1>3, <2>1, CallFields
  <2>5. cut' \subseteq Callers \X Commands /\ (Rebuilt => cut' = {})
     BY <1>2, <2>1, <2>4 DEF CutAfter
  <2> HIDE DEF r
  <2>6. lock[c] = "none" BY <1>2, <1>3, <2>1 DEF Fine
  <2>7. Fine(r, lock[c], store) BY <2>3, <2>6 DEF Fine, Busy
  <2> QED BY <1>1, <1>2, <2>1, <2>2, <2>3, <2>5, <2>6, <2>7, CallerStep
<1>6. CASE Close(c)
  <2>1. /\ calls' = [calls EXCEPT ![c] = NULL] /\ lock' = [lock EXCEPT ![c] = "none"]
        /\ cut' = cut
     BY <1>6 DEF Close
  <2>2. Fine(NULL, "none", store) BY DEF Fine, Busy
  <2> QED BY <1>1, <1>2, <2>1, <2>2, CallerStep
<1> QED BY <1>4, <1>5, <1>6

\* The file is opened, and made if there is none.
LEMMA OpenStep ==
    ASSUME IInv, NEW c \in Callers, Open(c)
    PROVE  IInv'
<1>1. /\ calls[c] # NULL /\ calls[c].at = "called" /\ Free(c)
      /\ cut' = CutAfter(c)
      /\ store' = IF store = NULL THEN <<>> ELSE store
   BY DEF Open, At
<1>2. /\ lock[c] \in {"none", "read", "write"} /\ store \in Files \cup {NULL}
      /\ cut \subseteq Callers \X Commands /\ (Rebuilt => cut = {})
   BY Relocked
<1>3. calls[c] \in Calls /\ Fine(calls[c], lock[c], store) BY <1>1, CallFine
<1> DEFINE r == [calls[c] EXCEPT !.at = "open"]
           k == IF Writes(calls[c].cmd) THEN "write" ELSE "read"
<1>4. calls' = [calls EXCEPT ![c] = r] /\ lock' = [lock EXCEPT ![c] = k]
   BY DEF Open, Moved, IInv, Types
<1>5. r \in Calls /\ r # NULL /\ r.at = "open" /\ r.cmd = calls[c].cmd /\ r.rows = calls[c].rows
   BY <1>3, MovedCall
<1>6. cut' \subseteq Callers \X Commands /\ (Rebuilt => cut' = {})
  <2>1. calls[c].cmd \in Commands BY <1>3, CallFields
  <2> QED BY <1>1, <1>2, <2>1 DEF CutAfter
<1>7. store' \in Files /\ store' # NULL BY <1>1, <1>2, FileSteps
<1>8. lock[c] = "none" /\ calls[c].rows = <<>> BY <1>1, <1>2, <1>3 DEF Fine
<1>9. \A d \in Callers \ {c} : lock[d] # "none" => lock[d] = "read" /\ k = "read"
   BY <1>1 DEF Free
<1>10. k \in {"none", "read", "write"} /\ (k = "write" <=> Writes(r.cmd)) /\ k # "none"
   BY <1>5
<1>11. k = IF Writes(r.cmd) THEN "write" ELSE "read" BY <1>5
<1> HIDE DEF r, k
<1>12. Fine(r, k, store')
  <2>1. Len(r.rows) = 0 BY <1>5, <1>8
  <2>2. Once(r.rows) /\ \A i \in 1 .. Len(r.rows) : r.rows[i] \in DOMAIN store'
     BY <2>1 DEF Once
  <2> QED BY <1>5, <1>7, <1>8, <1>10, <1>11, <2>2 DEF Fine, Busy
<1>13. \A d \in Callers \ {c} : lock[d] \in {"none", "read", "write"} BY DEF IInv, Types
<1> QED BY <1>1, <1>4, <1>5, <1>6, <1>7, <1>9, <1>10, <1>12, <1>13, CallerStep

\* The work of a command whose file is open, but for what it passes on.
LEMMA WorkStep ==
    ASSUME IInv, NEW c \in Callers, NEW n \in {-1, 0}, Busy(calls[c]), Answered(c, n),
           lock' = lock, cut' = cut,
           store' = store \/ (Writes(calls[c].cmd) /\ store' \in Files)
    PROVE  IInv'
<1>1. calls[c] \in Calls /\ Fine(calls[c], lock[c], store) BY CallFine DEF Busy
<1>2. /\ lock = [lock EXCEPT ![c] = lock[c]] /\ lock[c] \in {"none", "read", "write"}
      /\ cut \subseteq Callers \X Commands /\ (Rebuilt => cut = {}) /\ store \in Files \cup {NULL}
   BY Relocked
<1> DEFINE r == [calls[c] EXCEPT !.at = "answered", !.n = n]
<1>3. calls' = [calls EXCEPT ![c] = r] BY DEF Answered, IInv, Types
<1>4. r \in Calls /\ r # NULL /\ r.at = "answered" /\ r.cmd = calls[c].cmd
   BY <1>1, AnsweredCall, ZenonT(60)
<1> HIDE DEF r
<1>5. lock[c] = IF Writes(calls[c].cmd) THEN "write" ELSE "read" BY <1>1 DEF Fine
<1>6. Fine(r, lock[c], store') BY <1>4, <1>5 DEF Fine, Busy
<1>7. store' = store \/ lock[c] = "write" BY <1>5
<1>8. lock[c] # "none" BY <1>5
<1>9. store' \in Files \cup {NULL} BY <1>2
<1> QED BY <1>2, <1>3, <1>4, <1>6, <1>7, <1>8, <1>9, CallerStep

\* Commands that pass nothing on, or nothing more.
LEMMA AnsweredStep ==
    ASSUME IInv, NEW c \in Callers,
           \/ Store(c) \/ Delete(c) \/ Reorganize(c) \/ Exists(c) \/ ListEnds(c)
           \/ LibraryFails(c)
           \/ Fetch(c) /\ ~Found(c)
           \/ CallbackReturns(c) /\ Op(c) # "list"
    PROVE  IInv'
<1>1. Busy(calls[c]) /\ lock' = lock /\ cut' = cut
   BY DEF Store, Delete, Reorganize, Exists, ListEnds, LibraryFails, Fetch, CallbackReturns,
          At, Busy
<1>2. \E n \in {-1, 0} : Answered(c, n)
   BY DEF Store, Delete, Reorganize, Exists, ListEnds, LibraryFails, Fetch, CallbackReturns
<1>3. store' = store \/ (Writes(calls[c].cmd) /\ store' \in Files)
  <2>1. calls[c] \in Calls /\ Fine(calls[c], lock[c], store) BY <1>1, CallFine DEF Busy
  <2>2. store \in Files BY <1>1, <2>1 DEF Fine, IInv, Types
  <2>3. calls[c].cmd \in Commands BY <2>1, CallFields
  <2>4. CASE Store(c)
    <3>1. /\ Op(c) = "store"
          /\ store' = [k \in DOMAIN store \cup {calls[c].cmd.key} |->
                          IF k = calls[c].cmd.key THEN calls[c].cmd.value ELSE store[k]]
       BY <2>4 DEF Store
    <3>2. calls[c].cmd.key \in Data /\ calls[c].cmd.value \in Data
       BY <2>3, <3>1, GdbmAssumption DEF GdbmAssumption, Op
    <3>3. store' \in Files BY <2>2, <3>1, <3>2, FileSteps
    <3> QED BY <3>1, <3>3 DEF Writes, Op
  <2>5. CASE Delete(c)
    <3>1. /\ Op(c) = "delete"
          /\ store' = [k \in DOMAIN store \ {calls[c].cmd.key} |-> store[k]]
       BY <2>5 DEF Delete
    <3>2. calls[c].cmd.key \in Data
       BY <2>3, <3>1, GdbmAssumption DEF GdbmAssumption, Op
    <3>3. store' \in Files BY <2>2, <3>1, <3>2, FileSteps
    <3> QED BY <3>1, <3>3 DEF Writes, Op
  <2> QED
    BY <2>4, <2>5 DEF Reorganize, Exists, ListEnds, LibraryFails, Fetch, CallbackReturns
<1> QED BY <1>1, <1>2, <1>3, WorkStep

\* A row is passed on: the value fetched, or a key that has not been listed.
LEMMA RowStep ==
    ASSUME IInv, NEW c \in Callers,
           (Fetch(c) /\ Found(c)) \/ ListKey(c)
    PROVE  IInv'
<1>1. /\ calls[c] # NULL /\ calls[c].at = "open" /\ Op(c) \in {"fetch", "list"}
      /\ lock' = lock /\ cut' = cut /\ store' = store
   BY DEF Fetch, ListKey, At
<1>2. calls[c] \in Calls /\ Fine(calls[c], lock[c], store) BY <1>1, CallFine
<1>3. /\ lock = [lock EXCEPT ![c] = lock[c]] /\ lock[c] \in {"none", "read", "write"}
      /\ cut \subseteq Callers \X Commands /\ (Rebuilt => cut = {}) /\ store \in Files \cup {NULL}
   BY Relocked
<1>4. Busy(calls[c]) BY <1>1 DEF Busy
<1>5. store \in Files /\ store # NULL BY <1>2, <1>3, <1>4 DEF Fine
<1>6. PICK x \in Data :
         /\ CallBack(c, x)
         /\ Op(c) = "list" => x \in DOMAIN store /\ x \notin Listed(c)
  <2>1. CASE Fetch(c) /\ Found(c)
    <3>1. CallBack(c, store[calls[c].cmd.key]) /\ Op(c) = "fetch" BY <2>1 DEF Fetch
    <3>2. calls[c].cmd.key \in DOMAIN store BY <2>1 DEF Found
    <3>3. store[calls[c].cmd.key] \in Data BY <1>5, <3>2, FileSteps
    <3> QED BY <3>1, <3>3
  <2>2. CASE ListKey(c)
    <3>1. PICK k \in DOMAIN store \ Listed(c) : CallBack(c, k) BY <2>2 DEF ListKey
    <3>2. k \in Data BY <1>5, FileSteps
    <3> QED BY <3>1, <3>2
  <2> QED BY <2>1, <2>2
<1>7. PICK rows \in Seq(Data) : rows = Append(calls[c].rows, x)
  <2>1. calls[c].rows \in Seq(Data) BY <1>2, CallFields
  <2>2. Append(calls[c].rows, x) \in Seq(Data) BY <2>1
  <2> QED BY <2>2, Zenon
<1>8. PICK r : r = [calls[c] EXCEPT !.at = "callback", !.rows = rows] OBVIOUS
<1>9. /\ calls' = [calls EXCEPT ![c] = r]
      /\ r \in Calls /\ r.at = "callback" /\ r.cmd = calls[c].cmd /\ r.rows = rows /\ r # NULL
  <2>1. calls' = [calls EXCEPT ![c] = r] BY <1>6, <1>7, <1>8 DEF CallBack, IInv, Types
  <2>2. r \in Calls /\ r # NULL BY <1>2, <1>8, RowCall, Zenon
  <2>3. r.at = "callback" /\ r.cmd = calls[c].cmd /\ r.rows = rows BY <1>2, <1>8 DEF Calls
  <2> QED BY <2>1, <2>2, <2>3
<1>10. r.cmd.op = "list" =>
          Once(r.rows) /\ \A i \in 1 .. Len(r.rows) : r.rows[i] \in DOMAIN store
  <2> SUFFICES ASSUME Op(c) = "list"
               PROVE  Once(r.rows) /\ \A i \in 1 .. Len(r.rows) : r.rows[i] \in DOMAIN store
    BY <1>9 DEF Op
  <2> DEFINE s == calls[c].rows
             t == r.rows
  <2>1. s \in Seq(Data) /\ t = Append(s, x) BY <1>2, <1>7, <1>9, CallFields
  <2>2. Once(s) /\ \A i \in 1 .. Len(s) : s[i] \in DOMAIN store BY <1>2, <1>4 DEF Fine, Op
  <2>3. x \in DOMAIN store /\ x \notin {s[i] : i \in DOMAIN s} BY <1>6 DEF Listed
  <2> HIDE DEF s, t
  <2>4. /\ Len(s) \in Nat /\ Len(t) = Len(s) + 1 /\ t[Len(s) + 1] = x
        /\ DOMAIN s = 1 .. Len(s) /\ \A i \in 1 .. Len(s) : t[i] = s[i]
     BY <2>1
  <2>5. \A i \in 1 .. Len(t) : i \in 1 .. Len(s) \/ i = Len(s) + 1 BY <2>4
  <2>6. \A i \in 1 .. Len(s) : s[i] # x BY <2>3, <2>4
  <2>7. \A i \in 1 .. Len(t) : t[i] \in DOMAIN store BY <2>2, <2>3, <2>4, <2>5, Zenon
  <2>8. ASSUME NEW i \in 1 .. Len(t), NEW j \in 1 .. Len(t), i # j PROVE t[i] # t[j]
    <3>1. CASE i \in 1 .. Len(s) /\ j \in 1 .. Len(s) BY <2>2, <2>4, <2>8, <3>1, Zenon DEF Once
    <3>2. CASE i = Len(s) + 1 /\ j \in 1 .. Len(s) BY <2>4, <2>6, <3>2, Zenon
    <3>3. CASE j = Len(s) + 1 /\ i \in 1 .. Len(s) BY <2>4, <2>6, <3>3, Zenon
    <3> QED BY <2>5, <2>8, <3>1, <3>2, <3>3, Zenon
  <2> QED BY <2>7, <2>8 DEF Once, t
<1>11. Fine(r, lock[c], store)
   BY <1>1, <1>2, <1>4, <1>5, <1>9, <1>10 DEF Fine, Busy, Op
<1>12. lock[c] # "none" BY <1>2, <1>4 DEF Fine
<1> QED BY <1>1, <1>3, <1>9, <1>11, <1>12, CallerStep

\* The callback returns to a list, which goes on with the file of before.
LEMMA ListStep ==
    ASSUME IInv, NEW c \in Callers, CallbackReturns(c), Op(c) = "list"
    PROVE  IInv'
<1>1. /\ calls[c] # NULL /\ calls[c].at = "callback" /\ Moved(c, "open")
      /\ lock' = lock /\ cut' = cut /\ store' = store
   BY DEF CallbackReturns, At
<1>2. calls[c] \in Calls /\ Fine(calls[c], lock[c], store) BY <1>1, CallFine
<1>3. /\ lock = [lock EXCEPT ![c] = lock[c]] /\ lock[c] \in {"none", "read", "write"}
      /\ cut \subseteq Callers \X Commands /\ (Rebuilt => cut = {}) /\ store \in Files \cup {NULL}
   BY Relocked
<1> DEFINE r == [calls[c] EXCEPT !.at = "open"]
<1>4. calls' = [calls EXCEPT ![c] = r] BY <1>1 DEF Moved, IInv, Types
<1>5. r \in Calls /\ r.at = "open" /\ r.cmd = calls[c].cmd /\ r.rows = calls[c].rows
   BY <1>2, MovedCall
<1>6. r # NULL BY <1>5, CallFields
<1> HIDE DEF r
<1>7. Fine(r, lock[c], store) /\ lock[c] # "none"
   BY <1>1, <1>2, <1>5, <1>6 DEF Fine, Busy, Op
<1> QED BY <1>1, <1>3, <1>4, <1>5, <1>7, CallerStep

\* A process dies, and its callers with it.
LEMMA CrashStep ==
    ASSUME IInv, NEW p \in Procs, Crash(p)
    PROVE  IInv'
<1>1. /\ store' = store /\ cut' \subseteq cut
      /\ \A d \in Callers :
            /\ calls'[d] = IF d[1] = p THEN NULL ELSE calls[d]
            /\ lock'[d] = IF d[1] = p THEN "none" ELSE lock[d]
   BY DEF Crash
<1>2. Types' BY <1>1 DEF Crash, IInv, Types
<1>3. ASSUME NEW d \in Callers PROVE Fine(calls'[d], lock'[d], store')
  <2>1. CASE d[1] = p
    <3>1. calls'[d] = NULL /\ lock'[d] = "none" BY <1>1, <2>1
    <3> QED BY <3>1 DEF Fine, Busy
  <2>2. CASE d[1] # p
    <3>1. calls'[d] = calls[d] /\ lock'[d] = lock[d] /\ Fine(calls[d], lock[d], store)
       BY <1>1, <2>2 DEF IInv
    <3> QED BY <1>1, <3>1
  <2> QED BY <2>1, <2>2
<1>4. Exclusive' BY <1>1 DEF IInv, Exclusive
<1> QED BY <1>1, <1>2, <1>3, <1>4 DEF IInv

\* The invariant holds before the first call ...
LEMMA GdbmInit == Init => IInv
<1> SUFFICES ASSUME Init PROVE IInv
  OBVIOUS
<1>1. Types BY NullAssumption DEF NullAssumption, Init, Types
<1>2. \A c \in Callers : calls[c] = NULL /\ lock[c] = "none" BY DEF Init
<1>3. \A c \in Callers : Fine(calls[c], lock[c], store) BY <1>2 DEF Fine, Busy
<1> QED BY <1>1, <1>2, <1>3 DEF Init, IInv, Exclusive

\* ... every action keeps it ...
LEMMA GdbmNext == IInv /\ [Next]_vars => IInv'
<1> SUFFICES ASSUME IInv, [Next]_vars PROVE IInv'
  OBVIOUS
<1>1. CASE UNCHANGED vars BY <1>1 DEF vars, IInv, Types, Exclusive
<1>2. CASE Next
  <2>1. ASSUME NEW c \in Callers, Fetch(c) PROVE IInv'
     BY <2>1, AnsweredStep, RowStep
  <2>2. ASSUME NEW c \in Callers, CallbackReturns(c) PROVE IInv'
     BY <2>2, AnsweredStep, ListStep
  <2> QED
    BY <1>2, <2>1, <2>2, AroundStep, OpenStep, AnsweredStep, RowStep, CrashStep DEF Next
<1> QED BY <1>1, <1>2

\* ... and so it always holds.
LEMMA GdbmSafe == Spec => []IInv
BY GdbmInit, GdbmNext, PTL DEF Spec

---------------------------------------------------------------------------
(* The promise *)

\* What KeyValue sees of a call.
Answer(r) ==
    IF r.at = "answered" \/ (r.at = "callback" /\ r.cmd.op = "fetch")
    THEN [n |-> IF r.at = "callback" THEN 0 ELSE r.n, rows |-> r.rows]
    ELSE NULL

Seen(r) == IF r = NULL THEN NULL ELSE [cmd |-> r.cmd, answer |-> Answer(r)]

\* Promised is what is seen of every call.
LEMMA SeenCalls ==
    /\ Promised = [c \in Callers |-> Seen(calls[c])]
    /\ Promised' = [c \in Callers |-> Seen(calls'[c])]
<1>1. \A c \in Callers : calls[c] # NULL => AnswerOf(c) = Answer(calls[c])
   BY DEF AnswerOf, Answer, At, Op
<1>2. \A c \in Callers : calls'[c] # NULL => AnswerOf(c)' = Answer(calls'[c])
   BY DEF AnswerOf, Answer, At, Op
<1> QED BY <1>1, <1>2, Zenon DEF Promised, Seen

\* An answer is a record, and so is what is seen of a call.
LEMMA SeenRecords ==
    ASSUME NEW r \in Calls
    PROVE  /\ Seen(r) = [cmd |-> r.cmd, answer |-> Answer(r)] /\ Seen(r) # NULL
           /\ Answer(r) \in Answers \cup {NULL}
           /\ r.at = "answered" => Answer(r) = [n |-> r.n, rows |-> r.rows] /\ Answer(r) # NULL
           /\ r.at = "callback" /\ r.cmd.op = "fetch" =>
                 Answer(r) = [n |-> 0, rows |-> r.rows] /\ Answer(r) # NULL
           /\ r.at \in {"called", "open"} \/ (r.at = "callback" /\ r.cmd.op # "fetch") =>
                 Answer(r) = NULL
<1>1. r # NULL /\ r.cmd \in Commands /\ r.rows \in Seq(Data) /\ r.n \in {-1, 0} BY CallFields
<1>2. \A n \in {-1, 0}, rows \in Seq(Data) :
         [n |-> n, rows |-> rows] \in Answers /\ [n |-> n, rows |-> rows] # NULL
  <2>1. \A n \in {-1, 0}, rows \in Seq(Data) : [n |-> n, rows |-> rows] \in Answers
     BY DEF Answers
  <2>2. NULL \notin Answers BY NullAssumption DEF NullAssumption
  <2> QED BY <2>1, <2>2, Zenon
<1>3. r.at = "answered" => Answer(r) = [n |-> r.n, rows |-> r.rows] BY DEF Answer
<1>4. r.at = "callback" /\ r.cmd.op = "fetch" => Answer(r) = [n |-> 0, rows |-> r.rows]
   BY DEF Answer
<1>5. ~(r.at = "answered") /\ ~(r.at = "callback" /\ r.cmd.op = "fetch") => Answer(r) = NULL
   BY DEF Answer
<1>6. [n |-> r.n, rows |-> r.rows] \in Answers /\ [n |-> r.n, rows |-> r.rows] # NULL
   BY <1>1, <1>2, Zenon
<1>7. [n |-> 0, rows |-> r.rows] \in Answers /\ [n |-> 0, rows |-> r.rows] # NULL
  <2>1. 0 \in {-1, 0} OBVIOUS
  <2> QED BY <1>1, <1>2, <2>1, Zenon
<1>8. Answer(r) \in Answers \cup {NULL} BY <1>3, <1>4, <1>5, <1>6, <1>7
<1>9. Seen(r) = [cmd |-> r.cmd, answer |-> Answer(r)] /\ Seen(r) # NULL
  <2>1. Seen(r) = [cmd |-> r.cmd, answer |-> Answer(r)] BY <1>1 DEF Seen
  <2>2. \A m \in Commands, a \in Answers \cup {NULL} :
           [cmd |-> m, answer |-> a] \in [cmd : Commands, answer : Answers \cup {NULL}]
     OBVIOUS
  <2>3. NULL \notin [cmd : Commands, answer : Answers \cup {NULL}]
     BY NullAssumption DEF NullAssumption
  <2>4. [cmd |-> r.cmd, answer |-> Answer(r)] \in [cmd : Commands, answer : Answers \cup {NULL}]
     BY <1>1, <1>8, <2>2, Zenon
  <2>5. [cmd |-> r.cmd, answer |-> Answer(r)] # NULL BY <2>3, <2>4, Zenon
  <2> QED BY <2>1, <2>5
<1> QED BY <1>3, <1>4, <1>5, <1>6, <1>7, <1>8, <1>9

\* A caller's step that is seen, and one that is not.
LEMMA SeenStep ==
    ASSUME IInv, NEW c \in Callers, NEW r, calls' = [calls EXCEPT ![c] = r]
    PROVE  /\ Promised[c] = Seen(calls[c])
           /\ Promised' = [Promised EXCEPT ![c] = Seen(r)]
           /\ Seen(r) = Seen(calls[c]) => Promised' = Promised
<1>1. \A d \in Callers : calls'[d] = IF d = c THEN r ELSE calls[d]
   BY DEF IInv, Types
<1>2. Promised = [d \in Callers |-> Seen(calls[d])] BY SeenCalls
<1>3. Promised' = [d \in Callers |-> Seen(calls'[d])] BY SeenCalls
<1>4. Promised[c] = Seen(calls[c]) BY <1>2
<1>5. Promised' = [Promised EXCEPT ![c] = Seen(r)] BY <1>1, <1>2, <1>3
<1>6. Seen(r) = Seen(calls[c]) => Promised' = Promised BY <1>1, <1>2, <1>3
<1> QED BY <1>4, <1>5, <1>6

\* A list that has named every key of the file, and each of them once, is one of
\* the sequences of its keys.
LEMMA ListOfAll ==
    ASSUME NEW S, NEW T, NEW rows \in Seq(T), Once(rows),
           \A i \in 1 .. Len(rows) : rows[i] \in S,
           S \subseteq {rows[i] : i \in DOMAIN rows}
    PROVE  rows \in Promise!SetToSeqs(S)
<1>1. Len(rows) \in Nat /\ DOMAIN rows = 1 .. Len(rows) /\ rows \in [1 .. Len(rows) -> S]
   OBVIOUS
<1>2. rows \in Bijection(1 .. Len(rows), S)
   BY <1>1 DEF Once, Bijection, Injection, Surjection, IsInjective
<1>3. Cardinality(S) = Len(rows)
   BY <1>1, <1>2, FS_CountingElements DEF ExistsBijection
<1>4. Promise!Cardinality(S) = Cardinality(S) BY DEF Promise!Cardinality, Cardinality
<1>5. \A i, j \in 1 .. Len(rows) : i # j => rows[i] # rows[j] BY DEF Once
<1> QED BY <1>1, <1>3, <1>4, <1>5 DEF Promise!SetToSeqs

\* The step with which a command is answered, as it is seen.
LEMMA AnswerSeen ==
    ASSUME IInv, NEW c \in Callers, calls[c] \in Calls, Answer(calls[c]) = NULL,
           NEW r \in Calls, r.cmd = calls[c].cmd, calls' = [calls EXCEPT ![c] = r]
    PROVE  /\ Promised' = [Promised EXCEPT ![c].answer = Answer(r)]
           /\ Promise!Underway(c) /\ Promised[c].cmd = calls[c].cmd
<1>1. /\ Promised[c] = Seen(calls[c]) /\ Promised' = [Promised EXCEPT ![c] = Seen(r)]
   BY SeenStep
<1>2. /\ Seen(calls[c]) = [cmd |-> calls[c].cmd, answer |-> NULL] /\ Seen(calls[c]) # NULL
      /\ Seen(r) = [cmd |-> calls[c].cmd, answer |-> Answer(r)]
   BY SeenRecords
<1>3. [Promised[c] EXCEPT !.answer = Answer(r)] = Seen(r) BY <1>1, <1>2
<1>4. Promised' = [Promised EXCEPT ![c].answer = Answer(r)] BY <1>1, <1>3
<1>5. Promised[c].cmd = calls[c].cmd /\ Promised[c].answer = NULL /\ Promised[c] # NULL
   BY <1>1, <1>2
<1> QED BY <1>4, <1>5 DEF Promise!Underway

\* The record of a caller that goes on, is answered, or passes on a row.
LEMMA MovedRecord ==
    ASSUME IInv, NEW c \in Callers, calls[c] \in Calls, NEW at \in {"open", "callback"},
           Moved(c, at)
    PROVE  \E r \in Calls :
               /\ calls' = [calls EXCEPT ![c] = r]
               /\ r.at = at /\ r.cmd = calls[c].cmd
               /\ r.rows = calls[c].rows /\ r.n = calls[c].n
<1> DEFINE r == [calls[c] EXCEPT !.at = at]
<1>1. calls' = [calls EXCEPT ![c] = r] BY DEF Moved, IInv, Types
<1>2. /\ r \in Calls /\ r.at = at /\ r.cmd = calls[c].cmd
      /\ r.rows = calls[c].rows /\ r.n = calls[c].n
   BY MovedCall
<1> QED BY <1>1, <1>2

\* An action that answers leaves an answered call.
LEMMA AnsweredRecord ==
    ASSUME IInv, NEW c \in Callers, calls[c] \in Calls, NEW n \in {-1, 0}, Answered(c, n)
    PROVE  \E r \in Calls :
               /\ calls' = [calls EXCEPT ![c] = r]
               /\ r.cmd = calls[c].cmd
               /\ Answer(r) = [n |-> n, rows |-> calls[c].rows]
<1> DEFINE r == [calls[c] EXCEPT !.at = "answered", !.n = n]
<1>1. calls' = [calls EXCEPT ![c] = r] BY DEF Answered, IInv, Types
<1>2. /\ r \in Calls /\ r.at = "answered" /\ r.cmd = calls[c].cmd
      /\ r.rows = calls[c].rows /\ r.n = n
   BY AnsweredCall, ZenonT(60)
<1> HIDE DEF r
<1>3. Answer(r) = [n |-> n, rows |-> calls[c].rows] BY <1>2 DEF Answer
<1> QED BY <1>1, <1>2, <1>3

\* An action that gives a row to the callback leaves a call with one row more.
LEMMA RowRecord ==
    ASSUME IInv, NEW c \in Callers, calls[c] \in Calls, NEW x \in Data, CallBack(c, x)
    PROVE  \E r \in Calls :
               /\ calls' = [calls EXCEPT ![c] = r]
               /\ r.at = "callback" /\ r.cmd = calls[c].cmd
               /\ r.rows = Append(calls[c].rows, x)
<1>1. calls[c].rows \in Seq(Data) BY CallFields
<1>2. Append(calls[c].rows, x) \in Seq(Data) BY <1>1
<1>3. PICK rows \in Seq(Data) : rows = Append(calls[c].rows, x) BY <1>2, Zenon
<1>4. PICK r : r = [calls[c] EXCEPT !.at = "callback", !.rows = rows] OBVIOUS
<1>5. calls' = [calls EXCEPT ![c] = r] BY <1>3, <1>4 DEF CallBack, IInv, Types
<1>6. r \in Calls BY <1>4, RowCall, Zenon
<1>7. r.at = "callback" /\ r.cmd = calls[c].cmd /\ r.rows = rows BY <1>4 DEF Calls
<1> QED BY <1>3, <1>5, <1>6, <1>7

\* A command that is refused: there is no such command, nothing to read, somebody
\* else at work, or a failure of the library.
LEMMA RefusalSeen ==
    ASSUME IInv, Rebuilt, NEW c \in Callers, Problem(c) \/ OpenFails(c) \/ LibraryFails(c)
    PROVE  Promise!Refuse(c)
<1>1. /\ calls[c] # NULL /\ Answered(c, -1) /\ store' = store
      /\ calls[c].at = "called" \/ (calls[c].at = "open" /\ calls[c].cmd.op # "list")
   BY DEF Problem, OpenFails, LibraryFails, At, Op
<1>2. calls[c] \in Calls /\ Fine(calls[c], lock[c], store) BY <1>1, CallFine
<1>3. Answer(calls[c]) = NULL /\ calls[c].rows = <<>>
   BY <1>1, <1>2, SeenRecords DEF Fine, Busy
<1>4. PICK r \in Calls : /\ calls' = [calls EXCEPT ![c] = r] /\ r.cmd = calls[c].cmd
                         /\ Answer(r) = [n |-> -1, rows |-> calls[c].rows]
  <2>1. -1 \in {-1, 0} OBVIOUS
  <2> QED BY <1>1, <1>2, <2>1, AnsweredRecord
<1>5. /\ Promised' = [Promised EXCEPT ![c].answer = Promise!Refused]
      /\ Promise!Underway(c) /\ Promised[c].cmd = calls[c].cmd
  <2>1. Answer(r) = Promise!Refused BY <1>3, <1>4 DEF Promise!Refused
  <2> QED BY <1>2, <1>3, <1>4, <2>1, AnswerSeen
<1>6. \/ calls[c].cmd.op = "unknown"
      \/ ~Writes(calls[c].cmd) /\ store = NULL
      \/ calls[c].cmd \in Failing /\ calls[c].cmd.op \in {"store", "delete", "exists", "fetch"}
      \/ \E d \in Callers \ {c} :
            Promised[d] # NULL /\ (Writes(calls[c].cmd) \/ Writes(Promised[d].cmd))
  <2>1. CASE Problem(c)
    <3>1. cut = {} BY DEF IInv
    <3> QED BY <2>1, <3>1 DEF Problem, Malformed, Op
  <2>2. CASE OpenFails(c)
    <3>1. ~Free(c) BY <2>2 DEF OpenFails
    <3>2. CASE store = NULL /\ ~Writes(calls[c].cmd) BY <3>2
    <3>3. CASE \E d \in Callers \ {c} :
                  lock[d] # "none" /\ ~(lock[d] = "read" /\ ~Writes(calls[c].cmd))
      <4>1. PICK d \in Callers \ {c} :
               lock[d] # "none" /\ ~(lock[d] = "read" /\ ~Writes(calls[c].cmd))
         BY <3>3
      <4>2. calls[d] \in Calls /\ Fine(calls[d], lock[d], store)
        <5>1. Fine(calls[d], lock[d], store) BY CallFine
        <5>2. calls[d] # NULL BY <4>1, <5>1 DEF Fine
        <5> QED BY <5>2, CallFine
      <4>3. lock[d] \in {"none", "read", "write"} BY DEF IInv, Types
      <4>4. Writes(calls[c].cmd) \/ Writes(calls[d].cmd) BY <4>1, <4>2, <4>3 DEF Fine
      <4>5. Promised[d] = Seen(calls[d]) BY SeenCalls
      <4>6. Promised[d] = [cmd |-> calls[d].cmd, answer |-> Answer(calls[d])] /\ Promised[d] # NULL
         BY <4>2, <4>5, SeenRecords
      <4>7. Promised[d].cmd = calls[d].cmd BY <4>6
      <4> QED BY <4>1, <4>4, <4>6, <4>7
    <3> QED BY <3>1, <3>2, <3>3 DEF Free
  <2>3. CASE LibraryFails(c) BY <2>3 DEF LibraryFails, Op
  <2> QED BY <2>1, <2>2, <2>3
<1> QED
   BY <1>1, <1>5, <1>6 DEF Promise!Refuse, Promise!WellFormed, Promise!Writes, Writes

\* A command takes effect when its work is done on the open file: a fetch when the
\* value is passed on, a list when the last key has been.
LEMMA EffectSeen ==
    ASSUME IInv, NEW c \in Callers,
           Store(c) \/ Delete(c) \/ Reorganize(c) \/ Exists(c) \/ Fetch(c) \/ ListEnds(c)
    PROVE  Promise!Apply(c)
<1> DEFINE cmd == calls[c].cmd
           Result(a) == \E r \in Calls : /\ calls' = [calls EXCEPT ![c] = r] /\ r.cmd = cmd
                                         /\ Answer(r) = a
<1>1. /\ calls[c] # NULL /\ calls[c].at = "open" /\ Busy(calls[c])
      /\ cmd.op \in {"store", "delete", "reorganize", "exists", "fetch", "list"}
   BY DEF Store, Delete, Reorganize, Exists, Fetch, ListEnds, At, Op, Busy
<1>2. calls[c] \in Calls /\ Fine(calls[c], lock[c], store) BY <1>1, CallFine
<1>3. /\ Answer(calls[c]) = NULL /\ store # NULL /\ store \in Files
      /\ cmd.op # "list" => calls[c].rows = <<>>
  <2>1. Answer(calls[c]) = NULL BY <1>1, <1>2, SeenRecords
  <2>2. store # NULL /\ (cmd.op # "list" => calls[c].rows = <<>>) BY <1>1, <1>2 DEF Fine
  <2> QED BY <2>1, <2>2 DEF IInv, Types
<1>4. ASSUME NEW a, Result(a)
      PROVE  /\ Promised' = [Promised EXCEPT ![c].answer = a]
             /\ Promise!Underway(c) /\ Promised[c].cmd = cmd
   BY <1>2, <1>3, <1>4, AnswerSeen
<1>5. ASSUME NEW n \in {-1, 0}, Answered(c, n)
      PROVE  Result([n |-> n, rows |-> calls[c].rows])
  <2>1. PICK r \in Calls : /\ calls' = [calls EXCEPT ![c] = r] /\ r.cmd = calls[c].cmd
                           /\ Answer(r) = [n |-> n, rows |-> calls[c].rows]
     BY <1>2, <1>5, AnsweredRecord
  <2> QED BY <2>1
<1> HIDE DEF cmd, Result
<1>6. \E a \in Promise!Answers(cmd, store) : Result(a) /\ store' = Promise!After(cmd, store)
  <2>1. CASE Store(c)
    <3>1. /\ cmd.op = "store" /\ Answered(c, 0)
          /\ store' = [k \in DOMAIN store \cup {cmd.key} |->
                          IF k = cmd.key THEN cmd.value ELSE store[k]]
       BY <2>1 DEF Store, Op, cmd
    <3>2. Result([n |-> 0, rows |-> <<>>]) BY <1>3, <1>5, <3>1
    <3>3. [n |-> 0, rows |-> <<>>] \in Promise!Answers(cmd, store)
       BY <3>1 DEF Promise!Answers
    <3>4. store' = Promise!After(cmd, store) BY <3>1 DEF Promise!After, Promise!Put
    <3> QED BY <3>2, <3>3, <3>4
  <2>2. CASE Delete(c)
    <3>1. /\ cmd.op = "delete" /\ Answered(c, IF Found(c) THEN 0 ELSE -1)
          /\ store' = [k \in DOMAIN store \ {cmd.key} |-> store[k]]
          /\ Found(c) <=> cmd.key \in DOMAIN store
       BY <2>2 DEF Delete, Op, cmd, Found
    <3>2. Result([n |-> IF Found(c) THEN 0 ELSE -1, rows |-> <<>>]) BY <1>3, <1>5, <3>1
    <3>3. [n |-> IF Found(c) THEN 0 ELSE -1, rows |-> <<>>] \in Promise!Answers(cmd, store)
       BY <3>1 DEF Promise!Answers, Promise!Refused
    <3>4. store' = Promise!After(cmd, store) BY <3>1 DEF Promise!After, Promise!Without
    <3> QED BY <3>2, <3>3, <3>4
  <2>3. CASE Reorganize(c)
    <3>1. cmd.op = "reorganize" /\ Answered(c, 0) /\ store' = store
       BY <2>3 DEF Reorganize, Op, cmd
    <3>2. Result([n |-> 0, rows |-> <<>>]) BY <1>3, <1>5, <3>1
    <3>3. [n |-> 0, rows |-> <<>>] \in Promise!Answers(cmd, store)
       BY <3>1 DEF Promise!Answers
    <3>4. store' = Promise!After(cmd, store) BY <3>1 DEF Promise!After
    <3> QED BY <3>2, <3>3, <3>4
  <2>4. CASE Exists(c)
    <3>1. /\ cmd.op = "exists" /\ Answered(c, IF Found(c) THEN 0 ELSE -1) /\ store' = store
          /\ Found(c) <=> cmd.key \in DOMAIN store
       BY <2>4 DEF Exists, Op, cmd, Found
    <3>2. Result([n |-> IF Found(c) THEN 0 ELSE -1, rows |-> <<>>]) BY <1>3, <1>5, <3>1
    <3>3. [n |-> IF Found(c) THEN 0 ELSE -1, rows |-> <<>>] \in Promise!Answers(cmd, store)
       BY <3>1 DEF Promise!Answers, Promise!Refused
    <3>4. store' = Promise!After(cmd, store) BY <3>1 DEF Promise!After
    <3> QED BY <3>2, <3>3, <3>4
  <2>5. CASE Fetch(c) /\ ~Found(c)
    <3>1. cmd.op = "fetch" /\ Answered(c, -1) /\ store' = store /\ cmd.key \notin DOMAIN store
       BY <2>5 DEF Fetch, Op, cmd, Found
    <3>2. Result([n |-> -1, rows |-> <<>>]) BY <1>3, <1>5, <3>1
    <3>3. Promise!Answers(cmd, store) = {Promise!Refused} BY <3>1 DEF Promise!Answers
    <3>4. [n |-> -1, rows |-> <<>>] = Promise!Refused BY DEF Promise!Refused
    <3>5. store' = Promise!After(cmd, store) BY <3>1 DEF Promise!After
    <3> QED BY <3>2, <3>3, <3>4, <3>5
  <2>6. CASE Fetch(c) /\ Found(c)
    <3>1. /\ cmd.op = "fetch" /\ CallBack(c, store[cmd.key]) /\ store' = store
          /\ cmd.key \in DOMAIN store
       BY <2>6 DEF Fetch, Op, cmd, Found
    <3>2. store[cmd.key] \in Data BY <1>3, <3>1, FileSteps
    <3>3. PICK r \in Calls : /\ calls' = [calls EXCEPT ![c] = r]
                             /\ r.at = "callback" /\ r.cmd = cmd
                             /\ r.rows = Append(calls[c].rows, store[cmd.key])
       BY <1>2, <3>1, <3>2, RowRecord DEF cmd
    <3>4. r.rows = <<store[cmd.key]>>
      <4>1. calls[c].rows = <<>> BY <1>3, <3>1
      <4>2. \A x : Append(<<>>, x) = <<x>> OBVIOUS
      <4> QED BY <3>3, <4>1, <4>2
    <3>5. Answer(r) = [n |-> 0, rows |-> <<store[cmd.key]>>] BY <3>1, <3>3, <3>4 DEF Answer
    <3>6. Result([n |-> 0, rows |-> <<store[cmd.key]>>]) BY <3>3, <3>5 DEF Result
    <3>7. [n |-> 0, rows |-> <<store[cmd.key]>>] \in Promise!Answers(cmd, store)
       BY <3>1 DEF Promise!Answers
    <3>8. store' = Promise!After(cmd, store) BY <3>1 DEF Promise!After
    <3> QED BY <3>6, <3>7, <3>8
  <2>7. CASE ListEnds(c)
    <3>1. /\ cmd.op = "list" /\ Answered(c, 0) /\ store' = store
          /\ \/ DOMAIN store \subseteq {calls[c].rows[i] : i \in DOMAIN calls[c].rows}
             \/ cmd \in Failing
       BY <2>7 DEF ListEnds, Op, cmd, Listed
    <3>2. Result([n |-> 0, rows |-> calls[c].rows]) BY <1>5, <3>1
    <3>3. /\ calls[c].rows \in Seq(Data) /\ Once(calls[c].rows)
          /\ \A i \in 1 .. Len(calls[c].rows) : calls[c].rows[i] \in DOMAIN store
       BY <1>1, <1>2, <3>1, CallFields DEF Fine, cmd
    <3> DEFINE K == {calls[c].rows[i] : i \in DOMAIN calls[c].rows}
    <3>4. K \in SUBSET DOMAIN store BY <3>3
    <3>5. K \in Promise!Listings(cmd, store) BY <3>1, <3>4 DEF Promise!Listings
    <3>6. calls[c].rows \in Promise!SetToSeqs(K)
      <4>1. calls[c].rows \in Seq(Data) /\ \A i \in 1 .. Len(calls[c].rows) : calls[c].rows[i] \in K
         BY <3>3
      <4>2. K \subseteq {calls[c].rows[i] : i \in DOMAIN calls[c].rows} OBVIOUS
      <4> HIDE DEF K
      <4> QED BY <3>3, <4>1, <4>2, ListOfAll, Zenon
    <3> HIDE DEF K
    <3>7. calls[c].rows \in UNION {Promise!SetToSeqs(L) : L \in Promise!Listings(cmd, store)}
       BY <3>5, <3>6, Zenon
    <3>8. [n |-> 0, rows |-> calls[c].rows] \in Promise!Answers(cmd, store)
       BY <3>1, <3>7 DEF Promise!Answers
    <3>9. store' = Promise!After(cmd, store) BY <3>1 DEF Promise!After
    <3> QED BY <3>2, <3>8, <3>9
  <2> QED BY <2>1, <2>2, <2>3, <2>4, <2>5, <2>6, <2>7
<1>7. PICK a \in Promise!Answers(cmd, store) : Result(a) /\ store' = Promise!After(cmd, store)
   BY <1>6
<1>8. /\ Promised' = [Promised EXCEPT ![c].answer = a]
      /\ Promise!Underway(c) /\ Promised[c].cmd = cmd
   BY <1>4, <1>7, Zenon
<1>9. Promise!WellFormed(cmd) BY <1>1 DEF Promise!WellFormed, cmd
<1> QED BY <1>3, <1>7, <1>8, <1>9, Zenon DEF Promise!Apply

\* The steps of a command between its call and its effect, and between that and its
\* return, are not seen, but for the file that a command makes.
LEMMA HiddenSeen ==
    ASSUME IInv, NEW c \in Callers, Open(c) \/ ListKey(c) \/ CallbackReturns(c)
    PROVE  (Promised' = Promised /\ store' = store) \/ Promise!Create(c)
<1>1. calls[c] # NULL /\ calls[c].at \in {"called", "open", "callback"}
   BY DEF Open, ListKey, CallbackReturns, At
<1>2. calls[c] \in Calls /\ Fine(calls[c], lock[c], store) BY <1>1, CallFine
<1>3. ASSUME NEW r \in Calls, calls' = [calls EXCEPT ![c] = r], r.cmd = calls[c].cmd,
             Answer(r) = Answer(calls[c])
      PROVE  Promised' = Promised
  <2>1. Seen(r) = Seen(calls[c]) BY <1>2, <1>3, SeenRecords
  <2> QED BY <1>3, <2>1, SeenStep
<1>4. CASE Open(c)
  <2>1. /\ calls[c].at = "called" /\ Moved(c, "open")
        /\ store' = IF store = NULL THEN <<>> ELSE store
        /\ store = NULL => Writes(calls[c].cmd)
     BY <1>4 DEF Open, At, Free
  <2>2. PICK r \in Calls : /\ calls' = [calls EXCEPT ![c] = r]
                           /\ r.at = "open" /\ r.cmd = calls[c].cmd
     BY <1>2, <2>1, MovedRecord
  <2>3. Answer(r) = NULL /\ Answer(calls[c]) = NULL BY <1>2, <2>1, <2>2, SeenRecords
  <2>4. Promised' = Promised BY <1>3, <2>2, <2>3
  <2>5. CASE store = NULL
    <3>1. Promised[c] = [cmd |-> calls[c].cmd, answer |-> NULL] /\ Promised[c] # NULL
       BY <1>2, <2>3, SeenCalls, SeenRecords
    <3>2. Promise!Underway(c) /\ Promised[c].cmd = calls[c].cmd
       BY <3>1 DEF Promise!Underway
    <3> QED BY <2>1, <2>4, <2>5, <3>2 DEF Promise!Create, Promise!Writes, Writes
  <2> QED BY <2>1, <2>4, <2>5
<1>5. CASE ListKey(c)
  <2>1. /\ calls[c].at = "open" /\ calls[c].cmd.op = "list" /\ store' = store
        /\ \E k \in DOMAIN store : CallBack(c, k)
     BY <1>5 DEF ListKey, At, Op
  <2>2. Busy(calls[c]) BY <1>1, <2>1 DEF Busy
  <2>3. store \in Files BY <1>2, <2>2 DEF Fine, IInv, Types
  <2>4. PICK k \in Data : CallBack(c, k) BY <2>1, <2>3, FileSteps
  <2>5. PICK r \in Calls : /\ calls' = [calls EXCEPT ![c] = r]
                           /\ r.at = "callback" /\ r.cmd = calls[c].cmd
     BY <1>2, <2>4, RowRecord
  <2>6. Answer(r) = NULL /\ Answer(calls[c]) = NULL BY <1>2, <2>1, <2>5, SeenRecords
  <2> QED BY <1>3, <2>1, <2>5, <2>6
<1>6. CASE CallbackReturns(c)
  <2>1. calls[c].at = "callback" /\ store' = store BY <1>6 DEF CallbackReturns, At
  <2>2. CASE calls[c].cmd.op = "list"
    <3>1. Moved(c, "open") BY <1>6, <2>2 DEF CallbackReturns, Op
    <3>2. PICK r \in Calls : /\ calls' = [calls EXCEPT ![c] = r]
                             /\ r.at = "open" /\ r.cmd = calls[c].cmd
       BY <1>2, <3>1, MovedRecord
    <3>3. Answer(r) = NULL /\ Answer(calls[c]) = NULL BY <1>2, <2>1, <2>2, <3>2, SeenRecords
    <3> QED BY <1>3, <2>1, <3>2, <3>3
  <2>3. CASE calls[c].cmd.op # "list"
    <3>1. calls[c].cmd.op = "fetch" BY <1>2, <1>1, <2>1, <2>3 DEF Fine
    <3>2. Answered(c, 0) BY <1>6, <2>3 DEF CallbackReturns, Op
    <3>3. PICK r \in Calls : /\ calls' = [calls EXCEPT ![c] = r] /\ r.cmd = calls[c].cmd
                             /\ Answer(r) = [n |-> 0, rows |-> calls[c].rows]
       BY <1>2, <3>2, AnsweredRecord
    <3>4. Answer(calls[c]) = [n |-> 0, rows |-> calls[c].rows]
       BY <1>2, <2>1, <3>1, SeenRecords
    <3> QED BY <1>3, <2>1, <3>3, <3>4
  <2> QED BY <2>2, <2>3
<1> QED BY <1>4, <1>5, <1>6

\* Calls, returns and the death of a process are seen as they are.
LEMMA CallSeen ==
    ASSUME IInv, NEW c \in Callers, NEW cmd \in Commands, Call(c, cmd)
    PROVE  Promise!Call(c, cmd)
<1> DEFINE r == [cmd |-> cmd, at |-> "called", rows |-> <<>>, n |-> -1]
<1>1. calls' = [calls EXCEPT ![c] = r] /\ calls[c] = NULL /\ store' = store BY DEF Call
<1>2. r \in Calls /\ r.cmd = cmd /\ r.at = "called" BY DEF Calls
<1> HIDE DEF r
<1>3. Seen(r) = [cmd |-> cmd, answer |-> NULL] BY <1>2, SeenRecords
<1>4. Promised[c] = NULL BY <1>1, SeenStep DEF Seen
<1>5. Promised' = [Promised EXCEPT ![c] = [cmd |-> cmd, answer |-> NULL]]
   BY <1>1, <1>3, SeenStep, ZenonT(60)
<1> QED BY <1>1, <1>4, <1>5 DEF Promise!Call

\* Closing the file is the return that KeyValue allows.
LEMMA ReturnSeen ==
    ASSUME IInv, NEW c \in Callers, Close(c)
    PROVE  Promise!Return(c)
<1>1. /\ calls' = [calls EXCEPT ![c] = NULL] /\ store' = store
      /\ calls[c] # NULL /\ calls[c].at = "answered"
   BY DEF Close, At
<1>2. calls[c] \in Calls BY <1>1, CallFine
<1>3. /\ Promised[c] = [cmd |-> calls[c].cmd, answer |-> Answer(calls[c])]
      /\ Promised[c] # NULL /\ Answer(calls[c]) # NULL
   BY <1>1, <1>2, SeenStep, SeenRecords
<1>4. Promised[c].answer # NULL BY <1>3
<1>5. Promised' = [Promised EXCEPT ![c] = NULL] BY <1>1, SeenStep DEF Seen
<1> QED BY <1>1, <1>3, <1>4, <1>5 DEF Promise!Return

\* A crash ends all calls of its process, those of its callbacks included.
LEMMA CrashSeen ==
    ASSUME NEW p \in Procs, Crash(p)
    PROVE  \E C \in SUBSET Callers : Promise!Crash(C)
<1> DEFINE C == {c \in Callers : c[1] = p}
<1>1. /\ store' = store
      /\ \A d \in Callers : calls'[d] = IF d \in C THEN NULL ELSE calls[d]
   BY DEF Crash
<1>2. \A d \in Callers : Seen(calls'[d]) = IF d \in C THEN NULL ELSE Promised[d]
   BY <1>1, SeenCalls DEF Seen
<1>3. Promised' = [d \in Callers |-> IF d \in C THEN NULL ELSE Promised[d]]
   BY <1>2, SeenCalls
<1>4. Promise!Crash(C) BY <1>1, <1>3 DEF Promise!Crash
<1>5. C \in SUBSET Callers OBVIOUS
<1> QED BY <1>4, <1>5

---------------------------------------------------------------------------
(* The properties *)

\* Files hold the data of the commands, and whoever works on one has locked it, for
\* itself alone if it writes (gdbm_driver.c:62-98).
THEOREM TypeOKAlways == Spec => []TypeOK
<1>1. IInv => TypeOK
  <2> SUFFICES ASSUME IInv PROVE TypeOK
    OBVIOUS
  <2>1. ASSUME NEW c \in Callers
        PROVE  /\ At(c, "open") => lock[c] = IF Writes(calls[c].cmd) THEN "write" ELSE "read"
               /\ At(c, "callback") => lock[c] = "read"
               /\ At(c, "called") \/ calls[c] = NULL => lock[c] = "none"
    <3>1. Fine(calls[c], lock[c], store) BY DEF IInv
    <3> QED BY <3>1 DEF Fine, Busy, At, Writes
  <2> QED BY <2>1 DEF TypeOK, IInv, Types
<1> QED BY <1>1, GdbmSafe, PTL

\* Any number of processes, and of commands that callbacks give: every command takes
\* effect at one moment and on the whole file, a list names each key of one moment
\* once, or some of them if the library fails, and a command is refused for one of
\* the four reasons only, where a query string is written anew for each call
\* (gdbm_driver.c:86-180).
THEOREM CommandsAreAtomicAlways ==
    ASSUME Rebuilt
    PROVE  Spec => CommandsAreAtomic
<1>1. Init => Promise!Init
  <2> SUFFICES ASSUME Init PROVE Promise!Init
    OBVIOUS
  <2>1. \A c \in Callers : Seen(calls[c]) = NULL BY DEF Init, Seen
  <2>2. Promised = [c \in Callers |-> NULL] BY <2>1, SeenCalls
  <2> QED BY <2>2 DEF Init, Promise!Init
<1>2. IInv /\ [Next]_vars => [Promise!Next]_Promise!kvars
  <2> SUFFICES ASSUME IInv, [Next]_vars PROVE [Promise!Next]_Promise!kvars
    OBVIOUS
  <2>1. CASE UNCHANGED vars
    <3>1. Promised' = Promised /\ store' = store BY <2>1, SeenCalls DEF vars
    <3> QED BY <3>1 DEF Promise!kvars
  <2>2. ASSUME NEW c \in Callers, NEW cmd \in Commands, Call(c, cmd)
        PROVE  Promise!Next
    BY <2>2, CallSeen DEF Promise!Next
  <2>3. ASSUME NEW c \in Callers,
               \/ Problem(c) \/ OpenFails(c) \/ LibraryFails(c)
               \/ Store(c) \/ Delete(c) \/ Reorganize(c)
               \/ Exists(c) \/ Fetch(c) \/ ListEnds(c) \/ Close(c)
        PROVE  Promise!Next
    BY <2>3, RefusalSeen, EffectSeen, ReturnSeen DEF Promise!Next
  <2>4. ASSUME NEW c \in Callers, Open(c) \/ ListKey(c) \/ CallbackReturns(c)
        PROVE  [Promise!Next]_Promise!kvars
    BY <2>4, HiddenSeen DEF Promise!Next, Promise!kvars
  <2>5. ASSUME NEW p \in Procs, Crash(p) PROVE Promise!Next
    BY <2>5, CrashSeen DEF Promise!Next
  <2> QED BY <2>1, <2>2, <2>3, <2>4, <2>5 DEF Next
<1> QED BY <1>1, <1>2, GdbmSafe, PTL DEF Spec, CommandsAreAtomic, Promise!Spec
=============================================================================
