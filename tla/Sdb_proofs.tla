----------------------------- MODULE Sdb_proofs -----------------------------
(***************************************************************************)
(* Proofs about sdb.c: its connection table (SdbConn) and its driver table *)
(* (SdbRegistry).                                                          *)
(*                                                                         *)
(* For the connection table the slots, urls, addresses, rows and nested    *)
(* queries may be any.  NothingLost holds whatever ids the application     *)
(* closes; the other results are about an application that closes only the *)
(* ids it holds (StaleIds = FALSE).                                        *)
(*                                                                         *)
(* For the driver table the drivers, names and connections may be any, and *)
(* the application may register drivers whenever and as often as it likes. *)
(***************************************************************************)
EXTENDS SdbConn, SdbRegistry, SequenceTheorems, FiniteSetTheorems, TLAPS

---------------------------------------------------------------------------
(* The connection table: lemmas about the operators *)

\* A driver that gets a connection back gets one that nobody is using.
LEMMA OpenResultFresh ==
    ASSUME NEW u, NEW db \in OpenResult(u), db # NULL
    PROVE  db \in Addrs /\ mem[db] = NULL
BY DEF OpenResult, Free

\* The memory stays well typed when an object appears or goes.
LEMMA MemoryTyped ==
    ASSUME TypeOK, NEW u \in Served, NEW db \in Addrs \cup {NULL}
    PROVE  /\ Allocated(db, u) \in [Addrs -> Served \cup {NULL}]
           /\ Freed(db) \in [Addrs -> Served \cup {NULL}]
BY DEF TypeOK, Allocated, Freed

\* What a driver may have followed is well typed.
LEMMA TouchTyped ==
    ASSUME TypeOK, NEW db \in Addrs \cup {NULL}, NEW cut \in BOOLEAN
    PROVE  Touch(db, cut) \subseteq Misuse
<1>1. db # NULL => [at |-> db, cut |-> cut] \in Misuse BY DEF Misuse
<1> QED BY <1>1 DEF TypeOK, Touch

\* A query in progress is well typed, and so is what is left when it returns.
LEMMA CallsTyped ==
    ASSUME TypeOK, calls # <<>>
    PROVE  /\ Len(calls) \in DOMAIN calls
           /\ Top \in Frame
           /\ SubSeq(calls, 1, Len(calls) - 1) \in Seq(Frame)
           /\ Len(SubSeq(calls, 1, Len(calls) - 1)) = Len(calls) - 1
           /\ \A i \in 1 .. Len(calls) - 1 :
                 SubSeq(calls, 1, Len(calls) - 1)[i] = calls[i]
<1>1. calls \in Seq(Frame) BY DEF TypeOK
<1>2. Len(calls) \in Nat \ {0} BY <1>1
<1>3. Len(calls) \in DOMAIN calls BY <1>1, <1>2
<1>4. Top \in Frame BY <1>1, <1>3 DEF Top
<1> DEFINE n == Len(calls) - 1
<1>5. n \in Nat /\ \A i \in 1 .. n : calls[i] \in Frame BY <1>1, <1>2
<1> HIDE DEF n
<1>6. /\ SubSeq(calls, 1, n) \in Seq(Frame)
      /\ Len(SubSeq(calls, 1, n)) = IF 1 <= n THEN n - 1 + 1 ELSE 0
      /\ \A i \in 1 .. n - 1 + 1 : SubSeq(calls, 1, n)[i] = calls[1 + i - 1]
   BY <1>5, SubSeqProperties
<1>7. Len(SubSeq(calls, 1, n)) = n /\ \A i \in 1 .. n : SubSeq(calls, 1, n)[i] = calls[i]
   BY <1>5, <1>6
<1> QED BY <1>3, <1>4, <1>6, <1>7 DEF n

\* Starting a query pushes one well-typed frame.
LEMMA PushTyped ==
    ASSUME ConnAssumption, TypeOK, NEW j \in Slots \cup {NULL}, NEW u \in Served,
           NEW db \in Addrs \cup {NULL}, NEW own \in BOOLEAN, Push(j, u, db, own)
    PROVE  /\ calls' \in Seq(Frame)
           /\ Len(calls) \in Nat
           /\ DOMAIN calls = 1 .. Len(calls)
           /\ DOMAIN calls' = 1 .. Len(calls) + 1
           /\ \A i \in 1 .. Len(calls) : calls'[i] = calls[i]
           /\ calls'[Len(calls) + 1] =
                 [slot |-> j, url |-> u, db |-> db, own |-> own,
                  rows |-> 0, inCallback |-> FALSE, cut |-> FALSE]
<1> DEFINE f == [slot |-> j, url |-> u, db |-> db, own |-> own,
                 rows |-> 0, inCallback |-> FALSE, cut |-> FALSE]
<1>1. f \in Frame BY DEF Frame, ConnAssumption
<1>2. calls \in Seq(Frame) /\ calls' = Append(calls, f) BY DEF TypeOK, Push
<1> HIDE DEF f
<1>3. Len(calls) \in Nat /\ DOMAIN calls = 1 .. Len(calls) BY <1>2
<1>4. calls' \in Seq(Frame) /\ Len(calls') = Len(calls) + 1 BY <1>1, <1>2
<1>5. DOMAIN calls' = 1 .. Len(calls) + 1 BY <1>4
<1>6. /\ \A i \in 1 .. Len(calls) : calls'[i] = calls[i]
      /\ calls'[Len(calls) + 1] = f
   BY <1>1, <1>2
<1> QED BY <1>3, <1>4, <1>5, <1>6 DEF f

\* Delivering a row changes only how far the innermost query has come.
LEMMA StepTyped ==
    ASSUME ConnAssumption, TypeOK, FetchRow \/ CallbackReturns
    PROVE  /\ calls' \in Seq(Frame)
           /\ DOMAIN calls' = DOMAIN calls
           /\ \A i \in DOMAIN calls : /\ calls'[i].slot = calls[i].slot
                                     /\ calls'[i].url = calls[i].url
                                     /\ calls'[i].db = calls[i].db
                                     /\ calls'[i].own = calls[i].own
                                     /\ calls'[i].cut = calls[i].cut
<1>1. calls \in Seq(Frame) /\ calls # <<>> BY DEF TypeOK, FetchRow, CallbackReturns
<1>2. Len(calls) \in DOMAIN calls /\ Top \in Frame BY <1>1, CallsTyped
<1>3. PICK f \in Frame : /\ calls' = [calls EXCEPT ![Len(calls)] = f]
                         /\ f.slot = Top.slot /\ f.url = Top.url
                         /\ f.db = Top.db /\ f.own = Top.own /\ f.cut = Top.cut
  <2>1. CASE FetchRow
    <3> DEFINE f == [Top EXCEPT !.inCallback = TRUE, !.rows = @ + 1]
    <3>1. Top.rows + 1 \in 0 .. MaxRows
       BY <1>2, <2>1 DEF FetchRow, Frame, ConnAssumption
    <3>2. f \in Frame BY <1>2, <3>1 DEF Frame
    <3>3. calls' = [calls EXCEPT ![Len(calls)] = f] BY <1>1, <1>2, <2>1 DEF FetchRow, Top
    <3> QED BY <1>2, <3>2, <3>3 DEF Frame
  <2>2. CASE CallbackReturns
    <3> DEFINE f == [Top EXCEPT !.inCallback = FALSE]
    <3>1. f \in Frame BY <1>2 DEF Frame
    <3>2. calls' = [calls EXCEPT ![Len(calls)] = f] BY <1>1, <1>2, <2>2 DEF CallbackReturns, Top
    <3> QED BY <1>2, <3>1, <3>2 DEF Frame
  <2> QED BY <2>1, <2>2
<1> QED BY <1>1, <1>2, <1>3 DEF Top

\* Closing an id marks the queries that were given its connection, and changes
\* nothing else of them.
LEMMA CutTyped ==
    ASSUME TypeOK, NEW j \in Slots
    PROVE  /\ Cut(j) \in Seq(Frame)
           /\ DOMAIN Cut(j) = DOMAIN calls
           /\ \A i \in DOMAIN calls :
                 /\ Cut(j)[i].slot = calls[i].slot
                 /\ Cut(j)[i].url = calls[i].url
                 /\ Cut(j)[i].db = calls[i].db
                 /\ Cut(j)[i].own = calls[i].own
                 /\ calls[i].slot = j /\ ~calls[i].own => Cut(j)[i].cut = TRUE
                 /\ ~(calls[i].slot = j /\ ~calls[i].own) => Cut(j)[i].cut = calls[i].cut
<1>1. calls \in Seq(Frame) BY DEF TypeOK
<1>2. Len(calls) \in Nat /\ DOMAIN calls = 1 .. Len(calls) BY <1>1
<1> DEFINE g(i) == IF calls[i].slot = j /\ ~calls[i].own
                   THEN [calls[i] EXCEPT !.cut = TRUE] ELSE calls[i]
<1>3. ASSUME NEW i \in DOMAIN calls
      PROVE  /\ g(i) \in Frame
             /\ g(i).slot = calls[i].slot /\ g(i).url = calls[i].url
             /\ g(i).db = calls[i].db /\ g(i).own = calls[i].own
             /\ calls[i].slot = j /\ ~calls[i].own => g(i).cut = TRUE
             /\ ~(calls[i].slot = j /\ ~calls[i].own) => g(i).cut = calls[i].cut
  <2>1. calls[i] \in Frame BY <1>1
  <2>2. CASE calls[i].slot = j /\ ~calls[i].own BY <2>1, <2>2 DEF Frame
  <2>3. CASE ~(calls[i].slot = j /\ ~calls[i].own) BY <2>1, <2>3 DEF Frame
  <2> QED BY <2>2, <2>3
<1>4. Cut(j) = [i \in DOMAIN calls |-> g(i)] BY DEF Cut
<1> HIDE DEF g
<1>5. Cut(j) \in Seq(Frame)
  <2>1. Cut(j) \in [1 .. Len(calls) -> Frame] BY <1>2, <1>3, <1>4
  <2> QED BY <1>2, <2>1, SeqDef
<1> QED BY <1>3, <1>4, <1>5

---------------------------------------------------------------------------
(* Type correctness *)

\* Every action keeps the types.
LEMMA TypeStep == TypeOK /\ [Next]_vars => TypeOK'
<1> USE ConnAssumption
<1> SUFFICES ASSUME TypeOK, [Next]_vars PROVE TypeOK'
  OBVIOUS
<1>1. ASSUME NEW u \in Urls, NEW db \in Addrs \cup {NULL}, NEW j \in Slots,
             Open(u, db, j)
      PROVE  TypeOK'
  <2>1. mem' \in [Addrs -> Served \cup {NULL}] BY <1>1, MemoryTyped DEF Open
  <2> QED BY <1>1, <2>1 DEF TypeOK, Open
<1>2. ASSUME NEW u \in Urls, NEW db \in Addrs \cup {NULL}, OpenTooMany(u, db)
      PROVE  TypeOK'
  <2>1. mem' \in [Addrs -> Served \cup {NULL}] BY <1>2, MemoryTyped DEF OpenTooMany
  <2> QED BY <1>2, <2>1 DEF TypeOK, OpenTooMany, Forgotten
<1>3. ASSUME NEW j \in Slots \cup {NULL}, NEW u \in Served,
             NEW pdb \in Addrs \cup {NULL}, StartQuery(j, u, pdb)
      PROVE  TypeOK'
  <2>1. CASE Push(j, u, pdb, FALSE) /\ misused' = Touch(pdb, FALSE) /\ UNCHANGED mem
    <3>1. calls' \in Seq(Frame) BY <2>1, PushTyped
    <3>2. misused' \subseteq Misuse BY <2>1, TouchTyped
    <3> QED BY <1>3, <2>1, <3>1, <3>2 DEF TypeOK, StartQuery
  <2>2. ASSUME NEW db \in Free, Push(j, u, db, TRUE), mem' = Allocated(db, u),
               UNCHANGED misused
        PROVE  TypeOK'
    <3>1. db \in Addrs BY DEF Free
    <3>2. calls' \in Seq(Frame) BY <2>2, <3>1, PushTyped
    <3>3. mem' \in [Addrs -> Served \cup {NULL}] BY <2>2, <3>1, MemoryTyped
    <3> QED BY <1>3, <2>2, <3>2, <3>3 DEF TypeOK, StartQuery
  <2> QED BY <1>3, <2>1, <2>2 DEF StartQuery
<1>4. ASSUME NEW j \in Slots, QueryById(j) PROVE TypeOK'
  <2>1. conn[j].db \in Addrs \cup {NULL} /\ conn[j].url \in Served
     BY <1>4 DEF TypeOK, QueryById, Live
  <2> QED BY <1>3, <1>4, <2>1 DEF QueryById
<1>5. ASSUME NEW u \in Urls, QueryByUrl(u) PROVE TypeOK'
  BY <1>3, <1>5 DEF QueryByUrl
<1>6. CASE FetchRow \/ CallbackReturns
  <2>1. calls' \in Seq(Frame) BY <1>6, StepTyped
  <2>2. calls # <<>> /\ (misused' = misused \/ misused' = Touch(Top.db, Top.cut))
     BY <1>6 DEF FetchRow, CallbackReturns
  <2>3. Top.db \in Addrs \cup {NULL} /\ Top.cut \in BOOLEAN
     BY <2>2, CallsTyped DEF Frame
  <2>4. misused' \subseteq Misuse BY <2>2, <2>3, TouchTyped DEF TypeOK
  <2> QED BY <1>6, <2>1, <2>4 DEF TypeOK, FetchRow, CallbackReturns
<1>7. CASE QueryReturns \/ QueryFails
  <2>1. /\ calls # <<>> /\ calls' = SubSeq(calls, 1, Len(calls) - 1)
        /\ UNCHANGED <<conn, held, exited>>
        /\ misused' = Touch(Top.db, Top.cut)
        /\ mem' = Freed(Top.db) \/ mem' = mem
        /\ leaked' = leaked \/ leaked' = Forgotten(Top.db)
     BY <1>7 DEF QueryReturns, QueryFails
  <2>2. Top \in Frame /\ SubSeq(calls, 1, Len(calls) - 1) \in Seq(Frame)
     BY <2>1, CallsTyped
  <2>3. Top.db \in Addrs \cup {NULL} /\ Top.cut \in BOOLEAN BY <2>2 DEF Frame
  <2>4. mem' \in [Addrs -> Served \cup {NULL}] BY <2>1, <2>3 DEF TypeOK, Freed
  <2>5. misused' \subseteq Misuse BY <2>1, <2>3, TouchTyped
  <2>6. leaked' \subseteq Addrs BY <2>1, <2>3 DEF TypeOK, Forgotten
  <2> QED BY <2>1, <2>2, <2>4, <2>5, <2>6 DEF TypeOK
<1>8. ASSUME NEW j \in Slots, Close(j) PROVE TypeOK'
  <2>1. conn[j].db \in Addrs \cup {NULL} BY DEF TypeOK
  <2>2. mem' \in [Addrs -> Served \cup {NULL}] BY <1>8, <2>1 DEF Close, TypeOK, Freed
  <2>3. misused' \subseteq Misuse BY <1>8, <2>1, TouchTyped DEF Close
  <2>4. calls' \in Seq(Frame) BY <1>8, CutTyped DEF Close
  <2>5. conn' \in [Slots -> [url : Served \cup {NULL}, db : Addrs \cup {NULL}]]
        /\ held' \in [Slots -> Served \cup {NULL}]
     BY <1>8 DEF TypeOK, Close
  <2>6. leaked' = leaked /\ exited' = exited BY <1>8 DEF Close
  <2> QED BY <2>2, <2>3, <2>4, <2>5, <2>6 DEF TypeOK
<1>9. CASE Exit
  <2>1. PICK A \in SUBSET Addrs : misused' = misused \cup [at : A, cut : {FALSE}]
    <3> DEFINE dbs == {conn[j].db : j \in {k \in Slots : Live(k)}} \ {NULL}
               twice == {a \in dbs : \E j, k \in Slots :
                            /\ j # k /\ Live(j) /\ Live(k)
                            /\ conn[j].db = a /\ conn[k].db = a}
               A == {a \in dbs : mem[a] = NULL} \cup twice
    <3>1. \A j \in Slots : conn[j].db \in Addrs \cup {NULL} BY DEF TypeOK
    <3>2. A \in SUBSET Addrs BY <3>1
    <3>3. misused' = misused \cup [at : A, cut : {FALSE}] BY <1>9 DEF Exit
    <3> QED BY <3>2, <3>3
  <2>2. \A m \in [at : A, cut : {FALSE}] : m \in Misuse BY DEF Misuse
  <2>3. misused' \subseteq Misuse BY <2>1, <2>2 DEF TypeOK
  <2>4. mem' \in [Addrs -> Served \cup {NULL}] BY <1>9 DEF TypeOK, Exit
  <2>5. conn' \in [Slots -> [url : Served \cup {NULL}, db : Addrs \cup {NULL}]]
     BY <1>9 DEF TypeOK, Exit
  <2>6. /\ held' \in [Slots -> Served \cup {NULL}] /\ exited' = TRUE
        /\ calls' = calls /\ leaked' = leaked
     BY <1>9 DEF Exit
  <2> QED BY <2>3, <2>4, <2>5, <2>6 DEF TypeOK
<1>10. CASE UNCHANGED vars
  BY <1>10 DEF TypeOK, vars
<1> QED
  BY <1>1, <1>2, <1>4, <1>5, <1>6, <1>7, <1>8, <1>9, <1>10 DEF Next

\* The variables keep their types whatever the application does with the
\* library (sdb.c:133-233).
THEOREM TypeCorrect == Spec => []TypeOK
<1>1. Init => TypeOK
  <2> SUFFICES ASSUME Init PROVE TypeOK
    OBVIOUS
  <2>1. conn \in [Slots -> [url : Served \cup {NULL}, db : Addrs \cup {NULL}]] BY DEF Init
  <2>2. mem \in [Addrs -> Served \cup {NULL}] /\ held \in [Slots -> Served \cup {NULL}]
     BY DEF Init
  <2>3. leaked = {} /\ misused = {} /\ exited = FALSE BY DEF Init
  <2>4. calls \in Seq(Frame)
    <3>1. calls = <<>> BY DEF Init
    <3> QED BY <3>1
  <2> QED BY <2>1, <2>2, <2>3, <2>4 DEF TypeOK
<1> QED BY <1>1, TypeStep, PTL DEF Spec

---------------------------------------------------------------------------
(* Safety *)

\* The fields of a query in progress.
LEMMA FrameFields ==
    ASSUME TypeOK, NEW i \in DOMAIN calls
    PROVE  /\ calls[i].slot \in Slots \cup {NULL}
           /\ calls[i].url \in Served /\ calls[i].url # NULL
           /\ calls[i].db \in Addrs \cup {NULL}
           /\ calls[i].own \in BOOLEAN
           /\ calls[i].cut \in BOOLEAN
<1>1. calls \in Seq(Frame) BY DEF TypeOK
<1>2. calls[i] \in Frame BY <1>1
<1> QED BY <1>2, ConnAssumption DEF Frame, ConnAssumption

\* The fields of a slot.
LEMMA SlotFields ==
    ASSUME TypeOK, NEW j \in Slots
    PROVE  /\ conn[j].url \in Served \cup {NULL}
           /\ conn[j].db \in Addrs \cup {NULL}
           /\ held[j] \in Served \cup {NULL}
           /\ Live(j) <=> conn[j].url # NULL
BY DEF TypeOK, Live

\* The innermost query of a running program touches nothing closed, unless it was cut.
LEMMA TopConnected ==
    ASSUME IInv, ~exited, calls # <<>>
    PROVE  /\ Len(calls) \in DOMAIN calls
           /\ Top = calls[Len(calls)]
           /\ \A m \in Touch(Top.db, Top.cut) : m.cut
<1>1. Len(calls) \in DOMAIN calls BY CallsTyped DEF IInv
<1>2. CallConnected(Top) BY <1>1 DEF IInv, CallsConnected, Top
<1>3. Top.url # NULL /\ Top.cut \in BOOLEAN BY <1>1, FrameFields DEF IInv, Top
<1> QED BY <1>1, <1>2, <1>3 DEF CallConnected, Touch, Top, IInv, NothingUsedAfterClose

\* sdb_open keeps the invariant: the object it gets is new, so it is in no
\* other slot and in no query.
LEMMA OpenSafe ==
    ASSUME IInv, NEW u, NEW db, NEW j \in Slots, Open(u, db, j), TypeOK'
    PROVE  IInv'
<1> USE ConnAssumption
<1>1. TypeOK /\ u \in Served /\ u # NULL /\ ~Live(j) /\ ~exited
   BY DEF IInv, Open, FirstFree, AppRuns, ConnAssumption
<1>2. db \in Addrs \cup {NULL} /\ (db # NULL => db \in Addrs /\ mem[db] = NULL)
   BY DEF Open, OpenResult, Free
<1>3. /\ conn'[j].url = u /\ conn'[j].db = db
      /\ \A k \in Slots : k # j => conn'[k] = conn[k]
      /\ held'[j] = u
      /\ \A k \in Slots : k # j => held'[k] = held[k]
   BY <1>1, <1>2 DEF Open, TypeOK
<1>4. /\ db # NULL => mem'[db] = u
      /\ \A a \in Addrs : a # db => mem'[a] = mem[a]
      /\ calls' = calls /\ exited' = exited /\ misused' = misused
   BY <1>1, <1>2 DEF Open, Allocated, TypeOK
<1>5. \A k \in Slots : k # j /\ Live(k) /\ conn[k].db # NULL =>
         conn[k].db # db /\ mem'[conn[k].db] = conn[k].url
   BY <1>1, <1>2, <1>4, SlotFields DEF IInv, SlotsConnected
<1>6. \A i \in DOMAIN calls : calls[i].db # NULL /\ ~calls[i].cut => calls[i].db # db
   BY <1>1, <1>2, FrameFields DEF IInv, CallsConnected, CallConnected
<1>7. HeldAreLive' BY <1>3 DEF IInv, HeldAreLive
<1>8. SlotsConnected' /\ SlotsDistinct'
   BY <1>3, <1>4, <1>5 DEF IInv, SlotsConnected, SlotsDistinct, Live
<1>9. CallsConnected'
  <2> SUFFICES ASSUME NEW i \in DOMAIN calls PROVE CallConnected(calls[i])'
    BY <1>4 DEF CallsConnected
  <2>1. CallConnected(calls[i]) BY <1>1 DEF IInv, CallsConnected
  <2>2. calls[i].slot # j \/ calls[i].own \/ calls[i].db = NULL \/ calls[i].cut
     BY <1>1, <2>1, FrameFields DEF CallConnected, Live
  <2> QED BY <1>1, <1>3, <1>4, <1>6, <2>1, <2>2, FrameFields DEF CallConnected
<1>10. OwnApart'
  <2>1. \A i \in DOMAIN calls : calls[i].own => calls[i].db # NULL /\ ~calls[i].cut
     BY <1>1 DEF IInv, CallsConnected, CallConnected
  <2> QED BY <1>3, <1>4, <1>6, <2>1 DEF IInv, OwnApart, Live
<1> QED BY <1>4, <1>7, <1>8, <1>9, <1>10 DEF IInv, NothingUsedAfterClose

\* sdb_open on a full table allocates an object that nobody refers to.
LEMMA OpenTooManySafe ==
    ASSUME IInv, NEW u, NEW db, OpenTooMany(u, db), TypeOK'
    PROVE  IInv'
<1> USE ConnAssumption
<1>1. TypeOK /\ ~exited BY DEF IInv, OpenTooMany, AppRuns
<1>2. db \in Addrs \cup {NULL} /\ (db # NULL => db \in Addrs /\ mem[db] = NULL)
   BY DEF OpenTooMany, OpenResult, Free
<1>3. /\ \A a \in Addrs : a # db => mem'[a] = mem[a]
      /\ calls' = calls /\ exited' = exited /\ misused' = misused
      /\ conn' = conn /\ held' = held
   BY <1>1, <1>2 DEF OpenTooMany, Allocated, TypeOK
<1>4. HeldAreLive' /\ SlotsDistinct' /\ OwnApart' /\ NothingUsedAfterClose'
   BY <1>3 DEF IInv, HeldAreLive, SlotsDistinct, OwnApart, NothingUsedAfterClose, Live
<1>5. SlotsConnected'
   BY <1>1, <1>2, <1>3, SlotFields DEF IInv, SlotsConnected, Live
<1>6. CallsConnected'
   BY <1>1, <1>2, <1>3, FrameFields DEF IInv, CallsConnected, CallConnected
<1> QED BY <1>4, <1>5, <1>6 DEF IInv

\* A query that starts on a given connection takes it from a live slot; one
\* that opens its own connection gets a new object.
LEMMA StartSafe ==
    ASSUME IInv, ~exited, NEW j \in Slots \cup {NULL}, NEW u \in Served, NEW pdb,
           pdb # NULL => j \in Slots /\ conn[j].url = u /\ conn[j].db = pdb,
           pdb \in Addrs \cup {NULL}, StartQuery(j, u, pdb), TypeOK'
    PROVE  IInv'
<1> USE ConnAssumption
<1>1. TypeOK /\ u # NULL BY DEF IInv, ConnAssumption
<1>2. /\ conn' = conn /\ held' = held /\ exited' = exited
   BY DEF StartQuery
<1>3. CASE Push(j, u, pdb, FALSE) /\ misused' = Touch(pdb, FALSE) /\ UNCHANGED mem
  <2>1. /\ DOMAIN calls' = 1 .. Len(calls) + 1 /\ DOMAIN calls = 1 .. Len(calls)
        /\ Len(calls) \in Nat
        /\ \A i \in 1 .. Len(calls) : calls'[i] = calls[i]
        /\ calls'[Len(calls) + 1] = [slot |-> j, url |-> u, db |-> pdb, own |-> FALSE,
                                     rows |-> 0, inCallback |-> FALSE, cut |-> FALSE]
     BY <1>1, <1>3, PushTyped
  <2>2. pdb # NULL => mem[pdb] = u
     BY <1>1 DEF IInv, SlotsConnected, Live
  <2>3. NothingUsedAfterClose'
     BY <1>1, <1>3, <2>2 DEF IInv, NothingUsedAfterClose, Touch
  <2>4. HeldAreLive' /\ SlotsDistinct' /\ SlotsConnected'
     BY <1>2, <1>3 DEF IInv, HeldAreLive, SlotsDistinct, SlotsConnected, Live
  <2>5. CallsConnected'
    <3> SUFFICES ASSUME NEW i \in DOMAIN calls' PROVE CallConnected(calls[i])'
      BY DEF CallsConnected
    <3>1. CASE i \in 1 .. Len(calls)
      BY <1>2, <1>3, <2>1, <3>1 DEF IInv, CallsConnected, CallConnected
    <3>2. CASE i = Len(calls) + 1
      BY <1>1, <1>2, <1>3, <2>1, <2>2, <3>2 DEF CallConnected
    <3> QED BY <2>1, <3>1, <3>2
  <2>6. OwnApart' BY <1>2, <2>1 DEF IInv, OwnApart, Live
  <2> QED BY <2>3, <2>4, <2>5, <2>6 DEF IInv
<1>4. ASSUME NEW db \in Free, Push(j, u, db, TRUE), mem' = Allocated(db, u),
             UNCHANGED misused
      PROVE  IInv'
  <2>1. db \in Addrs /\ db # NULL /\ mem[db] = NULL BY DEF Free, ConnAssumption
  <2>2. /\ DOMAIN calls' = 1 .. Len(calls) + 1 /\ DOMAIN calls = 1 .. Len(calls)
        /\ Len(calls) \in Nat
        /\ \A i \in 1 .. Len(calls) : calls'[i] = calls[i]
        /\ calls'[Len(calls) + 1] = [slot |-> j, url |-> u, db |-> db, own |-> TRUE,
                                     rows |-> 0, inCallback |-> FALSE, cut |-> FALSE]
    <3>1. db \in Addrs \cup {NULL} /\ TRUE \in BOOLEAN /\ Push(j, u, db, TRUE)
       BY <1>4, <2>1
    <3> QED BY <1>1, <3>1, PushTyped, ZenonT(60)
  <2>3. mem'[db] = u /\ \A a \in Addrs : a # db => mem'[a] = mem[a]
     BY <1>1, <1>4, <2>1 DEF Allocated, TypeOK
  <2>4. \A k \in Slots : Live(k) /\ conn[k].db # NULL =>
           conn[k].db # db /\ mem'[conn[k].db] = conn[k].url
     BY <1>1, <2>1, <2>3, SlotFields DEF IInv, SlotsConnected
  <2>5. \A i \in DOMAIN calls : calls[i].db # NULL /\ ~calls[i].cut => calls[i].db # db
     BY <1>1, <2>1, FrameFields DEF IInv, CallsConnected, CallConnected
  <2>6. HeldAreLive' /\ SlotsDistinct' /\ SlotsConnected' /\ NothingUsedAfterClose'
     BY <1>2, <1>4, <2>4
     DEF IInv, HeldAreLive, SlotsDistinct, SlotsConnected, Live, NothingUsedAfterClose
  <2>7. CallsConnected'
    <3> SUFFICES ASSUME NEW i \in DOMAIN calls' PROVE CallConnected(calls[i])'
      BY DEF CallsConnected
    <3>1. CASE i \in 1 .. Len(calls)
      <4>1. CallConnected(calls[i]) BY <2>2, <3>1 DEF IInv, CallsConnected
      <4> QED BY <1>1, <1>2, <2>2, <2>3, <2>5, <3>1, <4>1, FrameFields DEF CallConnected
    <3>2. CASE i = Len(calls) + 1
      BY <2>1, <2>2, <2>3, <3>2 DEF CallConnected
    <3> QED BY <2>2, <3>1, <3>2
  <2>8. OwnApart'
    <3>1. \A i \in DOMAIN calls : calls[i].own => calls[i].db # db
       BY <2>5 DEF IInv, CallsConnected, CallConnected
    <3>2. \A i \in DOMAIN calls', k \in Slots :
             calls'[i].own /\ Live(k) => conn[k].db # calls'[i].db
       BY <2>1, <2>2, <2>4, <3>1 DEF IInv, OwnApart
    <3>3. \A i, k \in DOMAIN calls' :
             calls'[i].own /\ calls'[k].own /\ calls'[k].db = calls'[i].db => k = i
       BY <2>2, <3>1 DEF IInv, OwnApart
    <3> QED BY <1>2, <3>2, <3>3 DEF OwnApart, Live
  <2> QED BY <2>6, <2>7, <2>8 DEF IInv
<1> QED BY <1>3, <1>4 DEF StartQuery

\* A row is fetched on a live connection, and a callback that returns changes
\* nothing that matters here.
LEMMA StepSafe ==
    ASSUME IInv, FetchRow \/ CallbackReturns, TypeOK'
    PROVE  IInv'
<1>1. TypeOK /\ ~exited /\ calls # <<>>
   BY DEF IInv, FetchRow, CallbackReturns, AppRuns
<1>2. /\ DOMAIN calls' = DOMAIN calls
      /\ \A i \in DOMAIN calls : /\ calls'[i].slot = calls[i].slot
                                /\ calls'[i].url = calls[i].url
                                /\ calls'[i].db = calls[i].db
                                /\ calls'[i].own = calls[i].own
                                /\ calls'[i].cut = calls[i].cut
   BY <1>1, StepTyped, ConnAssumption
<1>3. UNCHANGED <<conn, mem, held, exited>> BY DEF FetchRow, CallbackReturns
<1>4. NothingUsedAfterClose'
   BY <1>1, TopConnected DEF FetchRow, CallbackReturns, IInv, NothingUsedAfterClose
<1>5. HeldAreLive' /\ SlotsDistinct' /\ SlotsConnected'
   BY <1>3 DEF IInv, HeldAreLive, SlotsDistinct, SlotsConnected, Live
<1>6. CallsConnected'
   BY <1>1, <1>2, <1>3 DEF IInv, CallsConnected, CallConnected
<1>7. OwnApart' BY <1>2, <1>3 DEF IInv, OwnApart, Live
<1> QED BY <1>4, <1>5, <1>6, <1>7 DEF IInv

\* A query that ends closes only a connection of its own, which no slot and no
\* other query uses.
LEMMA ReturnSafe ==
    ASSUME IInv, QueryReturns \/ QueryFails, TypeOK'
    PROVE  IInv'
<1> USE ConnAssumption
<1>1. /\ TypeOK /\ ~exited /\ calls # <<>>
      /\ calls' = SubSeq(calls, 1, Len(calls) - 1)
   BY DEF IInv, QueryReturns, QueryFails
<1>2. UNCHANGED <<conn, held, exited>> BY DEF QueryReturns, QueryFails
<1>3. NothingUsedAfterClose'
   BY <1>1, TopConnected DEF QueryReturns, QueryFails, NothingUsedAfterClose
<1> DEFINE n == Len(calls)
<1>4. /\ n \in DOMAIN calls /\ Top = calls[n] /\ n \in Nat
      /\ DOMAIN calls = 1 .. n
      /\ DOMAIN calls' = 1 .. n - 1
      /\ \A i \in 1 .. n - 1 : calls'[i] = calls[i]
  <2>1. /\ n \in DOMAIN calls
        /\ Len(calls') = n - 1 /\ calls' \in Seq(Frame)
        /\ \A i \in 1 .. n - 1 : calls'[i] = calls[i]
     BY <1>1, CallsTyped
  <2>2. calls \in Seq(Frame) BY <1>1 DEF TypeOK
  <2> QED BY <2>1, <2>2 DEF Top
<1> HIDE DEF n
<1>5. /\ Top.db \in Addrs \cup {NULL}
      /\ Top.own => Top.db # NULL
   BY <1>1, <1>4, FrameFields DEF IInv, CallsConnected, CallConnected
<1>6. \A a \in Addrs : ~(Top.own /\ a = Top.db) => mem'[a] = mem[a]
   BY <1>1, <1>5 DEF QueryReturns, QueryFails, Freed, TypeOK
<1>7. HeldAreLive' /\ SlotsDistinct' BY <1>2 DEF IInv, HeldAreLive, SlotsDistinct, Live
<1>8. SlotsConnected'
  <2>1. \A j \in Slots : Live(j) => ~(Top.own /\ conn[j].db = Top.db)
     BY <1>4 DEF IInv, OwnApart
  <2> QED BY <1>1, <1>2, <1>6, <2>1, SlotFields DEF IInv, SlotsConnected, Live
<1>9. CallsConnected'
  <2> SUFFICES ASSUME NEW i \in 1 .. n - 1 PROVE CallConnected(calls[i])'
    BY <1>4 DEF CallsConnected
  <2>1. i \in DOMAIN calls /\ i # n /\ calls'[i] = calls[i] BY <1>4
  <2>2. CallConnected(calls[i]) BY <1>1, <2>1 DEF IInv, CallsConnected
  <2>3. calls[i].db # NULL /\ ~calls[i].cut => ~(Top.own /\ calls[i].db = Top.db)
    <3>1. CASE calls[i].own BY <1>4, <2>1, <3>1 DEF IInv, OwnApart
    <3>2. CASE ~calls[i].own /\ calls[i].db # NULL /\ ~calls[i].cut
      <4>1. LET k == calls[i].slot IN
              k \in Slots /\ conn[k].db = calls[i].db /\ conn[k].url = calls[i].url
         BY <2>2, <3>2 DEF CallConnected
      <4>2. Live(calls[i].slot) BY <1>1, <2>1, <4>1, FrameFields DEF Live
      <4> QED BY <1>4, <4>1, <4>2 DEF IInv, OwnApart
    <3> QED BY <2>1, <3>1, <3>2
  <2> QED BY <1>1, <1>2, <1>6, <2>1, <2>2, <2>3, FrameFields DEF CallConnected
<1>10. OwnApart'
   BY <1>2, <1>4 DEF IInv, OwnApart, Live
<1> QED BY <1>3, <1>7, <1>8, <1>9, <1>10 DEF IInv

\* Closing a held id frees an object that no other slot and, but for those that are
\* cut by it, no query uses.
LEMMA CloseSafe ==
    ASSUME StaleIds = FALSE, IInv, NEW j \in Slots, Close(j), TypeOK'
    PROVE  IInv'
<1> USE ConnAssumption
<1>1. TypeOK /\ ~exited /\ held[j] # NULL
   BY DEF IInv, Close, AppRuns, MayClose
<1>2. Live(j) BY <1>1 DEF IInv, HeldAreLive, Live
<1> DEFINE db == conn[j].db
<1>3. /\ db \in Addrs \cup {NULL}
      /\ conn'[j].url = NULL /\ held'[j] = NULL
      /\ \A k \in Slots : k # j => conn'[k] = conn[k] /\ held'[k] = held[k]
      /\ exited' = exited
   BY <1>1, SlotFields DEF Close, TypeOK
<1>12. /\ DOMAIN calls' = DOMAIN calls
       /\ \A i \in DOMAIN calls :
             /\ calls'[i].slot = calls[i].slot /\ calls'[i].url = calls[i].url
             /\ calls'[i].db = calls[i].db /\ calls'[i].own = calls[i].own
             /\ calls[i].slot = j /\ ~calls[i].own => calls'[i].cut = TRUE
             /\ ~(calls[i].slot = j /\ ~calls[i].own) => calls'[i].cut = calls[i].cut
   BY <1>1, CutTyped DEF Close
<1>4. \A a \in Addrs : a # db => mem'[a] = mem[a]
   BY <1>1, <1>3 DEF Close, Freed, TypeOK
<1>5. NothingUsedAfterClose'
  <2>1. db # NULL => mem[db] # NULL
     BY <1>1, <1>2, SlotFields DEF IInv, SlotsConnected
  <2> QED BY <2>1 DEF Close, Touch, IInv, NothingUsedAfterClose
<1>6. HeldAreLive' BY <1>3 DEF IInv, HeldAreLive
<1>7. \A k \in Slots : k # j /\ Live(k) /\ conn[k].db # NULL => conn[k].db # db
   BY <1>2 DEF IInv, SlotsDistinct
<1>8. SlotsDistinct' BY <1>3 DEF IInv, SlotsDistinct, Live
<1>9. SlotsConnected'
   BY <1>1, <1>3, <1>4, <1>7, SlotFields DEF IInv, SlotsConnected, Live
<1>10. CallsConnected'
  <2> SUFFICES ASSUME NEW i \in DOMAIN calls PROVE CallConnected(calls[i])'
    BY <1>12 DEF CallsConnected
  <2>1. CallConnected(calls[i]) BY <1>1 DEF IInv, CallsConnected
  <2>2. calls[i].db # NULL /\ ~calls'[i].cut => calls[i].db # db
    <3>1. CASE calls[i].own BY <1>2, <3>1 DEF IInv, OwnApart
    <3>2. CASE ~calls[i].own /\ calls[i].db # NULL /\ ~calls[i].cut
      <4>1. LET k == calls[i].slot IN
              k \in Slots /\ conn[k].db = calls[i].db /\ conn[k].url = calls[i].url
         BY <2>1, <3>2 DEF CallConnected
      <4>2. Live(calls[i].slot) BY <1>1, <4>1, FrameFields DEF Live
      <4>3. ~calls'[i].cut => calls[i].slot # j BY <1>12, <3>2
      <4> QED BY <1>1, <1>7, <3>2, <4>1, <4>2, <4>3
    <3> QED BY <1>12, <3>1, <3>2, FrameFields
  <2>3. ~calls'[i].cut => ~calls[i].cut /\ (calls[i].own \/ calls[i].slot # j)
     BY <1>12
  <2>4. calls[i].own => ~calls'[i].cut BY <1>12, <2>1 DEF CallConnected
  <2>5. /\ calls'[i].slot = calls[i].slot /\ calls'[i].url = calls[i].url
        /\ calls'[i].db = calls[i].db /\ calls'[i].own = calls[i].own
     BY <1>12
  <2> QED BY <1>1, <1>3, <1>4, <2>1, <2>2, <2>3, <2>4, <2>5, FrameFields DEF CallConnected
<1>11. OwnApart' BY <1>3, <1>12 DEF IInv, OwnApart, Live
<1> QED BY <1>5, <1>6, <1>8, <1>9, <1>10, <1>11 DEF IInv, NothingUsedAfterClose

\* At exit every live slot is closed, each object once.
LEMMA ExitSafe ==
    ASSUME IInv, Exit, TypeOK'
    PROVE  IInv'
<1>1. /\ \A j \in Slots : conn'[j].url = NULL /\ held'[j] = NULL
      /\ exited' = TRUE /\ calls' = calls
   BY DEF Exit, IInv, TypeOK
<1>2. HeldAreLive' /\ SlotsConnected' /\ SlotsDistinct'
   BY <1>1 DEF HeldAreLive, SlotsConnected, SlotsDistinct, Live
<1>3. OwnApart' BY <1>1 DEF IInv, OwnApart, Live
<1>4. NothingUsedAfterClose'
  <2>1. \A j \in Slots : Live(j) /\ conn[j].db # NULL => mem[conn[j].db] # NULL
     BY SlotFields DEF IInv, SlotsConnected
  <2> QED BY <2>1 DEF Exit, IInv, SlotsDistinct, NothingUsedAfterClose
<1> QED BY <1>1, <1>2, <1>3, <1>4 DEF IInv

\* Every action keeps the invariant.
LEMMA SafeStep ==
    ASSUME StaleIds = FALSE
    PROVE  IInv /\ [Next]_vars => IInv'
<1> SUFFICES ASSUME IInv, [Next]_vars PROVE IInv'
  OBVIOUS
<1>1. TypeOK /\ TypeOK' BY TypeStep DEF IInv
<1>2. ASSUME NEW u \in Urls, NEW db \in Addrs \cup {NULL}, NEW j \in Slots,
             Open(u, db, j)
      PROVE  IInv'
  BY <1>1, <1>2, OpenSafe
<1>3. ASSUME NEW u \in Urls, NEW db \in Addrs \cup {NULL}, OpenTooMany(u, db)
      PROVE  IInv'
  BY <1>1, <1>3, OpenTooManySafe
<1>4. ASSUME NEW j \in Slots, QueryById(j) PROVE IInv'
  <2>1. ~exited /\ conn[j].url \in Served /\ conn[j].db \in Addrs \cup {NULL}
     BY <1>1, <1>4, SlotFields DEF QueryById, AppRuns
  <2> QED BY <1>1, <1>4, <2>1, StartSafe DEF QueryById
<1>5. ASSUME NEW u \in Urls, QueryByUrl(u) PROVE IInv'
  BY <1>1, <1>5, StartSafe DEF QueryByUrl, AppRuns
<1>6. CASE FetchRow \/ CallbackReturns BY <1>1, <1>6, StepSafe
<1>7. CASE QueryReturns \/ QueryFails BY <1>1, <1>7, ReturnSafe
<1>8. ASSUME NEW j \in Slots, Close(j) PROVE IInv' BY <1>1, <1>8, CloseSafe
<1>9. CASE Exit BY <1>1, <1>9, ExitSafe
<1>10. CASE UNCHANGED vars
  BY <1>1, <1>10 DEF vars, IInv, HeldAreLive, SlotsConnected, SlotsDistinct,
     CallsConnected, CallConnected, OwnApart, NothingUsedAfterClose, Live
<1> QED
  BY <1>2, <1>3, <1>4, <1>5, <1>6, <1>7, <1>8, <1>9, <1>10 DEF Next

\* The invariant holds of every run of a program that closes what it holds.
LEMMA Safe ==
    ASSUME StaleIds = FALSE
    PROVE  Spec => []IInv
<1>1. Init => IInv
  <2> SUFFICES ASSUME Init PROVE IInv
    OBVIOUS
  <2>1. TypeOK BY ConnAssumption DEF Init, TypeOK, Slots, ConnAssumption
  <2> QED BY <2>1 DEF Init, IInv, HeldAreLive, SlotsConnected, SlotsDistinct,
       CallsConnected, OwnApart, NothingUsedAfterClose, Live
<1>2. IInv /\ [Next]_vars => IInv' BY SafeStep
<1> QED BY <1>1, <1>2, PTL DEF Spec

\* Every id that the application holds names a slot with its url and, when the
\* driver keeps connections, a live object connected to it (sdb.c:172-220).
THEOREM HeldIdsWorkAlways ==
    ASSUME StaleIds = FALSE
    PROVE  Spec => []HeldIdsWork
<1>1. IInv => HeldIdsWork
  BY DEF IInv, HeldAreLive, SlotsConnected, HeldIdsWork, Live
<1> QED BY <1>1, Safe, PTL

\* A query is never left on a dead or foreign connection by what its callbacks
\* open, query and close (sdb.c:133-170), but by the closing of its own id.
THEOREM QueriesStayConnectedAlways ==
    ASSUME StaleIds = FALSE
    PROVE  Spec => []QueriesStayConnected
<1>1. IInv => QueriesStayConnected
  BY DEF IInv, CallsConnected, CallConnected, QueriesStayConnected
<1> QED BY <1>1, Safe, PTL

\* The address of a closed object is followed only by a query whose own id was
\* closed while it ran, and not by the atexit handler (sdb.c:133-233).
THEOREM NothingUsedAfterCloseAlways ==
    ASSUME StaleIds = FALSE
    PROVE  Spec => []NothingUsedAfterClose
<1>1. IInv => NothingUsedAfterClose
  BY DEF IInv
<1> QED BY <1>1, Safe, PTL

\* No driver object belongs to two open ids, or to an open id and to a query
\* that opened a connection of its own.
THEOREM NothingSharedAlways ==
    ASSUME StaleIds = FALSE
    PROVE  Spec => []NothingShared
<1>1. IInv => NothingShared
  BY DEF IInv, SlotsDistinct, OwnApart, NothingShared
<1> QED BY <1>1, Safe, PTL

---------------------------------------------------------------------------
(* Leaks *)

\* The objects that something still refers to, as seen by one address.
LEMMA LostStep ==
    TypeOK /\ NothingLost /\ [Next]_vars => NothingLost'
<1> USE ConnAssumption
<1> SUFFICES ASSUME TypeOK, NothingLost, [Next]_vars, NEW a \in Addrs, mem'[a] # NULL
             PROVE  \/ a \in leaked'
                    \/ \E j \in Slots : Live(j)' /\ conn'[j].db = a
                    \/ \E i \in DOMAIN calls' : calls'[i].own /\ calls'[i].db = a
  BY DEF NothingLost
<1> DEFINE Reached == \/ a \in leaked'
                      \/ \E j \in Slots : Live(j)' /\ conn'[j].db = a
                      \/ \E i \in DOMAIN calls' : calls'[i].own /\ calls'[i].db = a
<1>1. ASSUME NEW u \in Urls, NEW db \in Addrs \cup {NULL}, NEW j \in Slots,
             Open(u, db, j)
      PROVE  Reached
  <2>1. CASE a = db BY <1>1, <2>1 DEF Open, TypeOK, Live, ConnAssumption
  <2>2. CASE a # db
    <3>1. mem[a] # NULL BY <1>1, <2>2 DEF Open, Allocated, TypeOK
    <3>2. \A k \in Slots : Live(k) => conn'[k] = conn[k]
       BY <1>1 DEF Open, FirstFree, TypeOK, Live
    <3> QED BY <1>1, <3>1, <3>2 DEF NothingLost, Open, Live
  <2> QED BY <2>1, <2>2
<1>2. ASSUME NEW u \in Urls, NEW db \in Addrs \cup {NULL}, OpenTooMany(u, db)
      PROVE  Reached
  <2>1. CASE a = db BY <1>2, <2>1 DEF OpenTooMany, Forgotten, ConnAssumption
  <2>2. CASE a # db
    <3>1. mem[a] # NULL BY <1>2, <2>2 DEF OpenTooMany, Allocated, TypeOK
    <3> QED BY <1>2, <3>1 DEF NothingLost, OpenTooMany, Forgotten, Live
  <2> QED BY <2>1, <2>2
<1>3. ASSUME NEW j \in Slots \cup {NULL}, NEW u \in Served,
             NEW pdb \in Addrs \cup {NULL}, StartQuery(j, u, pdb)
      PROVE  Reached
  <2>1. conn' = conn /\ leaked' = leaked BY <1>3 DEF StartQuery
  <2>2. CASE Push(j, u, pdb, FALSE) /\ UNCHANGED mem
    <3>1. /\ Len(calls) \in Nat
          /\ DOMAIN calls = 1 .. Len(calls)
          /\ DOMAIN calls' = 1 .. Len(calls) + 1
          /\ \A i \in 1 .. Len(calls) : calls'[i] = calls[i]
       BY <2>2, PushTyped
    <3>2. \A i \in DOMAIN calls : i \in DOMAIN calls' /\ calls'[i] = calls[i]
       BY <3>1
    <3> QED BY <2>1, <2>2, <3>2 DEF NothingLost, Live
  <2>3. ASSUME NEW db \in Free, Push(j, u, db, TRUE), mem' = Allocated(db, u)
        PROVE  Reached
    <3>1. db \in Addrs \cup {NULL} /\ db # NULL /\ TRUE \in BOOLEAN /\ Push(j, u, db, TRUE)
       BY <2>3 DEF Free, ConnAssumption
    <3>2. /\ Len(calls) \in Nat
          /\ DOMAIN calls = 1 .. Len(calls)
          /\ DOMAIN calls' = 1 .. Len(calls) + 1
          /\ \A i \in 1 .. Len(calls) : calls'[i] = calls[i]
          /\ calls'[Len(calls) + 1] = [slot |-> j, url |-> u, db |-> db, own |-> TRUE,
                                       rows |-> 0, inCallback |-> FALSE, cut |-> FALSE]
       BY <3>1, PushTyped
    <3>3. CASE a = db BY <3>2, <3>3
    <3>4. CASE a # db
      <4>1. mem[a] # NULL BY <2>3, <3>4 DEF Allocated, TypeOK
      <4> QED BY <2>1, <3>2, <4>1 DEF NothingLost, Live
    <3> QED BY <3>3, <3>4
  <2> QED BY <1>3, <2>2, <2>3 DEF StartQuery
<1>4. ASSUME NEW j \in Slots, QueryById(j) PROVE Reached
  <2>1. conn[j].db \in Addrs \cup {NULL} /\ conn[j].url \in Served
     BY <1>4, SlotFields DEF QueryById
  <2> QED BY <1>3, <1>4, <2>1 DEF QueryById
<1>5. ASSUME NEW u \in Urls, QueryByUrl(u) PROVE Reached
  BY <1>3, <1>5 DEF QueryByUrl
<1>6. CASE FetchRow \/ CallbackReturns
  <2>1. /\ DOMAIN calls' = DOMAIN calls
        /\ \A i \in DOMAIN calls : calls'[i].db = calls[i].db /\ calls'[i].own = calls[i].own
     BY <1>6, StepTyped
  <2>2. UNCHANGED <<conn, mem, leaked>> BY <1>6 DEF FetchRow, CallbackReturns
  <2> QED BY <2>1, <2>2 DEF NothingLost, Live
<1>7. CASE QueryReturns \/ QueryFails
  <2> DEFINE n == Len(calls)
  <2>1. /\ calls # <<>> /\ conn' = conn /\ leaked \subseteq leaked'
        /\ calls' = SubSeq(calls, 1, Len(calls) - 1)
     BY <1>7 DEF QueryReturns, QueryFails, Forgotten
  <2>2. /\ n \in DOMAIN calls /\ Top = calls[n] /\ n \in Nat
        /\ DOMAIN calls = 1 .. n
        /\ DOMAIN calls' = 1 .. n - 1
        /\ \A i \in 1 .. n - 1 : calls'[i] = calls[i]
    <3>1. /\ n \in DOMAIN calls
          /\ Len(calls') = n - 1 /\ calls' \in Seq(Frame)
          /\ \A i \in 1 .. n - 1 : calls'[i] = calls[i]
       BY <2>1, CallsTyped
    <3>2. calls \in Seq(Frame) BY DEF TypeOK
    <3> QED BY <3>1, <3>2 DEF Top
  <2> HIDE DEF n
  <2>3. Top.db \in Addrs \cup {NULL} BY <2>2, FrameFields
  <2>4. mem[a] # NULL /\ (Top.own /\ Top.db = a => a \in leaked')
     BY <1>7, <2>3 DEF QueryReturns, QueryFails, Freed, Forgotten, TypeOK, ConnAssumption
  <2>5. ASSUME NEW i \in DOMAIN calls, calls[i].own, calls[i].db = a, a \notin leaked'
        PROVE  i \in DOMAIN calls' /\ calls'[i] = calls[i]
    BY <2>2, <2>4, <2>5
  <2> QED BY <2>1, <2>4, <2>5 DEF NothingLost, Live
<1>8. ASSUME NEW j \in Slots, Close(j) PROVE Reached
  <2>1. conn[j].db \in Addrs \cup {NULL} BY SlotFields
  <2>2. mem[a] # NULL /\ conn[j].db # a
     BY <1>8, <2>1 DEF Close, Freed, TypeOK, ConnAssumption
  <2>3. \A k \in Slots : k # j => conn'[k] = conn[k] BY <1>8 DEF Close, TypeOK
  <2>4. /\ DOMAIN calls' = DOMAIN calls
        /\ \A i \in DOMAIN calls : calls'[i].db = calls[i].db /\ calls'[i].own = calls[i].own
     BY <1>8, CutTyped DEF Close
  <2> QED BY <1>8, <2>2, <2>3, <2>4 DEF NothingLost, Live, Close
<1>9. CASE Exit
  <2>1. mem[a] # NULL /\ ~\E j \in Slots : Live(j) /\ conn[j].db = a
     BY <1>9 DEF Exit, ConnAssumption
  <2> QED BY <1>9, <2>1 DEF NothingLost, Exit
<1>10. CASE UNCHANGED vars
  BY <1>10 DEF vars, NothingLost, Live
<1> QED
  BY <1>1, <1>2, <1>4, <1>5, <1>6, <1>7, <1>8, <1>9, <1>10 DEF Next

\* Whatever the application closes, and even when it exits from a callback, an
\* object is lost only by an sdb_open that found the table full (sdb.c:185-193) or by
\* a failed query of a driver that forgets its own connection (mysql_driver.c:113).
THEOREM NothingLostAlways == Spec => []NothingLost
<1>1. Init => NothingLost BY DEF Init, NothingLost
<1> QED BY <1>1, TypeCorrect, LostStep, PTL DEF Spec

\* While an id is held, nothing the application does changes its slot.
THEOREM IdsAreStableAlways ==
    ASSUME StaleIds = FALSE
    PROVE  Spec => IdsAreStable
<1>1. IInv /\ [Next]_vars =>
        [\A j \in Slots : held[j] # NULL /\ held'[j] # NULL => conn'[j] = conn[j]]_vars
  <2> SUFFICES ASSUME IInv, Next, NEW j \in Slots, held[j] # NULL, held'[j] # NULL
               PROVE  conn'[j] = conn[j]
    BY DEF vars
  <2>1. Live(j) /\ TypeOK BY DEF IInv, HeldAreLive, Live
  <2>2. ASSUME NEW u \in Urls, NEW db \in Addrs \cup {NULL}, NEW k \in Slots,
               Open(u, db, k)
        PROVE  conn'[j] = conn[j]
    BY <2>1, <2>2 DEF Open, FirstFree, TypeOK
  <2>3. ASSUME NEW k \in Slots, Close(k) PROVE conn'[j] = conn[j]
    BY <2>1, <2>3 DEF Close, TypeOK
  <2>4. CASE Exit BY <2>4 DEF Exit
  <2> QED
    BY <2>2, <2>3, <2>4
    DEF Next, OpenTooMany, QueryById, QueryByUrl, StartQuery, FetchRow, CallbackReturns,
        QueryReturns, QueryFails
<1> QED BY <1>1, Safe, PTL DEF Spec, IdsAreStable

---------------------------------------------------------------------------
(* The driver table *)

\* How many drivers have been registered is a number, which one more makes larger.
LEMMA RegisteredCounted ==
    ASSUME RegistryTypes
    PROVE  /\ Cardinality(registered) \in Nat
           /\ \A d : d \notin registered =>
                 /\ IsFiniteSet(registered \cup {d})
                 /\ Cardinality(registered \cup {d}) = Cardinality(registered) + 1
BY FS_CardinalityType, FS_AddElement DEF RegistryTypes

\* What sdb_init leaves, on its first call and on later ones.
LEMMA FilledPacked ==
    ASSUME RegistryInv
    PROVE  /\ Filled \in [Entries -> Drivers \cup {None}]
           /\ Count \in 0 .. TableSize
           /\ Count <= Len(Builtin) + Cardinality(registered)
           /\ \A i \in Entries : Filled[i] # None =>
                 i < Len(Builtin) + Cardinality(registered)
           /\ \A i \in Entries :
                 IF i < Count THEN Filled[i] # None /\ Filled[i] \notin early
                              ELSE Filled[i] = None \/ Filled[i] \in early
<1> USE RegistryAssumption
<1> DEFINE n == Len(Builtin) + Cardinality(registered)
<1>1. /\ Len(Builtin) \in Nat /\ Len(Builtin) < TableSize
      /\ \A i \in 1 .. Len(Builtin) : Builtin[i] \in Drivers /\ Builtin[i] \notin AppDrivers
   BY DEF Drivers
<1>2. Cardinality(registered) \in Nat BY RegisteredCounted DEF RegistryInv
<1>3. ndrivers <= n /\ \A i \in Entries : drivers[i] # None => i < n
   BY DEF RegistryInv, Crowded
<1>4. CASE initDone
  <2>1. Filled = drivers /\ Count = ndrivers BY <1>4 DEF Filled, Count
  <2> QED BY <1>3, <1>4, <2>1 DEF RegistryInv, RegistryTypes, Packed
<1>5. CASE ~initDone
  <2>1. /\ Filled = [i \in Entries |-> IF i < Len(Builtin) THEN Builtin[i + 1] ELSE drivers[i]]
        /\ Count = Len(Builtin)
     BY <1>5 DEF Filled, Count
  <2>2. \A i \in Entries : i < Len(Builtin) =>
           Builtin[i + 1] \in Drivers /\ Builtin[i + 1] \notin AppDrivers
     BY <1>1 DEF Entries
  <2>3. \A i \in Entries : drivers[i] # None => drivers[i] \in early
     BY <1>5 DEF RegistryInv, OnlyEarlyBefore
  <2>4. early \subseteq AppDrivers /\ \A i \in Entries : drivers[i] \in Drivers \cup {None}
     BY DEF RegistryInv, RegistryTypes
  <2>5. Filled \in [Entries -> Drivers \cup {None}] BY <2>1, <2>2, <2>4
  <2>6. Count \in 0 .. TableSize /\ Count <= n BY <1>1, <1>2, <2>1
  <2>7. \A i \in Entries : Filled[i] # None => i < n
     BY <1>1, <1>2, <1>3, <2>1 DEF Entries
  <2>8. ASSUME NEW i \in Entries
        PROVE  IF i < Count THEN Filled[i] # None /\ Filled[i] \notin early
                            ELSE Filled[i] = None \/ Filled[i] \in early
    <3>1. CASE i < Count BY <2>1, <2>2, <2>4, <3>1
    <3>2. CASE ~(i < Count) BY <2>1, <2>3, <3>2
    <3> QED BY <3>1, <3>2
  <2> QED BY <2>5, <2>6, <2>7, <2>8
<1> QED BY <1>4, <1>5 DEF RegistryInv, RegistryTypes

\* A library call that has initialised keeps what the invariant says of the table.
LEMMA InitialisedSafe ==
    ASSUME RegistryInv, Initialised, UNCHANGED <<registered, early>>
    PROVE  /\ drivers' \in [Entries -> Drivers \cup {None}]
           /\ ndrivers' \in 0 .. TableSize /\ initDone' = TRUE
           /\ registered' \subseteq AppDrivers /\ IsFiniteSet(registered)'
           /\ early' \subseteq registered'
           /\ OnlyEarlyBefore' /\ Packed' /\ KeptAreThere' /\ Crowded'
           /\ initDone => drivers' = drivers
<1>1. drivers' = Filled /\ ndrivers' = Count /\ initDone' = TRUE
   BY DEF Initialised
<1>2. initDone => drivers' = drivers /\ ndrivers' = ndrivers
   BY <1>1 DEF Filled, Count
<1>3. Packed' BY <1>1, FilledPacked DEF Packed
<1>4. Crowded' BY <1>1, FilledPacked DEF Crowded
<1>5. OnlyEarlyBefore' BY <1>1 DEF OnlyEarlyBefore
<1>6. KeptAreThere'
  <2>1. CASE initDone BY <1>1, <1>2, <2>1 DEF RegistryInv, KeptAreThere
  <2>2. CASE ~initDone
     BY <1>1, <2>2 DEF RegistryInv, OnlyEarlyBefore, KeptAreThere
  <2> QED BY <2>1, <2>2
<1>7. registered' \subseteq AppDrivers /\ IsFiniteSet(registered)' /\ early' \subseteq registered'
   BY DEF RegistryInv, RegistryTypes
<1> QED BY <1>1, <1>2, <1>3, <1>4, <1>5, <1>6, <1>7, FilledPacked

\* Once the table is initialised, an entry keeps its driver, unless that was early,
\* and what is early does not change.
LEMMA EntriesStay ==
    ASSUME RegistryInv, [RegistryNext]_registryVars, initDone
    PROVE  /\ \A i \in Entries : drivers[i] # None /\ drivers[i] \notin early =>
                  drivers'[i] = drivers[i]
           /\ early' = early
<1> USE RegistryAssumption
<1>1. CASE Initialised /\ UNCHANGED <<registered, early>> BY <1>1, InitialisedSafe
<1>2. ASSUME NEW d \in AppDrivers, Register(d)
      PROVE  /\ \A i \in Entries : drivers[i] # None /\ drivers[i] \notin early =>
                    drivers'[i] = drivers[i]
             /\ early' = early
  BY <1>2 DEF Register, Remember, RegistryInv, Packed, RegistryTypes, Entries
<1>3. ASSUME NEW c \in Ids, CloseConnection(c)
      PROVE  drivers' = drivers /\ early' = early
  BY <1>3 DEF CloseConnection
<1>4. ASSUME NEW d \in AppDrivers, RegisterOutside(d)
      PROVE  drivers' = drivers /\ early' = early
  BY <1>4 DEF RegisterOutside
<1> QED BY <1>1, <1>2, <1>3, <1>4
   DEF RegistryNext, registryVars, InitLibrary, LookupFails, Query,
       OpenConnection

\* A driver that is registered takes the entry at ndrivers.
LEMMA RegisterSafe ==
    ASSUME RegistryInv, NEW d \in AppDrivers, Register(d)
    PROVE  /\ RegistryTypes' /\ OnlyEarlyBefore' /\ Packed' /\ KeptAreThere' /\ Crowded'
           /\ OnlyFullTablesOverrun'
<1> USE RegistryAssumption
<1>1. /\ ndrivers \in Entries /\ ndrivers + 1 \in 0 .. TableSize
      /\ d \in Drivers /\ d # None /\ d \notin registered
   BY DEF Register, RegistryInv, RegistryTypes, Entries, Drivers
<1>2. /\ drivers'[ndrivers] = d
      /\ \A i \in Entries : i # ndrivers => drivers'[i] = drivers[i]
      /\ ndrivers' = ndrivers + 1
      /\ registered' = registered \cup {d}
      /\ initDone' = initDone /\ open' = open /\ overrun' = overrun
   BY <1>1 DEF Register, Remember, RegistryInv, RegistryTypes
<1>3. /\ initDone => early' = early
      /\ ~initDone => early' = early \cup {d}
   BY DEF Register, Remember
<1>4. /\ IsFiniteSet(registered')
      /\ Cardinality(registered) \in Nat
      /\ Cardinality(registered') = Cardinality(registered) + 1
   BY <1>1, <1>2, RegisteredCounted DEF RegistryInv
<1>5. early \subseteq registered /\ d \notin early BY <1>1 DEF RegistryInv, RegistryTypes
<1>6. RegistryTypes'
  <2>1. drivers' \in [Entries -> Drivers \cup {None}]
     BY <1>1 DEF Register, RegistryInv, RegistryTypes
  <2>2. early' \subseteq registered' BY <1>2, <1>3, <1>5
  <2> QED BY <1>1, <1>2, <1>4, <2>1, <2>2 DEF RegistryInv, RegistryTypes
<1>7. OnlyEarlyBefore' BY <1>1, <1>2, <1>3 DEF RegistryInv, OnlyEarlyBefore
<1>8. Packed'
  <2> SUFFICES ASSUME NEW i \in Entries
               PROVE  IF i < ndrivers'
                      THEN drivers'[i] # None /\ (initDone' => drivers'[i] \notin early')
                      ELSE drivers'[i] = None \/ (initDone' /\ drivers'[i] \in early')
    BY DEF Packed
  <2>1. IF i < ndrivers THEN drivers[i] # None /\ (initDone => drivers[i] \notin early)
                        ELSE drivers[i] = None \/ (initDone /\ drivers[i] \in early)
     BY DEF RegistryInv, Packed
  <2>2. CASE i = ndrivers BY <1>1, <1>2, <1>3, <1>5, <2>2 DEF Entries
  <2>3. CASE i # ndrivers BY <1>1, <1>2, <1>3, <2>1, <2>3 DEF Entries
  <2> QED BY <2>2, <2>3
<1>9. KeptAreThere'
  <2> SUFFICES ASSUME NEW x \in registered', ~(initDone' /\ x \in early')
               PROVE  \E k \in Entries : k < ndrivers' /\ drivers'[k] = x
    BY DEF KeptAreThere
  <2>1. CASE x = d BY <1>1, <1>2, <2>1 DEF Entries
  <2>2. CASE x # d
    <3>1. PICK k \in Entries : k < ndrivers /\ drivers[k] = x
       BY <1>2, <1>3, <2>2 DEF RegistryInv, KeptAreThere
    <3> QED BY <1>1, <1>2, <3>1 DEF Entries
  <2> QED BY <2>1, <2>2
<1>10. Crowded'
  <2>1. /\ ndrivers <= Len(Builtin) + Cardinality(registered)
        /\ \A i \in Entries : drivers[i] # None => i < Len(Builtin) + Cardinality(registered)
     BY DEF RegistryInv, Crowded
  <2> DEFINE n == Len(Builtin) + Cardinality(registered)
  <2>2. Len(Builtin) \in Nat /\ n \in Nat BY <1>4
  <2>3. Len(Builtin)' + Cardinality(registered)' = n + 1 BY <1>2, <1>4, <2>2
  <2>4. ndrivers + 1 <= n + 1 BY <1>1, <2>1, <2>2 DEF Entries
  <2>5. ASSUME NEW i \in Entries, drivers'[i] # None PROVE i < n + 1
    <3>1. i <= ndrivers \/ drivers[i] # None BY <1>1, <1>2, <2>5 DEF Entries
    <3> QED BY <1>1, <2>1, <2>2, <3>1 DEF Entries
  <2> QED BY <1>2, <2>3, <2>4, <2>5 DEF Crowded
<1>11. OnlyFullTablesOverrun'
  <2>1. overrun => Cardinality(registered) >= TableSize - Len(Builtin)
     BY DEF RegistryInv, OnlyFullTablesOverrun
  <2>2. Len(Builtin) \in Nat OBVIOUS
  <2> QED BY <1>2, <1>4, <2>1, <2>2 DEF OnlyFullTablesOverrun
<1> QED BY <1>6, <1>7, <1>8, <1>9, <1>10, <1>11

\* Every action keeps the invariant.
LEMMA RegistryStep ==
    RegistryInv /\ [RegistryNext]_registryVars => RegistryInv'
<1> USE RegistryAssumption
<1> SUFFICES ASSUME RegistryInv, [RegistryNext]_registryVars PROVE RegistryInv'
  OBVIOUS
<1>1. initDone => /\ early' = early
                  /\ \A i \in Entries : drivers[i] # None /\ drivers[i] \notin early =>
                         drivers'[i] = drivers[i]
   BY EntriesStay
<1>2. \A c \in Ids : open[c] # None =>
         /\ initDone /\ open[c].at \in Entries /\ open[c].by \in Drivers /\ open[c].by # None
         /\ open[c].by \notin early => drivers[open[c].at] = open[c].by
   BY DEF RegistryInv, RegistryTypes, OnlyEarlyBefore, ConnectionsKeepTheirDriver
<1>3. UNCHANGED open => ConnectionsKeepTheirDriver'
   BY <1>1, <1>2 DEF ConnectionsKeepTheirDriver
<1>4. Len(Builtin) \in Nat /\ Cardinality(registered) \in Nat
   BY RegisteredCounted DEF RegistryInv
<1>5. CASE Initialised /\ UNCHANGED <<open, registered, early, overrun>>
  <2>1. RegistryTypes' BY <1>5, InitialisedSafe DEF RegistryInv, RegistryTypes
  <2>2. OnlyFullTablesOverrun' BY <1>5 DEF RegistryInv, OnlyFullTablesOverrun
  <2> QED BY <1>3, <1>5, <2>1, <2>2, InitialisedSafe DEF RegistryInv
<1>6. ASSUME NEW d \in AppDrivers, Register(d) PROVE RegistryInv'
  BY <1>3, <1>6, RegisterSafe DEF RegistryInv, Register
<1>7. ASSUME NEW d \in AppDrivers, RegisterOutside(d) PROVE RegistryInv'
  <2>1. /\ UNCHANGED <<drivers, ndrivers, initDone, open, registered, early>>
        /\ ndrivers = TableSize /\ overrun' = TRUE
     BY <1>7 DEF RegisterOutside
  <2>2. OnlyFullTablesOverrun'
     BY <1>4, <2>1 DEF RegistryInv, Crowded, OnlyFullTablesOverrun
  <2>3. RegistryTypes' BY <2>1 DEF RegistryInv, RegistryTypes
  <2>4. OnlyEarlyBefore' /\ Packed' /\ KeptAreThere' /\ Crowded'
     BY <2>1 DEF RegistryInv, OnlyEarlyBefore, Packed, KeptAreThere, Crowded
  <2> QED BY <1>3, <2>1, <2>2, <2>3, <2>4 DEF RegistryInv
<1>8. ASSUME NEW name \in Names, LookupFails(name) PROVE RegistryInv'
  <2>1. Initialised /\ UNCHANGED <<open, registered, early>>
        /\ overrun' = (overrun \/ LeavesTable(Filled, name))
     BY <1>8 DEF LookupFails
  <2>2. LeavesTable(Filled, name) => Cardinality(registered) >= TableSize - Len(Builtin)
    <3>1. TableSize - 1 \in Entries BY <1>4 DEF Entries
    <3>2. LeavesTable(Filled, name) => Filled[TableSize - 1] # None BY <3>1 DEF LeavesTable
    <3> QED BY <1>4, <3>1, <3>2, FilledPacked
  <2>3. OnlyFullTablesOverrun' BY <2>1, <2>2 DEF RegistryInv, OnlyFullTablesOverrun
  <2>4. overrun' \in BOOLEAN BY <2>1, ZenonT(30)
  <2>5. RegistryTypes' BY <2>1, <2>4, InitialisedSafe DEF RegistryInv, RegistryTypes
  <2> QED BY <1>3, <2>1, <2>3, <2>5, InitialisedSafe DEF RegistryInv
<1>9. ASSUME NEW name \in Names, NEW i \in Entries, NEW c \in Ids, OpenConnection(name, i, c)
      PROVE  RegistryInv'
  <2>1. Initialised /\ UNCHANGED <<registered, early, overrun>>
        /\ open' = [open EXCEPT ![c] = [at |-> i, by |-> Filled[i]]]
        /\ drivers' = Filled /\ Filled[i] # None
     BY <1>9 DEF OpenConnection, Initialised, Lookup
  <2>2. Filled[i] \in Drivers BY <2>1, FilledPacked
  <2>3. RegistryTypes' BY <2>1, <2>2, InitialisedSafe DEF RegistryInv, RegistryTypes
  <2>4. ConnectionsKeepTheirDriver'
    <3> SUFFICES ASSUME NEW x \in Ids, open'[x] # None, open'[x].by \notin early'
                 PROVE  drivers'[open'[x].at] = open'[x].by
      BY DEF ConnectionsKeepTheirDriver
    <3>1. CASE x = c BY <2>1, <3>1 DEF RegistryInv, RegistryTypes
    <3>2. CASE x # c
      <4>1. open'[x] = open[x] BY <2>1, <3>2 DEF RegistryInv, RegistryTypes
      <4> QED BY <1>1, <1>2, <2>1, <4>1
    <3> QED BY <3>1, <3>2
  <2>5. OnlyFullTablesOverrun' BY <2>1 DEF RegistryInv, OnlyFullTablesOverrun
  <2> QED BY <2>1, <2>3, <2>4, <2>5, InitialisedSafe DEF RegistryInv
<1>10. ASSUME NEW c \in Ids, CloseConnection(c) PROVE RegistryInv'
  <2>1. /\ UNCHANGED <<drivers, ndrivers, initDone, registered, early, overrun>>
        /\ open' = [open EXCEPT ![c] = None]
     BY <1>10 DEF CloseConnection
  <2>2. RegistryTypes' BY <2>1 DEF RegistryInv, RegistryTypes
  <2>3. /\ OnlyEarlyBefore' /\ Packed' /\ KeptAreThere' /\ Crowded'
        /\ OnlyFullTablesOverrun'
     BY <2>1 DEF RegistryInv, RegistryTypes, OnlyEarlyBefore, Packed, KeptAreThere, Crowded,
        OnlyFullTablesOverrun
  <2>4. ConnectionsKeepTheirDriver'
     BY <2>1 DEF RegistryInv, RegistryTypes, ConnectionsKeepTheirDriver
  <2> QED BY <2>2, <2>3, <2>4 DEF RegistryInv
<1>11. CASE UNCHANGED registryVars
  <2>1. UNCHANGED <<drivers, ndrivers, initDone, open, registered, early, overrun>>
     BY <1>11 DEF registryVars
  <2>2. RegistryTypes' BY <2>1 DEF RegistryInv, RegistryTypes
  <2>3. /\ OnlyEarlyBefore' /\ Packed' /\ KeptAreThere' /\ Crowded'
        /\ OnlyFullTablesOverrun'
     BY <2>1 DEF RegistryInv, OnlyEarlyBefore, Packed, KeptAreThere, Crowded,
        OnlyFullTablesOverrun
  <2> QED BY <1>3, <2>1, <2>2, <2>3 DEF RegistryInv
<1> QED
  BY <1>5, <1>6, <1>7, <1>8, <1>9, <1>10, <1>11
   DEF RegistryNext, InitLibrary, Query

\* The invariant holds of every run.
LEMMA RegistrySafe == RegistrySpec => []RegistryInv
<1>1. RegistryInit => RegistryInv
  <2> USE RegistryAssumption
  <2> SUFFICES ASSUME RegistryInit PROVE RegistryInv
    OBVIOUS
  <2>1. Len(Builtin) \in Nat OBVIOUS
  <2>2. Cardinality(registered) = 0 /\ IsFiniteSet(registered)
     BY FS_EmptySet DEF RegistryInit
  <2>3. RegistryTypes
    <3>1. drivers \in [Entries -> Drivers \cup {None}] BY DEF RegistryInit
    <3>2. open \in [Ids -> [at : Entries, by : Drivers] \cup {None}] BY DEF RegistryInit
    <3>3. ndrivers \in 0 .. TableSize BY DEF RegistryInit
    <3>4. /\ initDone \in BOOLEAN /\ registered \subseteq AppDrivers
          /\ early \subseteq registered /\ overrun \in BOOLEAN
       BY DEF RegistryInit
    <3> QED BY <2>2, <3>1, <3>2, <3>3, <3>4 DEF RegistryTypes
  <2>4. Packed BY DEF RegistryInit, Packed, Entries
  <2>5. Crowded BY <2>1, <2>2 DEF RegistryInit, Crowded
  <2>6. /\ OnlyEarlyBefore /\ KeptAreThere /\ ConnectionsKeepTheirDriver
        /\ OnlyFullTablesOverrun
     BY DEF RegistryInit, OnlyEarlyBefore, KeptAreThere, ConnectionsKeepTheirDriver,
        OnlyFullTablesOverrun
  <2> QED BY <2>3, <2>4, <2>5, <2>6 DEF RegistryInv
<1>2. RegistryInv /\ [RegistryNext]_registryVars => RegistryInv' BY RegistryStep
<1> QED BY <1>1, <1>2, PTL DEF RegistrySpec

\* An open connection's index still names the driver that opened it, so that
\* sdb_close hands the object to the close function it came from (sdb.c:211-212),
\* unless that driver was registered before sdb_init.
THEOREM ConnectionsKeepTheirDriverAlways == RegistrySpec => []ConnectionsKeepTheirDriver
<1>1. RegistryInv => ConnectionsKeepTheirDriver BY DEF RegistryInv
<1> QED BY <1>1, RegistrySafe, PTL

\* Registrations and scans stay inside the table until the application has registered
\* as many drivers as the builtins leave entries (sdb.c:96-100, sdb.c:118).
THEOREM OnlyFullTablesOverrunAlways == RegistrySpec => []OnlyFullTablesOverrun
<1>1. RegistryInv => OnlyFullTablesOverrun BY DEF RegistryInv
<1> QED BY <1>1, RegistrySafe, PTL

\* A name that has led to a driver goes on leading to it, unless that driver was
\* registered before sdb_init.
THEOREM NamesKeepTheirDriverAlways == RegistrySpec => NamesKeepTheirDriver
<1>1. RegistryInv /\ [RegistryNext]_registryVars =>
        [\A name \in Names, i \in Entries :
            initDone /\ Lookup(drivers, name, i) /\ drivers[i] \notin early =>
                Lookup(drivers', name, i) /\ drivers'[i] = drivers[i]]_registryVars
  <2> SUFFICES ASSUME RegistryInv, [RegistryNext]_registryVars, initDone,
                      NEW name \in Names, NEW i \in Entries,
                      Lookup(drivers, name, i), drivers[i] \notin early
               PROVE  Lookup(drivers', name, i) /\ drivers'[i] = drivers[i]
    OBVIOUS
  <2>1. \A k \in Entries : drivers[k] # None /\ drivers[k] \notin early =>
           drivers'[k] = drivers[k]
     BY EntriesStay
  <2>2. i < ndrivers /\ \A k \in Entries : k < ndrivers =>
           drivers[k] # None /\ drivers[k] \notin early
     BY DEF RegistryInv, Packed, Lookup
  <2>3. \A k \in Entries : k <= i => drivers'[k] = drivers[k]
     BY <2>1, <2>2 DEF RegistryInv, RegistryTypes, Entries
  <2> QED BY <2>3 DEF Lookup, Entries
<1> QED BY <1>1, RegistrySafe, PTL DEF RegistrySpec, NamesKeepTheirDriver

---------------------------------------------------------------------------
(* The scan of lookup_driver finds what is there *)

\* Of some entries that hold something, one is the first: the numbers below any of
\* them that are not in the set cannot be mapped to their predecessors one to one.
LEMMA FirstEntry ==
    ASSUME NEW T \in SUBSET Nat, NEW n \in T
    PROVE  \E i \in T : i <= n /\ \A k \in T : i <= k
<1> SUFFICES ASSUME \A i \in T : i <= n => \E k \in T : k < i
             PROVE  FALSE
  OBVIOUS
<1> DEFINE U == {x \in 0 .. n : \E k \in T : k <= x}
           pred == [x \in U |-> x - 1]
<1>1. \A x \in U : x - 1 \in U
  <2> TAKE x \in U
  <2>1. PICK k \in T : k <= x OBVIOUS
  <2>2. PICK j \in T : j < k BY <2>1
  <2>3. x - 1 \in 0 .. n /\ j <= x - 1 BY <2>1, <2>2
  <2> QED BY <2>3
<1>2. IsFiniteSet(U)
  <2>1. IsFiniteSet(0 .. n) BY FS_Interval
  <2> QED BY <2>1, FS_Subset
<1>3. pred \in Injection(U, U)
  <2>1. pred \in [U -> U] BY <1>1
  <2>2. \A a, b \in U : pred[a] = pred[b] => a = b OBVIOUS
  <2> HIDE DEF U
  <2> QED BY <2>1, <2>2 DEF Injection, IsInjective
<1>4. pred \in Surjection(U, U)
  <2> HIDE DEF pred, U
  <2> QED BY <1>2, <1>3, FS_Injection
<1>5. PICK x \in U : pred[x] = n
  <2>1. n \in U OBVIOUS
  <2> QED BY <1>4, <2>1 DEF Surjection
<1> QED BY <1>5

\* In a table that has no empty entry before entry k, the scan for the name of the
\* driver in k ends at an entry of that name.
LEMMA LookupFinds ==
    ASSUME NEW table, NEW k \in Entries, \A i \in Entries : i <= k => table[i] # None
    PROVE  \E i \in Entries : i <= k /\ Lookup(table, NameOf[table[k]], i)
<1> DEFINE T == {i \in Entries : table[i] # None /\ NameOf[table[i]] = NameOf[table[k]]}
<1>1. T \subseteq Nat /\ k \in T BY DEF Entries
<1>2. PICK i \in T : i <= k /\ \A j \in T : i <= j BY <1>1, FirstEntry
<1>3. \A j \in Entries : j < i => table[j] # None BY <1>1, <1>2 DEF Entries
<1>4. \A j \in Entries : j < i => j \notin T BY <1>2 DEF Entries
<1> QED BY <1>2, <1>3, <1>4 DEF Lookup

\* What the application has registered stays in the table, and its name leads to it
\* or to a driver that was there before (sdb.c:89-101, sdb.c:240-261), but for what
\* it had registered before sdb_init ran.
THEOREM RegisteredAreFoundAlways == RegistrySpec => []RegisteredAreFound
<1>1. RegistryInv => RegisteredAreFound
  <2> SUFFICES ASSUME RegistryInv, NEW d \in registered, ~(initDone /\ d \in early)
               PROVE  \E i, k \in Entries :
                         i <= k /\ Lookup(drivers, NameOf[d], i) /\ drivers[k] = d
    BY DEF RegisteredAreFound
  <2>1. PICK k \in Entries : k < ndrivers /\ drivers[k] = d BY DEF RegistryInv, KeptAreThere
  <2>2. \A i \in Entries : i <= k => drivers[i] # None
     BY <2>1 DEF RegistryInv, RegistryTypes, Packed, Entries
  <2> QED BY <2>1, <2>2, LookupFinds
<1> QED BY <1>1, RegistrySafe, PTL
=============================================================================
