------------------------- MODULE TextDriver_proofs -------------------------
(***************************************************************************)
(* Proofs about the text driver, for any header, files and queries, any    *)
(* number of processes, and any number of crashes: of the types, of what a *)
(* damaged file stays, and of the table that TextTable promises.           *)
(***************************************************************************)
EXTENDS TextDriver, FiniteSetTheorems, SequenceTheorems, TLAPS

\* What get_valeurs returns.
Rows == [1 .. Width -> Nat]

\* A process in a query.
Calls == [query : Queries, at : Stages, seen : TextFiles \cup {NULL}, answer : Answers \cup {NULL}]

---------------------------------------------------------------------------
(* The operators of the model *)

\* What sequences are to the provers.
LEMMA SeqFacts ==
    /\ \A T, s : s \in Seq(T) =>
          /\ Len(s) \in Nat /\ DOMAIN s = 1 .. Len(s) /\ (s = <<>> <=> Len(s) = 0)
          /\ s \in [1 .. Len(s) -> T]
          /\ \A i \in 1 .. Len(s) : s[i] \in T
    /\ \A T, n : \A s \in [1 .. n -> T] : n \in Nat => s \in Seq(T) /\ Len(s) = n
<1>1. \A T, s : s \in Seq(T) =>
         /\ Len(s) \in Nat /\ DOMAIN s = 1 .. Len(s) /\ (s = <<>> <=> Len(s) = 0)
         /\ s \in [1 .. Len(s) -> T]
         /\ \A i \in 1 .. Len(s) : s[i] \in T
   OBVIOUS
<1>2. ASSUME NEW T, NEW n \in Nat, NEW s \in [1 .. n -> T]
      PROVE  s \in Seq(T) /\ Len(s) = n
  <2>1. s \in Seq(T) BY SeqDef, Zenon
  <2>2. DOMAIN s = 1 .. n /\ DOMAIN s = 1 .. Len(s) /\ Len(s) \in Nat BY <1>1, <2>1, Zenon
  <2>3. \A m \in Nat : 1 .. m = 1 .. n => m = n
    <3>1. ASSUME NEW m \in Nat, 1 .. m = 1 .. n PROVE m = n
      <4>1. m > 0 => m \in 1 .. n BY <3>1
      <4>2. n > 0 => n \in 1 .. m BY <3>1
      <4> QED BY <4>1, <4>2
    <3> QED BY <3>1
  <2> QED BY <2>1, <2>2, <2>3, Zenon
<1> QED BY <1>1, <1>2, Zenon

\* A set of numbers that holds n has a least element.
LEMMA Least ==
    ASSUME NEW T \in SUBSET Nat, NEW n \in T
    PROVE  \E i \in T : i <= n /\ \A k \in T : i <= k
<1> SUFFICES ASSUME \A i \in T : i <= n => \E k \in T : k < i
             PROVE  FALSE
  OBVIOUS
<1> DEFINE U == {x \in 0 .. n : \E k \in T : k <= x}
           pred == [x \in U |-> x - 1]
<1>1. \A x \in U : x - 1 \in U
  <2> TAKE x \in U
  <2>1. PICK k \in T : k <= x OBVIOUS
  <2>2. PICK j \in T : j < k BY <2>1
  <2>3. x - 1 \in 0 .. n /\ j <= x - 1 BY <2>1, <2>2
  <2> QED BY <2>3
<1>2. IsFiniteSet(U)
  <2>1. IsFiniteSet(0 .. n) BY FS_Interval
  <2> QED BY <2>1, FS_Subset
<1>3. pred \in Injection(U, U)
  <2>1. pred \in [U -> U] BY <1>1
  <2>2. \A a, b \in U : pred[a] = pred[b] => a = b OBVIOUS
  <2> HIDE DEF U
  <2> QED BY <2>1, <2>2 DEF Injection, IsInjective
<1>4. pred \in Surjection(U, U)
  <2> HIDE DEF pred, U
  <2> QED BY <1>2, <1>3, FS_Injection
<1>5. PICK x \in U : pred[x] = n
  <2>1. n \in U OBVIOUS
  <2> QED BY <1>4, <2>1 DEF Surjection
<1> QED BY <1>5

\* The greatest of some places is one of them.
LEMMA MaxIsOne ==
    ASSUME NEW n \in Nat, NEW S \in SUBSET (1 .. n), S # {}
    PROVE  Max(S) \in S
<1> DEFINE T == {n - i : i \in S}
<1>1. PICK j \in S : TRUE OBVIOUS
<1>2. T \in SUBSET Nat /\ n - j \in T BY <1>1
<1>3. PICK t \in T : \A k \in T : t <= k
  <2> HIDE DEF T
  <2> QED BY <1>2, Least
<1>4. PICK m \in S : t = n - m BY <1>3
<1>5. \A i \in S : m >= i
  <2>1. ASSUME NEW i \in S PROVE m >= i
    <3>1. n - i \in T OBVIOUS
    <3>2. t <= n - i BY <1>3, <3>1
    <3> QED BY <1>4, <3>2
  <2> QED BY <2>1
<1> QED BY <1>5, Zenon DEF Max

\* A column's place in the header, or 0.
LEMMA PlaceOfColumn ==
    ASSUME NEW c
    PROVE  NumChamps(Header, c) \in 0 .. Width
<1> DEFINE at == {i \in DOMAIN Header : Header[i] = c}
<1>1. Header \in Seq(Nat) BY TextAssumption
<1>2. Width \in Nat /\ DOMAIN Header = 1 .. Width BY <1>1, SeqFacts, ZenonT(60) DEF Width
<1>3. at # {} => Max(at) \in at
  <2>1. at \in SUBSET (1 .. Width) BY <1>2
  <2> HIDE DEF at
  <2> QED BY <1>2, <2>1, MaxIsOne
<1>4. at # {} => Max(at) \in 1 .. Width
  <2>1. at \subseteq 1 .. Width BY <1>2
  <2> HIDE DEF at
  <2> QED BY <1>3, <2>1
<1>5. NumChamps(Header, c) = IF at = {} THEN 0 ELSE Max(at) BY DEF NumChamps
<1> HIDE DEF at
<1> QED BY <1>2, <1>4, <1>5

\* A row is a value for each column, and reading it again as a line changes nothing.
LEMMA RowIsRow ==
    /\ Width \in Nat
    /\ Rows \subseteq Seq(Nat)
    /\ \A line \in Seq(Nat) : Row(line) \in Rows
    /\ \A row \in Rows : Row(row) = row
<1>1. Width \in Nat
  <2>1. Header \in Seq(Nat) BY TextAssumption
  <2> QED BY <2>1, SeqFacts, ZenonT(60) DEF Width
<1>2. ASSUME NEW row \in Rows PROVE row \in Seq(Nat) /\ Len(row) = Width
   BY <1>1, SeqFacts, ZenonT(60) DEF Rows
<1>3. ASSUME NEW line \in Seq(Nat) PROVE Row(line) \in Rows
  <2>1. Len(line) \in Nat /\ \A i \in 1 .. Len(line) : line[i] \in Nat BY SeqFacts, ZenonT(60)
  <2>2. \A i \in 1 .. Width : (IF i <= Len(line) THEN line[i] ELSE Blank) \in Nat
     BY <1>1, <2>1 DEF Blank
  <2> QED BY <2>2 DEF Row, GetValeurs, Rows
<1>4. ASSUME NEW row \in Rows PROVE Row(row) = row
  <2>1. Len(row) = Width BY <1>2
  <2>2. \A i \in 1 .. Width : (IF i <= Len(row) THEN row[i] ELSE Blank) = row[i]
     BY <1>1, <2>1
  <2>3. row = [i \in 1 .. Width |-> row[i]] BY DEF Rows
  <2>4. Row(row) = [i \in 1 .. Width |-> IF i <= Len(row) THEN row[i] ELSE Blank]
     BY DEF Row, GetValeurs
  <2> QED BY <2>2, <2>3, <2>4
<1> QED BY <1>1, <1>2, <1>3, <1>4

\* An update changes a row into a row.
LEMMA AssignedIsRow ==
    ASSUME NEW row \in Rows, NEW set \in Seq([col : Nat, value : Nat])
    PROVE  Assigned(Header, row, set) \in Rows
<1>1. Len(set) \in Nat /\ DOMAIN set = 1 .. Len(set)
      /\ \A j \in 1 .. Len(set) : set[j] \in [col : Nat, value : Nat]
   BY SeqFacts, ZenonT(60)
<1>2. DOMAIN row = 1 .. Width /\ \A i \in 1 .. Width : row[i] \in Nat BY DEF Rows
<1> DEFINE by(i) == {j \in DOMAIN set : NumChamps(Header, set[j].col) = i}
           new(i) == IF by(i) = {} THEN row[i] ELSE set[Max(by(i))].value
<1>3. ASSUME NEW i \in 1 .. Width PROVE new(i) \in Nat
  <2>1. CASE by(i) = {} BY <1>2, <2>1
  <2>2. CASE by(i) # {}
    <3>1. by(i) \in SUBSET (1 .. Len(set)) BY <1>1
    <3>2. Max(by(i)) \in 1 .. Len(set)
      <4> HIDE DEF by
      <4>1. Max(by(i)) \in by(i) BY <1>1, <2>2, <3>1, MaxIsOne
      <4> QED BY <3>1, <4>1
    <3>3. \A j \in 1 .. Len(set) : set[j].value \in Nat BY <1>1
    <3> HIDE DEF by
    <3> QED BY <2>2, <3>2, <3>3
  <2> QED BY <2>1, <2>2
<1>4. Assigned(Header, row, set) = [i \in 1 .. Width |-> new(i)]
   BY <1>2, Zenon DEF Assigned
<1> HIDE DEF new
<1> QED BY <1>3, <1>4 DEF Rows

\* What a select passes to the callback.
LEMMA ResultIsValues ==
    ASSUME NEW q \in Queries, q.op = "select", NEW row \in Rows
    PROVE  GetResult(Header, row, q.cols) \in Seq(Nat)
<1>1. q.cols \in Seq(Nat) /\ \A i \in DOMAIN q.cols : NumChamps(Header, q.cols[i]) # 0
   BY TextAssumption, Zenon DEF TextAssumption
<1>2. CASE q.cols = <<>>
  <2>1. row \in Seq(Nat) BY RowIsRow
  <2> QED BY <1>2, <2>1, Zenon DEF GetResult
<1>3. CASE q.cols # <<>>
  <2>1. Len(q.cols) \in Nat /\ DOMAIN q.cols = 1 .. Len(q.cols) BY <1>1, SeqFacts, ZenonT(60)
  <2>2. ASSUME NEW i \in 1 .. Len(q.cols) PROVE row[NumChamps(Header, q.cols[i])] \in Nat
    <3>1. NumChamps(Header, q.cols[i]) \in 0 .. Width BY PlaceOfColumn
    <3>2. NumChamps(Header, q.cols[i]) # 0 BY <1>1, <2>1
    <3>3. \A k \in 1 .. Width : row[k] \in Nat BY DEF Rows
    <3> QED BY <3>1, <3>2, <3>3, RowIsRow
  <2>3. GetResult(Header, row, q.cols) = [i \in 1 .. Len(q.cols) |-> row[NumChamps(Header, q.cols[i])]]
     BY <1>3, <2>1, Zenon DEF GetResult
  <2>4. GetResult(Header, row, q.cols) \in [1 .. Len(q.cols) -> Nat] BY <2>2, <2>3
  <2> QED BY <2>1, <2>4, SeqFacts, ZenonT(60)
<1> QED BY <1>2, <1>3

\* The places of a sequence can be counted off: there is an i-th one for each i.
LEMMA IthPlace ==
    ASSUME NEW n \in Nat, NEW S \in SUBSET (1 .. n)
    PROVE  /\ IsFiniteSet(S) /\ Cardinality(S) \in Nat
           /\ \A i \in 1 .. Cardinality(S) : \E k \in S : Cardinality({j \in S : j <= k}) = i
<1>1. IsFiniteSet(S) /\ Cardinality(S) \in Nat
  <2>1. IsFiniteSet(1 .. n) BY FS_Interval
  <2>2. IsFiniteSet(S) BY <2>1, FS_Subset
  <2> QED BY <2>2, FS_CardinalityType
<1> DEFINE upto(k) == {j \in S : j <= k}
           count == [k \in S |-> Cardinality(upto(k))]
<1>2. ASSUME NEW k \in S
      PROVE  IsFiniteSet(upto(k)) /\ Cardinality(upto(k)) \in 1 .. Cardinality(S)
  <2>1. upto(k) \in SUBSET S OBVIOUS
  <2>2. k \in upto(k) OBVIOUS
  <2> HIDE DEF upto
  <2>3. IsFiniteSet(upto(k)) /\ Cardinality(upto(k)) <= Cardinality(S) BY <1>1, <2>1, FS_Subset
  <2>4. Cardinality(upto(k)) \in Nat BY <2>3, FS_CardinalityType
  <2>5. Cardinality(upto(k)) # 0 BY <2>2, <2>3, FS_EmptySet
  <2> QED BY <1>1, <2>3, <2>4, <2>5
<1>3. ASSUME NEW k \in S, NEW m \in S, k < m PROVE Cardinality(upto(k)) < Cardinality(upto(m))
  <2>1. upto(k) \in SUBSET upto(m)
    <3>1. \A j \in S : j \in Int /\ k \in Int /\ m \in Int OBVIOUS
    <3>2. \A j \in S : j <= k => j <= m
      <4> HIDE DEF upto
      <4> QED BY <1>3, <3>1
    <3> QED BY <3>2
  <2>2. m \in upto(m) /\ m \notin upto(k) BY <1>3
  <2>3. IsFiniteSet(upto(k)) /\ IsFiniteSet(upto(m)) BY <1>2
  <2>4. Cardinality(upto(k)) \in Nat /\ Cardinality(upto(m)) \in Nat BY <1>2
  <2> HIDE DEF upto
  <2>5. Cardinality(upto(k)) <= Cardinality(upto(m)) /\ (Cardinality(upto(k)) = Cardinality(upto(m)) => upto(k) = upto(m))
     BY <2>1, <2>3, FS_Subset
  <2> QED BY <2>2, <2>4, <2>5
<1>4. count \in Injection(S, 1 .. Cardinality(S))
  <2>1. count \in [S -> 1 .. Cardinality(S)] BY <1>2
  <2>2. ASSUME NEW k \in S, NEW m \in S, count[k] = count[m] PROVE k = m
    <3>1. Cardinality(upto(k)) = Cardinality(upto(m)) BY <2>2
    <3>2. Cardinality(upto(k)) \in Int /\ Cardinality(upto(m)) \in Int BY <1>2
    <3> HIDE DEF upto
    <3>3. ~(k < m) BY <1>3, <3>1, <3>2
    <3>4. ~(m < k) BY <1>3, <3>1, <3>2
    <3> QED BY <3>3, <3>4
  <2> HIDE DEF count
  <2> QED BY <2>1, <2>2 DEF Injection, IsInjective
<1>5. count \in Surjection(S, 1 .. Cardinality(S))
  <2>1. IsFiniteSet(1 .. Cardinality(S)) /\ Cardinality(1 .. Cardinality(S)) = Cardinality(S)
     BY <1>1, FS_Interval
  <2> HIDE DEF count
  <2> QED BY <1>4, <2>1, FS_Injection
<1>6. ASSUME NEW i \in 1 .. Cardinality(S) PROVE \E k \in S : Cardinality({j \in S : j <= k}) = i
  <2>1. PICK k \in S : count[k] = i
    <3> HIDE DEF count
    <3> QED BY <1>5 DEF Surjection
  <2> QED BY <2>1
<1> QED BY <1>1, <1>6

\* Choosing from a sequence of rows gives rows of it, as many as there are places.
LEMMA ChosenRows ==
    ASSUME NEW rows \in Seq(Rows), NEW S \in SUBSET DOMAIN rows
    PROVE  /\ Chosen(rows, S) \in Seq(Rows)
           /\ Len(Chosen(rows, S)) = Cardinality(S)
           /\ Cardinality(S) \in Nat
           /\ S # {} => Chosen(rows, S) # <<>>
<1>1. Len(rows) \in Nat /\ DOMAIN rows = 1 .. Len(rows)
      /\ \A i \in 1 .. Len(rows) : rows[i] \in Rows
   BY SeqFacts, ZenonT(60)
<1>2. S \in SUBSET (1 .. Len(rows)) BY <1>1
<1>3. /\ IsFiniteSet(S) /\ Cardinality(S) \in Nat
      /\ \A i \in 1 .. Cardinality(S) : \E k \in S : Cardinality({j \in S : j <= k}) = i
   BY <1>1, <1>2, IthPlace
<1> DEFINE place(i) == CHOOSE k \in S : Cardinality({j \in S : j <= k}) = i
<1>4. \A i \in 1 .. Cardinality(S) : place(i) \in S BY <1>3, Zenon
<1>5. Chosen(rows, S) = [i \in 1 .. Cardinality(S) |-> rows[place(i)]] BY DEF Chosen
<1> HIDE DEF place
<1>6. Chosen(rows, S) \in [1 .. Cardinality(S) -> Rows] BY <1>1, <1>2, <1>4, <1>5
<1>7. Chosen(rows, S) \in Seq(Rows) /\ Len(Chosen(rows, S)) = Cardinality(S)
   BY <1>3, <1>6, SeqFacts, ZenonT(60)
<1>8. S # {} => Cardinality(S) # 0 BY <1>3, FS_EmptySet
<1>9. S # {} => Chosen(rows, S) # <<>> BY <1>7, <1>8, SeqFacts, ZenonT(60)
<1> QED BY <1>3, <1>7, <1>9

\* Rows can be lines.
LEMMA RowsAreLines == Seq(Rows) \subseteq Seq(Seq(Nat))
<1> SUFFICES ASSUME NEW rows \in Seq(Rows) PROVE rows \in Seq(Seq(Nat)) OBVIOUS
<1>1. Len(rows) \in Nat /\ rows \in [1 .. Len(rows) -> Rows] BY SeqFacts, ZenonT(60)
<1>2. rows \in [1 .. Len(rows) -> Seq(Nat)] BY <1>1, RowIsRow
<1> QED BY <1>1, <1>2, SeqFacts, ZenonT(60)

\* What is read from lines are rows, and from rows the rows themselves.
LEMMA ContentsAreRows ==
    /\ \A lines \in Seq(Seq(Nat)) :
          /\ Contents(lines) \in Seq(Rows)
          /\ Len(Contents(lines)) = Len(lines)
          /\ \A i \in 1 .. Len(lines) : Contents(lines)[i] = Row(lines[i])
    /\ \A rows \in Seq(Rows) : Contents(rows) = rows
<1>1. ASSUME NEW lines \in Seq(Seq(Nat))
      PROVE  /\ Contents(lines) \in Seq(Rows) /\ Len(Contents(lines)) = Len(lines)
             /\ \A i \in 1 .. Len(lines) : Contents(lines)[i] = Row(lines[i])
  <2>1. Len(lines) \in Nat /\ DOMAIN lines = 1 .. Len(lines)
        /\ \A i \in 1 .. Len(lines) : lines[i] \in Seq(Nat)
     BY SeqFacts, ZenonT(60)
  <2>2. \A i \in 1 .. Len(lines) : Row(lines[i]) \in Rows BY <2>1, RowIsRow
  <2>3. Contents(lines) = [i \in 1 .. Len(lines) |-> Row(lines[i])] BY <2>1 DEF Contents
  <2>4. Contents(lines) \in [1 .. Len(lines) -> Rows] BY <2>2, <2>3
  <2>5. \A i \in 1 .. Len(lines) : Contents(lines)[i] = Row(lines[i]) BY <2>3
  <2> QED BY <2>1, <2>4, <2>5, SeqFacts, ZenonT(60)
<1>2. ASSUME NEW rows \in Seq(Rows) PROVE Contents(rows) = rows
  <2>1. DOMAIN rows = 1 .. Len(rows) /\ (\A i \in 1 .. Len(rows) : rows[i] \in Rows)
        /\ rows \in [1 .. Len(rows) -> Rows]
     BY SeqFacts, ZenonT(60)
  <2>2. \A i \in 1 .. Len(rows) : Row(rows[i]) = rows[i] BY <2>1, RowIsRow
  <2>3. rows = [i \in 1 .. Len(rows) |-> rows[i]] BY <2>1
  <2> QED BY <2>1, <2>2, <2>3 DEF Contents
<1> QED BY <1>1, <1>2

\* Lines that follow others are read behind them.
LEMMA ContentsJoined ==
    /\ \A s, u \in Seq(Seq(Nat)) : Contents(s \o u) = Contents(s) \o Contents(u)
    /\ Contents(<<>>) = <<>>
    /\ \A line \in Seq(Nat) : Contents(<<line>>) = <<Row(line)>>
    /\ \A s \in Seq(Seq(Nat)), line \in Seq(Nat) :
          Contents(s \o <<line>>) = Contents(s) \o <<Row(line)>>
<1>1. ASSUME NEW s \in Seq(Seq(Nat)), NEW u \in Seq(Seq(Nat))
      PROVE  Contents(s \o u) = Contents(s) \o Contents(u)
  <2> DEFINE a == s \o u
             cs == Contents(s)
             cu == Contents(u)
             b == cs \o cu
  <2>1. /\ a \in Seq(Seq(Nat)) /\ Len(a) = Len(s) + Len(u) /\ Len(s) \in Nat /\ Len(u) \in Nat
        /\ \A i \in 1 .. Len(s) + Len(u) : a[i] = IF i <= Len(s) THEN s[i] ELSE u[i - Len(s)]
     OBVIOUS
  <2> HIDE DEF a
  <2>2. /\ Contents(a) \in Seq(Rows) /\ Len(Contents(a)) = Len(a)
        /\ \A i \in 1 .. Len(a) : Contents(a)[i] = Row(a[i])
     BY <2>1, ContentsAreRows, Zenon
  <2>3. /\ cs \in Seq(Rows) /\ Len(cs) = Len(s) /\ \A i \in 1 .. Len(s) : cs[i] = Row(s[i])
        /\ cu \in Seq(Rows) /\ Len(cu) = Len(u) /\ \A i \in 1 .. Len(u) : cu[i] = Row(u[i])
     BY ContentsAreRows, Zenon
  <2> HIDE DEF cs, cu
  <2>4. /\ b \in Seq(Rows) /\ Len(b) = Len(cs) + Len(cu)
        /\ \A i \in 1 .. Len(cs) + Len(cu) : b[i] = IF i <= Len(cs) THEN cs[i] ELSE cu[i - Len(cs)]
     BY <2>3
  <2> HIDE DEF b
  <2>5. ASSUME NEW i \in 1 .. Len(a) PROVE Contents(a)[i] = b[i]
    <3>1. CASE i <= Len(s)
      <4>1. i \in 1 .. Len(s) /\ i \in 1 .. Len(s) + Len(u) BY <2>1, <3>1
      <4>2. Contents(a)[i] = Row(a[i]) /\ a[i] = s[i] BY <2>1, <2>2, <3>1, <4>1
      <4>3. b[i] = cs[i] /\ cs[i] = Row(s[i]) BY <2>3, <2>4, <3>1, <4>1
      <4> QED BY <4>2, <4>3
    <3>2. CASE ~(i <= Len(s))
      <4>1. i - Len(s) \in 1 .. Len(u) BY <2>1, <3>2
      <4> QED BY <2>1, <2>2, <2>3, <2>4, <3>2, <4>1
    <3> QED BY <3>1, <3>2
  <2>6. \A x, y \in Seq(Rows) : Len(x) = Len(y) /\ (\A i \in 1 .. Len(x) : x[i] = y[i]) => x = y
     BY SeqEqual
  <2>7. Contents(a) = b BY <2>1, <2>2, <2>3, <2>4, <2>5, <2>6
  <2> QED BY <2>7 DEF a, b, cs, cu
<1>2. Contents(<<>>) = <<>> BY DEF Contents
<1>3. ASSUME NEW line \in Seq(Nat) PROVE Contents(<<line>>) = <<Row(line)>>
   BY DEF Contents
<1>4. ASSUME NEW s \in Seq(Seq(Nat)), NEW line \in Seq(Nat)
      PROVE  Contents(s \o <<line>>) = Contents(s) \o <<Row(line)>>
  <2>1. <<line>> \in Seq(Seq(Nat)) OBVIOUS
  <2> QED BY <1>1, <1>3, <2>1, Zenon
<1> QED BY <1>1, <1>2, <1>3, <1>4, Zenon

\* Both scans see the lines behind the header, and one more of a file that ends in a
\* newline.
LEMMA ScansAreRows ==
    ASSUME NEW g \in TextFiles, g.lines # <<>>
    PROVE  /\ Tail(g.lines) \in Seq(Seq(Nat)) /\ Len(Tail(g.lines)) = Len(g.lines) - 1
           /\ SelectScan(g) \in Seq(Rows) /\ RewriteScan(g) \in Seq(Rows)
           /\ Contents(Tail(g.lines)) \in Seq(Rows) /\ Row(Last(g.lines)) \in Rows
           /\ ~g.nl => /\ SelectScan(g) = Contents(Tail(g.lines))
                       /\ RewriteScan(g) = Contents(Tail(g.lines))
           /\ g.nl => /\ SelectScan(g) = Contents(Tail(g.lines)) \o <<Row(<<>>)>>
                      /\ RewriteScan(g) = Contents(Tail(g.lines)) \o <<Row(Last(g.lines))>>
<1>1. g.lines \in Seq(Seq(Nat)) BY DEF TextFiles
<1>2. /\ Tail(g.lines) \in Seq(Seq(Nat)) /\ Len(Tail(g.lines)) = Len(g.lines) - 1
      /\ Last(g.lines) \in Seq(Nat)
   BY <1>1 DEF Last
<1>3. <<>> \in Seq(Nat) OBVIOUS
<1>4. << <<>> >> \in Seq(Seq(Nat)) /\ <<Last(g.lines)>> \in Seq(Seq(Nat)) BY <1>2, <1>3
<1>5. <<>> \in Seq(Seq(Nat)) OBVIOUS
<1>6. Tail(g.lines) \o <<>> = Tail(g.lines) BY <1>2
<1>7. /\ Tail(g.lines) \o << <<>> >> \in Seq(Seq(Nat))
      /\ Tail(g.lines) \o <<Last(g.lines)>> \in Seq(Seq(Nat))
   BY <1>2, <1>4
<1>8. \A line \in Seq(Nat) : Contents(Tail(g.lines) \o <<line>>) = Contents(Tail(g.lines)) \o <<Row(line)>>
   BY <1>2, ContentsJoined, Zenon
<1>9. Contents(Tail(g.lines)) \in Seq(Rows) /\ Row(Last(g.lines)) \in Rows
   BY <1>2, ContentsAreRows, RowIsRow, Zenon
<1>10. g.nl => /\ SelectScan(g) = Contents(Tail(g.lines)) \o <<Row(<<>>)>>
               /\ RewriteScan(g) = Contents(Tail(g.lines)) \o <<Row(Last(g.lines))>>
   BY <1>2, <1>3, <1>8, Zenon DEF SelectScan, RewriteScan
<1> QED BY <1>2, <1>6, <1>7, <1>9, <1>10, ContentsAreRows, Zenon DEF SelectScan, RewriteScan

\* The rows that meet a condition.
LEMMA MatchingRows ==
    ASSUME NEW q, NEW rows \in Seq(Rows)
    PROVE  Matching(q, rows) \in Seq(Rows) /\ Len(Matching(q, rows)) \in Nat
<1>1. Met(Header, rows, q.where) \in SUBSET DOMAIN rows BY DEF Met
<1>2. Matching(q, rows) \in Seq(Rows) BY <1>1, ChosenRows, Zenon DEF Matching
<1> QED BY <1>2, SeqFacts, ZenonT(60)

\* What a rewrite leaves in the temporary file is a file of rows.
LEMMA RewrittenIsFile ==
    ASSUME NEW q \in Queries, Rewrites(q), NEW g \in TextFiles, g.lines # <<>>
    PROVE  Rewritten(q, g) \in TextFiles /\ Rewritten(q, g).lines \in Seq(Rows)
<1> DEFINE rows == RewriteScan(g)
<1>1. rows \in Seq(Rows) BY ScansAreRows
<1> HIDE DEF rows
<1>2. Len(rows) \in Nat /\ DOMAIN rows = 1 .. Len(rows)
      /\ \A i \in 1 .. Len(rows) : rows[i] \in Rows
   BY <1>1, SeqFacts, ZenonT(60)
<1>3. CASE q.op = "update"
  <2>1. q.set \in Seq([col : Nat, value : Nat])
     BY <1>3, TextAssumption, Zenon DEF TextAssumption
  <2> DEFINE new(i) == IF Matches(q, rows[i]) THEN Assigned(Header, rows[i], q.set) ELSE rows[i]
             lines == [i \in DOMAIN rows |-> new(i)]
  <2>2. \A i \in 1 .. Len(rows) : new(i) \in Rows BY <1>2, <2>1, AssignedIsRow, Zenon
  <2>3. lines \in [1 .. Len(rows) -> Rows]
    <3> HIDE DEF new
    <3> QED BY <1>2, <2>2
  <2>4. lines \in Seq(Rows)
    <3> HIDE DEF lines
    <3> QED BY <1>2, <2>3, SeqFacts, ZenonT(60)
  <2>5. Rewritten(q, g) = [lines |-> lines, nl |-> FALSE]
     BY <1>3, Zenon DEF Rewritten, UpdateTemp, rows
  <2> HIDE DEF lines
  <2>6. lines \in Seq(Seq(Nat)) BY <2>4, RowsAreLines
  <2> QED BY <2>4, <2>5, <2>6 DEF TextFiles
<1>4. CASE q.op # "update"
  <2> DEFINE met   == Met(Header, rows, q.where)
             lines == Chosen(rows, DOMAIN rows \ met)
             nl    == met # DOMAIN rows /\ Len(rows) \in met
  <2>1. lines \in Seq(Rows)
    <3>1. DOMAIN rows \ met \in SUBSET DOMAIN rows OBVIOUS
    <3> HIDE DEF met
    <3> QED BY <1>1, <3>1, ChosenRows
  <2>2. Rewritten(q, g) = [lines |-> lines, nl |-> nl]
     BY <1>4, Zenon DEF Rewritten, DeleteTemp, rows
  <2>3. nl \in BOOLEAN BY Zenon
  <2> HIDE DEF lines, nl
  <2>4. lines \in Seq(Seq(Nat)) BY <2>1, RowsAreLines
  <2> QED BY <2>1, <2>2, <2>3, <2>4 DEF TextFiles
<1> QED BY <1>3, <1>4

\* The header is a line.
LEMMA HeaderIsLine == HeaderWord \in Seq(Nat)
<1>1. Header \in Seq(Nat) BY TextAssumption
<1>2. Len(Header) \in Nat /\ DOMAIN Header = 1 .. Len(Header)
      /\ \A i \in 1 .. Len(Header) : Header[i] \in Nat
   BY <1>1, SeqFacts, ZenonT(60)
<1>3. HeaderWord \in [1 .. Len(Header) -> Nat] BY <1>2 DEF HeaderWord, HeaderLine, Brace
<1> QED BY <1>2, <1>3, SeqFacts, ZenonT(60)

\* What the copying back leaves is a file with a header and no newline at its end.
LEMMA CopiedIsFile ==
    ASSUME NEW g \in TextFiles, NEW buffer \in Seq(Nat)
    PROVE  /\ Copied(g, buffer) \in TextFiles
           /\ HasHeader(Copied(g, buffer)) /\ ~Copied(g, buffer).nl
           /\ Added(g, buffer) \in Seq(Seq(Nat))
           /\ Tail(Copied(g, buffer).lines) = g.lines \o Added(g, buffer)
<1> DEFINE more == Added(g, buffer)
           lines == <<HeaderWord>> \o g.lines \o more
<1>1. g.lines \in Seq(Seq(Nat)) BY DEF TextFiles
<1>2. g.lines # <<>> => Last(g.lines) \in Seq(Nat) BY <1>1 DEF Last
<1>3. more = <<>> \/ more = <<buffer>> \/ (g.lines # <<>> /\ more = <<Last(g.lines)>>)
  <2>1. CASE g.lines = <<>> BY <2>1 DEF Added
  <2>2. CASE g.lines # <<>> /\ g.nl BY <2>2 DEF Added
  <2>3. CASE g.lines # <<>> /\ ~g.nl BY <2>3 DEF Added
  <2> QED BY <2>1, <2>2, <2>3
<1> HIDE DEF more
<1>4. more \in Seq(Seq(Nat))
  <2>1. <<buffer>> \in Seq(Seq(Nat)) /\ <<>> \in Seq(Seq(Nat)) OBVIOUS
  <2>2. g.lines # <<>> => <<Last(g.lines)>> \in Seq(Seq(Nat)) BY <1>2
  <2> QED BY <1>3, <2>1, <2>2, Zenon
<1>5. <<HeaderWord>> \in Seq(Seq(Nat)) BY HeaderIsLine
<1>6. <<HeaderWord>> \o g.lines \in Seq(Seq(Nat)) BY <1>1, <1>5
<1>7. lines \in Seq(Seq(Nat)) /\ Len(lines) > 0 /\ lines[1] = HeaderWord
   BY <1>1, <1>4, <1>5, <1>6
<1>8. Tail(lines) = g.lines \o more
  <2>1. g.lines \o more \in Seq(Seq(Nat)) BY <1>1, <1>4
  <2>2. \A l, t : t \in Seq(Seq(Nat)) /\ l \in Seq(Nat) => Tail(<<l>> \o t) = t
    <3> SUFFICES ASSUME NEW l \in Seq(Nat), NEW t \in Seq(Seq(Nat)) PROVE Tail(<<l>> \o t) = t
      OBVIOUS
    <3>1. <<l>> \in Seq(Seq(Nat)) OBVIOUS
    <3> QED BY <3>1, SMTT(30)
  <2>3. lines = <<HeaderWord>> \o (g.lines \o more)
    <3>1. \A a, b, c \in Seq(Seq(Nat)) : (a \o b) \o c = a \o (b \o c) BY ConcatAssociative
    <3> QED BY <1>1, <1>4, <1>5, <3>1, Zenon
  <2> HIDE DEF lines
  <2> QED BY <2>1, <2>2, <2>3, HeaderIsLine, Zenon
<1>9. Copied(g, buffer) = [lines |-> lines, nl |-> FALSE] BY Zenon DEF Copied, more
<1>10. lines # <<>> BY <1>7
<1> HIDE DEF lines
<1>11. Copied(g, buffer) \in TextFiles BY <1>7, <1>9 DEF TextFiles
<1>12. Copied(g, buffer).lines = lines /\ Copied(g, buffer).nl = FALSE BY <1>9
<1> QED BY <1>4, <1>7, <1>8, <1>10, <1>11, <1>12 DEF HasHeader, more

\* A line added at the end of a file leaves the lines before it as they are.
LEMMA AppendedLine ==
    ASSUME NEW lines \in Seq(Seq(Nat)), NEW line \in Seq(Nat), lines # <<>>
    PROVE  /\ Append(lines, line) \in Seq(Seq(Nat)) /\ Append(lines, line) # <<>>
           /\ Append(lines, line)[1] = lines[1]
           /\ Contents(Tail(Append(lines, line))) = Append(Contents(Tail(lines)), Row(line))
<1>1. \A T, s, e : s \in Seq(T) /\ e \in T =>
         /\ Append(s, e) \in Seq(T) /\ Append(s, e) # <<>> /\ Len(Append(s, e)) = Len(s) + 1
         /\ \A i \in 1 .. Len(s) : Append(s, e)[i] = s[i]
         /\ Append(s, e)[Len(s) + 1] = e
  <2>1. ASSUME NEW T, NEW s \in Seq(T), NEW e \in T
        PROVE  /\ Append(s, e) \in Seq(T) /\ Append(s, e) # <<>> /\ Len(Append(s, e)) = Len(s) + 1
               /\ \A i \in 1 .. Len(s) : Append(s, e)[i] = s[i]
               /\ Append(s, e)[Len(s) + 1] = e
    <3>1. /\ Append(s, e) \in Seq(T) /\ Len(Append(s, e)) = Len(s) + 1
          /\ \A i \in 1 .. Len(s) : Append(s, e)[i] = s[i]
          /\ Append(s, e)[Len(s) + 1] = e
       OBVIOUS
    <3>2. Append(s, e) # <<>> BY AppendProperties, ZenonT(60)
    <3> QED BY <3>1, <3>2
  <2> QED BY <2>1, Zenon
<1>2. \A T, s : s \in Seq(T) /\ s # <<>> =>
         /\ Len(s) \in Nat /\ Len(s) > 0 /\ Tail(s) \in Seq(T) /\ Len(Tail(s)) = Len(s) - 1
         /\ \A i \in 1 .. Len(s) - 1 : Tail(s)[i] = s[i + 1]
   OBVIOUS
<1> DEFINE all  == Append(lines, line)
           rest == Tail(lines)
           more == Append(Contents(rest), Row(line))
<1>3. /\ all \in Seq(Seq(Nat)) /\ all # <<>> /\ Len(all) = Len(lines) + 1
      /\ \A i \in 1 .. Len(lines) : all[i] = lines[i]
      /\ all[Len(lines) + 1] = line
  <2>1. lines \in Seq(Seq(Nat)) /\ line \in Seq(Nat) OBVIOUS
  <2> HIDE DEF all
  <2>2. all = Append(lines, line) BY DEF all
  <2>3. \A s, e : s \in Seq(Seq(Nat)) /\ e \in Seq(Nat) =>
         /\ Append(s, e) \in Seq(Seq(Nat)) /\ Append(s, e) # <<>> /\ Len(Append(s, e)) = Len(s) + 1
         /\ \A i \in 1 .. Len(s) : Append(s, e)[i] = s[i]
         /\ Append(s, e)[Len(s) + 1] = e
     BY <1>1, Zenon
  <2> QED BY <2>1, <2>2, <2>3, ZenonT(60)
<1>4. /\ Len(lines) \in Nat /\ Len(lines) > 0 /\ rest \in Seq(Seq(Nat)) /\ Len(rest) = Len(lines) - 1
      /\ \A i \in 1 .. Len(lines) - 1 : rest[i] = lines[i + 1]
   BY <1>2, Zenon
<1> HIDE DEF all
<1>5. /\ Tail(all) \in Seq(Seq(Nat)) /\ Len(Tail(all)) = Len(all) - 1
      /\ \A i \in 1 .. Len(all) - 1 : Tail(all)[i] = all[i + 1]
   BY <1>2, <1>3, ZenonT(60)
<1>6. /\ Contents(Tail(all)) \in Seq(Rows) /\ Len(Contents(Tail(all))) = Len(lines)
      /\ \A i \in 1 .. Len(lines) : Contents(Tail(all))[i] = Row(all[i + 1])
  <2>1. /\ Contents(Tail(all)) \in Seq(Rows) /\ Len(Contents(Tail(all))) = Len(Tail(all))
        /\ \A i \in 1 .. Len(Tail(all)) : Contents(Tail(all))[i] = Row(Tail(all)[i])
     BY <1>5, ContentsAreRows
  <2>2. Len(Tail(all)) = Len(lines) /\ \A i \in 1 .. Len(lines) : Tail(all)[i] = all[i + 1]
     BY <1>3, <1>4, <1>5
  <2> QED BY <2>1, <2>2
<1> HIDE DEF rest
<1>7. /\ Contents(rest) \in Seq(Rows) /\ Len(Contents(rest)) = Len(lines) - 1
      /\ \A i \in 1 .. Len(lines) - 1 : Contents(rest)[i] = Row(lines[i + 1])
  <2>1. /\ Contents(rest) \in Seq(Rows) /\ Len(Contents(rest)) = Len(rest)
        /\ \A i \in 1 .. Len(rest) : Contents(rest)[i] = Row(rest[i])
     BY <1>4, ContentsAreRows
  <2> QED BY <1>4, <2>1
<1>8. Row(line) \in Rows BY RowIsRow
<1>9. /\ more \in Seq(Rows) /\ Len(more) = Len(Contents(rest)) + 1
      /\ \A i \in 1 .. Len(Contents(rest)) : more[i] = Contents(rest)[i]
      /\ more[Len(Contents(rest)) + 1] = Row(line)
   BY <1>1, <1>7, <1>8
<1> HIDE DEF more
<1>10. Len(more) = Len(lines) BY <1>4, <1>7, <1>9
<1>11. ASSUME NEW i \in 1 .. Len(lines) PROVE Contents(Tail(all))[i] = more[i]
  <2>1. Contents(Tail(all))[i] = Row(all[i + 1]) BY <1>6
  <2>2. CASE i = Len(lines)
    <3>1. all[i + 1] = line BY <1>3, <2>2
    <3>2. more[i] = Row(line) BY <1>4, <1>7, <1>9, <2>2
    <3> QED BY <2>1, <3>1, <3>2
  <2>3. CASE i # Len(lines)
    <3>1. i \in 1 .. Len(lines) - 1 /\ i + 1 \in 1 .. Len(lines) BY <1>4, <2>3
    <3>2. all[i + 1] = lines[i + 1] BY <1>3, <3>1
    <3>3. more[i] = Row(lines[i + 1]) BY <1>4, <1>7, <1>9, <3>1
    <3> QED BY <2>1, <3>2, <3>3
  <2> QED BY <2>2, <2>3
<1>12. \A s, t \in Seq(Rows) : Len(s) = Len(t) /\ (\A i \in 1 .. Len(s) : s[i] = t[i]) => s = t
   BY SeqEqual
<1>13. Contents(Tail(all)) = more BY <1>6, <1>9, <1>10, <1>11, <1>12
<1>14. all[1] = lines[1] BY <1>3, <1>4
<1> QED BY <1>3, <1>13, <1>14 DEF all, rest, more

---------------------------------------------------------------------------
(* The inductive invariants *)

\* What a process knows of the table f and the temporary file t, by how far its query is.
Placed(c, f, t) ==
    /\ c.at = "answered" <=> c.answer # NULL
    /\ c.at \in {"reading", "append", "truncate", "unlink"} => f # NULL /\ HasHeader(f)
    /\ c.at \in {"reading", "truncate", "copy", "unlink"} => c.seen # NULL /\ HasHeader(c.seen)
    /\ c.at = "append" => c.query.op = "insert"
    /\ c.at \in {"truncate", "copy", "unlink"} => Rewrites(c.query) /\ t # NULL
    /\ c.at = "copy" => f = Empty
    /\ c.at \in {"reading", "truncate"} /\ Rewrites(c.query) => c.seen = f

\* An update or delete has the table to itself.
Alone ==
    \A p, o \in Procs :
        p # o /\ procs[p] # NULL /\ procs[o] # NULL => ~Rewrites(procs[p].query)

IInv ==
    /\ file \in TextFiles \cup {NULL} /\ temp \in TextFiles \cup {NULL}
    /\ procs \in [Procs -> Calls \cup {NULL}]
    /\ crashes \in 0 .. Crashes
    /\ Alone
    /\ \A p \in Procs : procs[p] # NULL => Placed(procs[p], file, temp)

\* What an update or delete that is about to truncate the file or to copy has written.
Settled(c, t) ==
    Rewrites(c.query) /\ c.at \in {"truncate", "copy"} => t = Rewritten(c.query, c.seen)

WrittenInv == \A p \in Procs : procs[p] # NULL => Settled(procs[p], temp)

\* A file that exists at first has a header.
WellFormed == \A g \in Files \ {NULL} : HasHeader(g)

---------------------------------------------------------------------------
(* What the steps do to a process *)

\* No query, file or answer is NULL.
LEMMA NotNull ==
    /\ NULL \notin Calls /\ NULL \notin TextFiles /\ NULL \notin Answers
    /\ NULL \notin Seq(Seq(Nat))
    /\ \A q \in Queries : \A a \in Answers \cup {NULL} : \A more \in Seq(Seq(Nat)) :
          [query |-> q, answer |-> a, more |-> more] # NULL
BY TextAssumption DEF TextAssumption, Calls

\* The answers that the steps give.
LEMMA AnswerTypes ==
    /\ Empty \in TextFiles /\ ~HasHeader(Empty)
    /\ [n |-> -1, rows |-> <<>>] \in Answers
    /\ \A n \in Int : [n |-> n, rows |-> <<>>] \in Answers
    /\ \A n \in Int, rows \in Seq(Seq(Nat)) : [n |-> n, rows |-> rows] \in Answers
<1>1. <<>> \in Seq(Seq(Nat)) OBVIOUS
<1> QED BY <1>1 DEF Empty, TextFiles, HasHeader, Answers

\* A process in a query, and what becomes of it.
LEMMA Forms ==
    ASSUME IInv, NEW p \in Procs, procs[p] # NULL
    PROVE  /\ procs[p] \in Calls /\ procs[p].query \in Queries /\ procs[p].at \in Stages
           /\ procs[p].seen \in TextFiles \cup {NULL} /\ procs[p].answer \in Answers \cup {NULL}
           /\ Placed(procs[p], file, temp)
           /\ \A w \in Stages : Moved(p, w) =>
                 \E c \in Calls : /\ procs' = [procs EXCEPT ![p] = c]
                                  /\ c.query = procs[p].query /\ c.at = w
                                  /\ c.seen = procs[p].seen /\ c.answer = procs[p].answer
<1>1. procs[p] \in Calls /\ Placed(procs[p], file, temp) BY DEF IInv
<1>2. procs \in [Procs -> Calls \cup {NULL}] BY DEF IInv
<1>3. /\ procs[p].query \in Queries /\ procs[p].at \in Stages
      /\ procs[p].seen \in TextFiles \cup {NULL} /\ procs[p].answer \in Answers \cup {NULL}
   BY <1>1 DEF Calls
<1>4. ASSUME NEW w \in Stages, Moved(p, w)
      PROVE  \E c \in Calls : /\ procs' = [procs EXCEPT ![p] = c]
                              /\ c.query = procs[p].query /\ c.at = w
                              /\ c.seen = procs[p].seen /\ c.answer = procs[p].answer
  <2> DEFINE c == [procs[p] EXCEPT !.at = w]
  <2>1. /\ c \in Calls /\ c.query = procs[p].query /\ c.at = w
        /\ c.seen = procs[p].seen /\ c.answer = procs[p].answer
     BY <1>1 DEF Calls
  <2>2. procs' = [procs EXCEPT ![p] = c] BY <1>4 DEF Moved
  <2> QED BY <2>1, <2>2
<1> QED BY <1>1, <1>3, <1>4, Zenon

\* A process that has its answer.
LEMMA AnsweredForm ==
    ASSUME IInv, NEW p \in Procs, procs[p] # NULL,
           NEW n, NEW rows, Answered(p, n, rows), [n |-> n, rows |-> rows] \in Answers
    PROVE  \E c \in Calls : /\ procs' = [procs EXCEPT ![p] = c]
                            /\ c.query = procs[p].query /\ c.at = "answered"
                            /\ c.seen = procs[p].seen /\ c.answer = [n |-> n, rows |-> rows]
<1>1. procs[p] \in Calls /\ procs \in [Procs -> Calls \cup {NULL}] BY DEF IInv
<1> DEFINE a == [n |-> n, rows |-> rows]
           c == [procs[p] EXCEPT !.at = "answered", !.answer = a]
<1>2. a \in Answers OBVIOUS
<1>3. procs' = [procs EXCEPT ![p] = c] BY <1>1 DEF Answered
<1> HIDE DEF a
<1>4. /\ c \in Calls /\ c.query = procs[p].query /\ c.at = "answered"
      /\ c.seen = procs[p].seen /\ c.answer = a
   BY <1>1, <1>2 DEF Calls, Stages
<1>5. \E d \in Calls : /\ procs' = [procs EXCEPT ![p] = d]
                       /\ d.query = procs[p].query /\ d.at = "answered"
                       /\ d.seen = procs[p].seen /\ d.answer = a
   BY <1>3, <1>4
<1> QED BY <1>5 DEF a

\* A step of one process keeps the invariant if its own place is right, and if it
\* changes the files only where no other process is, or by adding lines.
LEMMA Keeps ==
    ASSUME IInv, NEW p \in Procs, procs[p] # NULL,
           NEW c \in Calls \cup {NULL}, procs' = [procs EXCEPT ![p] = c],
           c # NULL => c.query = procs[p].query /\ Placed(c, file', temp'),
           file' \in TextFiles \cup {NULL}, temp' \in TextFiles \cup {NULL},
           crashes' \in 0 .. Crashes,
           \/ file' = file /\ temp' = temp
           \/ Rewrites(procs[p].query)
           \/ /\ temp' = temp
              /\ file # NULL /\ HasHeader(file) /\ file' # NULL /\ HasHeader(file')
    PROVE  IInv'
<1>1. procs \in [Procs -> Calls \cup {NULL}] /\ Alone
      /\ \A o \in Procs : procs[o] # NULL => Placed(procs[o], file, temp)
   BY DEF IInv
<1>2. /\ procs' \in [Procs -> Calls \cup {NULL}] /\ procs'[p] = c
      /\ \A o \in Procs : o # p => procs'[o] = procs[o]
   BY <1>1
<1>3. Alone'
  <2> SUFFICES ASSUME NEW a \in Procs, NEW b \in Procs,
                      a # b, procs'[a] # NULL, procs'[b] # NULL
               PROVE  ~Rewrites(procs'[a].query)
     BY DEF Alone
  <2>1. \A o \in Procs : procs'[o] # NULL => procs[o] # NULL /\ procs'[o].query = procs[o].query
     BY <1>2, Zenon
  <2> QED BY <1>1, <2>1, Zenon DEF Alone
<1>4. ASSUME NEW o \in Procs, procs'[o] # NULL PROVE Placed(procs'[o], file', temp')
  <2>1. CASE o = p BY <1>2, <1>4, <2>1, Zenon
  <2>2. CASE o # p
    <3>1. procs'[o] = procs[o] /\ Placed(procs[o], file, temp) BY <1>1, <1>2, <1>4, <2>2, Zenon
    <3>2. ~Rewrites(procs[p].query) /\ ~Rewrites(procs[o].query)
       BY <1>1, <1>4, <2>2, <3>1, Zenon DEF Alone
    <3>3. CASE file' = file /\ temp' = temp BY <3>1, <3>3
    <3>4. CASE /\ temp' = temp
               /\ file # NULL /\ HasHeader(file) /\ file' # NULL /\ HasHeader(file')
       BY <3>1, <3>2, <3>4 DEF Placed
    <3> QED BY <3>2, <3>3, <3>4
  <2> QED BY <2>1, <2>2
<1> QED BY <1>2, <1>3, <1>4, Zenon DEF IInv

---------------------------------------------------------------------------
(* The steps: what each one does, and that it keeps IInv *)

\* What each action does in a state of the invariant, which it keeps: a call begins.
LEMMA CallDoes ==
    ASSUME IInv, NEW p \in Procs, NEW q \in Queries, Call(p, q)
    PROVE  /\ procs[p] = NULL /\ UNCHANGED <<file, temp>>
           /\ \E c \in Calls : /\ procs' = [procs EXCEPT ![p] = c]
                               /\ c.query = q /\ c.at = "called" /\ c.answer = NULL
           /\ IInv'
<1> DEFINE c == [query |-> q, at |-> "called", seen |-> NULL, answer |-> NULL]
<1>1. /\ procs[p] = NULL /\ UNCHANGED <<file, temp, crashes>>
      /\ procs' = [procs EXCEPT ![p] = c]
      /\ \A o \in Procs : procs[o] # NULL => ~Rewrites(q) /\ ~Rewrites(procs[o].query)
   BY DEF Call
<1>2. c \in Calls /\ c.query = q /\ c.at = "called" /\ c.answer = NULL
   BY DEF Calls, Stages
<1> HIDE DEF c
<1>3. /\ procs \in [Procs -> Calls \cup {NULL}]
      /\ \A o \in Procs : procs[o] # NULL => Placed(procs[o], file, temp)
   BY DEF IInv
<1>4. /\ procs' \in [Procs -> Calls \cup {NULL}] /\ procs'[p] = c
      /\ \A o \in Procs : o # p => procs'[o] = procs[o]
   BY <1>1, <1>2, <1>3
<1>5. Alone'
  <2> SUFFICES ASSUME NEW a \in Procs, NEW b \in Procs,
                      a # b, procs'[a] # NULL, procs'[b] # NULL
               PROVE  ~Rewrites(procs'[a].query)
     BY DEF Alone
  <2>1. CASE a = p BY <1>1, <1>2, <1>4, <2>1, Zenon
  <2>2. CASE b = p BY <1>1, <1>2, <1>4, <2>2, Zenon
  <2>3. CASE a # p /\ b # p BY <1>4, <2>3, Zenon DEF IInv, Alone
  <2> QED BY <2>1, <2>2, <2>3
<1>6. ASSUME NEW o \in Procs, procs'[o] # NULL PROVE Placed(procs'[o], file', temp')
  <2>1. Placed(c, file, temp) BY <1>2 DEF Placed
  <2> QED BY <1>1, <1>3, <1>4, <1>6, <2>1, Zenon
<1>7. IInv' BY <1>1, <1>4, <1>5, <1>6 DEF IInv
<1> QED BY <1>1, <1>2, <1>7

\* open_table, and fopen of the temporary file.
LEMMA OpenDoes ==
    ASSUME IInv, NEW p \in Procs, Open(p)
    PROVE  /\ procs[p] # NULL /\ procs[p].at = "called" /\ procs[p].answer = NULL
           /\ file' = file /\ temp' = (IF Rewrites(procs[p].query) THEN Empty ELSE temp)
           /\ \E c \in Calls :
                 /\ procs' = [procs EXCEPT ![p] = c] /\ c.query = procs[p].query
                 /\ \/ /\ file = NULL \/ Torn
                       /\ c.at = "answered" /\ c.answer = [n |-> -1, rows |-> <<>>]
                    \/ /\ file # NULL /\ HasHeader(file)
                       /\ c.at \in {"append", "reading"} /\ c.seen = file /\ c.answer = NULL
           /\ IInv'
<1>1. /\ procs[p] # NULL /\ procs[p].at = "called" /\ file' = file /\ crashes' = crashes
      /\ temp' = (IF Rewrites(procs[p].query) THEN Empty ELSE temp)
   BY DEF Open, At
<1>2. /\ procs[p] \in Calls /\ procs[p].answer = NULL /\ Placed(procs[p], file, temp)
   BY <1>1, Forms, Zenon DEF Placed
<1>3. file \in TextFiles \cup {NULL} /\ temp \in TextFiles \cup {NULL} /\ crashes \in 0 .. Crashes
   BY DEF IInv
<1>4. temp' \in TextFiles \cup {NULL} BY <1>1, <1>3, AnswerTypes
<1>5. \/ file' = file /\ temp' = temp
      \/ Rewrites(procs[p].query)
   BY <1>1
<1>6. CASE file = NULL \/ Torn
  <2>1. Answered(p, -1, <<>>) BY <1>6 DEF Open, Unreadable
  <2>2. PICK c \in Calls : /\ procs' = [procs EXCEPT ![p] = c]
                           /\ c.query = procs[p].query /\ c.at = "answered"
                           /\ c.answer = [n |-> -1, rows |-> <<>>]
     BY <1>1, <2>1, AnswerTypes, AnsweredForm
  <2>3. c.answer # NULL BY <2>2, AnswerTypes, NotNull
  <2>4. Placed(c, file', temp') BY <2>2, <2>3 DEF Placed
  <2>5. IInv' BY <1>1, <1>3, <1>4, <1>5, <2>2, <2>4, Keeps, Zenon
  <2> QED BY <1>1, <1>2, <1>6, <2>2, <2>5, Zenon
<1>7. CASE file # NULL /\ ~Torn
  <2> DEFINE w == IF procs[p].query.op = "insert" THEN "append" ELSE "reading"
             c == [procs[p] EXCEPT !.seen = file, !.at = w]
  <2>1. procs' = [procs EXCEPT ![p] = c]
    <3>1. procs' = [procs EXCEPT ![p].seen = file, ![p].at = w] BY <1>7 DEF Open, Unreadable
    <3>2. procs \in [Procs -> Calls \cup {NULL}] BY DEF IInv
    <3> QED BY <3>1, <3>2
  <2>2. w \in {"append", "reading"} /\ w \in Stages
        /\ (w = "append" => procs[p].query.op = "insert")
     BY DEF Stages
  <2> HIDE DEF w
  <2>3. /\ c \in Calls /\ c.query = procs[p].query /\ c.at = w /\ c.seen = file /\ c.answer = NULL
     BY <1>2, <1>3, <2>2 DEF Calls
  <2> HIDE DEF c
  <2>4. file # NULL /\ HasHeader(file) BY <1>7 DEF Torn
  <2>5. Placed(c, file', temp') BY <1>1, <2>2, <2>3, <2>4 DEF Placed
  <2>6. IInv' BY <1>1, <1>3, <1>4, <1>5, <2>1, <2>3, <2>5, Keeps, Zenon
  <2> QED BY <1>1, <1>2, <2>1, <2>2, <2>3, <2>4, <2>6
<1> QED BY <1>6, <1>7

\* A scan goes on.
LEMMA ReadMoreDoes ==
    ASSUME IInv, NEW p \in Procs, ReadMore(p)
    PROVE  /\ procs[p] # NULL /\ procs[p].at = "reading" /\ procs[p].answer = NULL
           /\ ~Rewrites(procs[p].query)
           /\ file' = file /\ temp' = temp
           /\ \E c \in Calls : /\ procs' = [procs EXCEPT ![p] = c] /\ c.query = procs[p].query
                               /\ c.at = "reading" /\ c.answer = NULL
           /\ IInv'
<1>1. /\ procs[p] # NULL /\ procs[p].at = "reading" /\ file' = file /\ temp' = temp
      /\ crashes' = crashes /\ procs[p].seen # file
      /\ procs' = [procs EXCEPT ![p].seen = file]
   BY DEF ReadMore, At
<1>2. procs[p] \in Calls /\ Placed(procs[p], file, temp) BY <1>1, Forms, Zenon
<1>3. /\ procs[p].answer = NULL /\ ~Rewrites(procs[p].query)
      /\ file # NULL /\ HasHeader(file)
   BY <1>1, <1>2 DEF Placed
<1>4. file \in TextFiles \cup {NULL} /\ temp \in TextFiles \cup {NULL} /\ crashes \in 0 .. Crashes
      /\ procs \in [Procs -> Calls \cup {NULL}]
   BY DEF IInv
<1> DEFINE c == [procs[p] EXCEPT !.seen = file]
<1>5. procs' = [procs EXCEPT ![p] = c] BY <1>1, <1>4
<1>6. c \in Calls /\ c.query = procs[p].query /\ c.at = "reading" /\ c.seen = file /\ c.answer = NULL
   BY <1>1, <1>2, <1>3, <1>4 DEF Calls
<1> HIDE DEF c
<1>7. Placed(c, file', temp') BY <1>1, <1>3, <1>6 DEF Placed
<1>8. IInv' BY <1>1, <1>4, <1>5, <1>6, <1>7, Keeps, Zenon
<1> QED BY <1>1, <1>3, <1>5, <1>6, <1>8

\* A select has read the table.
LEMMA SelectEndsDoes ==
    ASSUME IInv, NEW p \in Procs, SelectEnds(p)
    PROVE  /\ procs[p] # NULL /\ procs[p].at = "reading" /\ procs[p].answer = NULL
           /\ procs[p].query.op = "select"
           /\ file # NULL /\ HasHeader(file) /\ file' = file /\ temp' = temp
           /\ LET q     == procs[p].query
                  found == Matching(q, SelectScan(file))
              IN  \E c \in Calls :
                     /\ procs' = [procs EXCEPT ![p] = c] /\ c.query = q /\ c.at = "answered"
                     /\ c.answer = [n |-> Len(found),
                                    rows |-> [i \in DOMAIN found |-> GetResult(Header, found[i], q.cols)]]
           /\ IInv'
<1> DEFINE q     == procs[p].query
           found == Matching(q, SelectScan(file))
           rows  == [i \in DOMAIN found |-> GetResult(Header, found[i], q.cols)]
<1>1. /\ procs[p] # NULL /\ procs[p].at = "reading" /\ file' = file /\ temp' = temp
      /\ crashes' = crashes /\ q.op = "select" /\ Answered(p, Len(found), rows)
   BY DEF SelectEnds, At
<1>2. procs[p] \in Calls /\ q \in Queries /\ Placed(procs[p], file, temp) BY <1>1, Forms, Zenon
<1>3. procs[p].answer = NULL /\ file # NULL /\ HasHeader(file)
   BY <1>1, <1>2 DEF Placed
<1>4. file \in TextFiles \cup {NULL} /\ temp \in TextFiles \cup {NULL} /\ crashes \in 0 .. Crashes
   BY DEF IInv
<1>5. found \in Seq(Rows) /\ Len(found) \in Nat
  <2>1. SelectScan(file) \in Seq(Rows) BY <1>3, <1>4, ScansAreRows DEF HasHeader
  <2> QED BY <2>1, MatchingRows
<1> HIDE DEF found
<1>6. [n |-> Len(found), rows |-> rows] \in Answers
  <2>1. DOMAIN found = 1 .. Len(found) /\ \A i \in 1 .. Len(found) : found[i] \in Rows
     BY <1>5, SeqFacts, ZenonT(60)
  <2>2. \A i \in 1 .. Len(found) : GetResult(Header, found[i], q.cols) \in Seq(Nat)
     BY <1>1, <1>2, <2>1, ResultIsValues
  <2>3. rows \in [1 .. Len(found) -> Seq(Nat)] BY <2>1, <2>2
  <2>4. rows \in Seq(Seq(Nat))
    <3> HIDE DEF rows
    <3> QED BY <1>5, <2>3, SeqFacts, ZenonT(60)
  <2> HIDE DEF rows
  <2>5. Len(found) \in Int BY <1>5
  <2> QED BY <2>4, <2>5, AnswerTypes
<1> HIDE DEF rows
<1>7. PICK c \in Calls : /\ procs' = [procs EXCEPT ![p] = c]
                         /\ c.query = q /\ c.at = "answered"
                         /\ c.answer = [n |-> Len(found), rows |-> rows]
   BY <1>1, <1>6, AnsweredForm
<1>8. Placed(c, file', temp')
  <2>1. c.answer # NULL BY <1>6, <1>7, NotNull
  <2> QED BY <1>7, <2>1 DEF Placed
<1>9. IInv' BY <1>1, <1>4, <1>7, <1>8, Keeps, Zenon
<1> QED BY <1>1, <1>3, <1>7, <1>9, Zenon DEF found, rows

\* A line is appended.
LEMMA InsertDoes ==
    ASSUME IInv, NEW p \in Procs, Insert(p)
    PROVE  /\ procs[p] # NULL /\ procs[p].at = "append" /\ procs[p].answer = NULL
           /\ procs[p].query.op = "insert" /\ procs[p].query.row \in Seq(Nat)
           /\ file # NULL /\ HasHeader(file) /\ temp' = temp
           /\ file' \in TextFiles /\ HasHeader(file') /\ ~file'.nl
           /\ file'.lines = Append(file.lines, procs[p].query.row)
           /\ \E c \in Calls :
                 /\ procs' = [procs EXCEPT ![p] = c] /\ c.query = procs[p].query
                 /\ c.at = "answered" /\ c.answer = [n |-> 0, rows |-> <<>>]
           /\ IInv'
<1> DEFINE row == procs[p].query.row
<1>1. /\ procs[p] # NULL /\ procs[p].at = "append" /\ temp' = temp
      /\ crashes' = crashes /\ Answered(p, 0, <<>>)
      /\ file' = [lines |-> Append(file.lines, row), nl |-> FALSE]
   BY DEF Insert, At
<1>2. procs[p] \in Calls /\ procs[p].query \in Queries /\ Placed(procs[p], file, temp)
   BY <1>1, Forms, Zenon
<1>3. /\ procs[p].answer = NULL /\ file # NULL /\ HasHeader(file)
      /\ procs[p].query.op = "insert"
   BY <1>1, <1>2 DEF Placed
<1>4. row \in Seq(Nat) BY <1>2, <1>3, TextAssumption DEF TextAssumption
<1> HIDE DEF row
<1>5. file \in TextFiles \cup {NULL} /\ temp \in TextFiles \cup {NULL} /\ crashes \in 0 .. Crashes
   BY DEF IInv
<1>6. file.lines \in Seq(Seq(Nat)) BY <1>3, <1>5 DEF TextFiles
<1>7. /\ Append(file.lines, row) \in Seq(Seq(Nat)) /\ Append(file.lines, row) # <<>>
      /\ file.lines # <<>> => Append(file.lines, row)[1] = file.lines[1]
   BY <1>3, <1>4, <1>6, AppendedLine, Zenon DEF HasHeader
<1>8. file' \in TextFiles /\ ~file'.nl /\ file'.lines = Append(file.lines, row)
   BY <1>1, <1>7 DEF TextFiles
<1>9. HasHeader(file') BY <1>3, <1>7, <1>8, Zenon DEF HasHeader
<1>10. file' # NULL BY <1>8, NotNull
<1>11. PICK c \in Calls : /\ procs' = [procs EXCEPT ![p] = c]
                          /\ c.query = procs[p].query /\ c.at = "answered"
                          /\ c.answer = [n |-> 0, rows |-> <<>>]
   BY <1>1, AnswerTypes, AnsweredForm
<1>12. c.answer # NULL BY <1>11, AnswerTypes, NotNull
<1>13. Placed(c, file', temp') BY <1>11, <1>12 DEF Placed
<1>14. IInv' BY <1>1, <1>3, <1>5, <1>8, <1>9, <1>10, <1>11, <1>13, Keeps, Zenon
<1> QED BY <1>1, <1>3, <1>4, <1>8, <1>9, <1>11, <1>14 DEF row

\* The rewritten rows are in the temporary file.
LEMMA CloseTempDoes ==
    ASSUME IInv, NEW p \in Procs, CloseTemp(p)
    PROVE  /\ procs[p] # NULL /\ procs[p].at = "reading" /\ procs[p].answer = NULL
           /\ Rewrites(procs[p].query) /\ procs[p].seen = file
           /\ file # NULL /\ HasHeader(file) /\ file' = file
           /\ temp' = Rewritten(procs[p].query, file)
           /\ \E c \in Calls :
                 /\ procs' = [procs EXCEPT ![p] = c] /\ c.query = procs[p].query
                 /\ c.at = "truncate" /\ c.seen = file /\ c.answer = NULL
           /\ IInv'
<1>1. /\ procs[p] # NULL /\ procs[p].at = "reading" /\ Rewrites(procs[p].query)
      /\ procs[p].seen = file /\ file' = file /\ crashes' = crashes /\ Moved(p, "truncate")
      /\ temp' = Rewritten(procs[p].query, file)
   BY DEF CloseTemp, At
<1>2. procs[p] \in Calls /\ procs[p].query \in Queries /\ Placed(procs[p], file, temp)
   BY <1>1, Forms, Zenon
<1>3. procs[p].answer = NULL /\ file # NULL /\ HasHeader(file) BY <1>1, <1>2 DEF Placed
<1>4. file \in TextFiles \cup {NULL} /\ crashes \in 0 .. Crashes BY DEF IInv
<1>5. temp' \in TextFiles
   BY <1>1, <1>2, <1>3, <1>4, RewrittenIsFile DEF HasHeader
<1>6. PICK c \in Calls : /\ procs' = [procs EXCEPT ![p] = c]
                         /\ c.query = procs[p].query /\ c.at = "truncate"
                         /\ c.seen = procs[p].seen /\ c.answer = procs[p].answer
  <2>1. "truncate" \in Stages BY DEF Stages
  <2> QED BY <1>1, <2>1, Forms, Zenon
<1>7. temp' # NULL BY <1>5, NotNull
<1>8. Placed(c, file', temp') BY <1>1, <1>3, <1>6, <1>7 DEF Placed
<1>9. IInv' BY <1>1, <1>4, <1>5, <1>6, <1>8, Keeps, Zenon
<1> QED BY <1>1, <1>3, <1>6, <1>9

\* The table is opened to be written again.
LEMMA TruncateDoes ==
    ASSUME IInv, NEW p \in Procs, Truncate(p)
    PROVE  /\ procs[p] # NULL /\ procs[p].at = "truncate" /\ procs[p].answer = NULL
           /\ Rewrites(procs[p].query) /\ procs[p].seen = file
           /\ file # NULL /\ HasHeader(file) /\ temp # NULL
           /\ file' = Empty /\ temp' = temp
           /\ \E c \in Calls :
                 /\ procs' = [procs EXCEPT ![p] = c] /\ c.query = procs[p].query
                 /\ c.at = "copy" /\ c.seen = file /\ c.answer = NULL
           /\ IInv'
<1>1. /\ procs[p] # NULL /\ procs[p].at = "truncate"
      /\ file' = Empty /\ temp' = temp /\ crashes' = crashes /\ Moved(p, "copy")
   BY DEF Truncate, At
<1>2. procs[p] \in Calls /\ Placed(procs[p], file, temp) BY <1>1, Forms, Zenon
<1>3. /\ procs[p].answer = NULL /\ file # NULL /\ HasHeader(file) /\ temp # NULL
      /\ Rewrites(procs[p].query) /\ procs[p].seen = file
   BY <1>1, <1>2 DEF Placed
<1>4. Empty \in TextFiles /\ temp \in TextFiles \cup {NULL} /\ crashes \in 0 .. Crashes
   BY AnswerTypes DEF IInv
<1>5. PICK c \in Calls : /\ procs' = [procs EXCEPT ![p] = c]
                         /\ c.query = procs[p].query /\ c.at = "copy"
                         /\ c.seen = procs[p].seen /\ c.answer = procs[p].answer
  <2>1. "copy" \in Stages BY DEF Stages
  <2> QED BY <1>1, <2>1, Forms, Zenon
<1>6. Placed(c, file', temp') BY <1>1, <1>3, <1>5 DEF Placed
<1>7. IInv'
  <2>1. file' \in TextFiles \cup {NULL} BY <1>1, <1>4
  <2> QED BY <1>1, <1>3, <1>4, <1>5, <1>6, <2>1, Keeps, Zenon
<1> QED BY <1>1, <1>3, <1>5, <1>7

\* Its header and the rows are written.
LEMMA CopyBackDoes ==
    ASSUME IInv, NEW p \in Procs, CopyBack(p)
    PROVE  /\ procs[p] # NULL /\ procs[p].at = "copy" /\ procs[p].answer = NULL
           /\ Rewrites(procs[p].query) /\ file = Empty /\ temp \in TextFiles
           /\ procs[p].seen \in TextFiles /\ procs[p].seen.lines # <<>>
           /\ file' = Copied(temp, Last(procs[p].seen.lines)) /\ temp' = temp
           /\ file' \in TextFiles /\ HasHeader(file') /\ ~file'.nl
           /\ Tail(file'.lines) = temp.lines \o Added(temp, Last(procs[p].seen.lines))
           /\ Added(temp, Last(procs[p].seen.lines)) \in Seq(Seq(Nat))
           /\ \E c \in Calls :
                 /\ procs' = [procs EXCEPT ![p] = c] /\ c.query = procs[p].query
                 /\ c.at = "unlink" /\ c.seen = procs[p].seen /\ c.answer = NULL
           /\ IInv'
<1>1. /\ procs[p] # NULL /\ procs[p].at = "copy" /\ temp' = temp /\ crashes' = crashes
      /\ file' = Copied(temp, Last(procs[p].seen.lines)) /\ Moved(p, "unlink")
   BY DEF CopyBack, At
<1>2. procs[p] \in Calls /\ procs[p].seen \in TextFiles \cup {NULL} /\ Placed(procs[p], file, temp)
   BY <1>1, Forms, Zenon
<1>3. /\ procs[p].answer = NULL /\ procs[p].seen # NULL /\ HasHeader(procs[p].seen)
      /\ temp # NULL /\ file = Empty /\ Rewrites(procs[p].query)
   BY <1>1, <1>2 DEF Placed
<1>4. temp \in TextFiles /\ temp \in TextFiles \cup {NULL} /\ crashes \in 0 .. Crashes
   BY <1>3 DEF IInv
<1>5. procs[p].seen \in TextFiles /\ procs[p].seen.lines # <<>>
   BY <1>2, <1>3 DEF HasHeader
<1>6. Last(procs[p].seen.lines) \in Seq(Nat) BY <1>5 DEF TextFiles, Last
<1>7. /\ file' \in TextFiles /\ HasHeader(file') /\ ~file'.nl
      /\ Tail(file'.lines) = temp.lines \o Added(temp, Last(procs[p].seen.lines))
      /\ Added(temp, Last(procs[p].seen.lines)) \in Seq(Seq(Nat))
   BY <1>1, <1>4, <1>6, CopiedIsFile
<1>8. file' # NULL BY <1>7, NotNull
<1>9. PICK c \in Calls : /\ procs' = [procs EXCEPT ![p] = c]
                         /\ c.query = procs[p].query /\ c.at = "unlink"
                         /\ c.seen = procs[p].seen /\ c.answer = procs[p].answer
  <2>1. "unlink" \in Stages BY DEF Stages
  <2> QED BY <1>1, <2>1, Forms, Zenon
<1>10. Placed(c, file', temp') BY <1>1, <1>3, <1>7, <1>8, <1>9 DEF Placed
<1>11. IInv' BY <1>1, <1>3, <1>4, <1>7, <1>9, <1>10, Keeps, Zenon
<1> QED BY <1>1, <1>3, <1>4, <1>5, <1>7, <1>9, <1>11

\* The temporary file goes.
LEMMA UnlinkDoes ==
    ASSUME IInv, NEW p \in Procs, Unlink(p)
    PROVE  /\ procs[p] # NULL /\ procs[p].at = "unlink" /\ procs[p].answer = NULL
           /\ Rewrites(procs[p].query) /\ file # NULL /\ HasHeader(file)
           /\ file' = file /\ temp' = NULL
           /\ \E c \in Calls :
                 /\ procs' = [procs EXCEPT ![p] = c] /\ c.query = procs[p].query
                 /\ c.at = "answered"
                 /\ c.answer = [n |-> Len(Matching(procs[p].query, RewriteScan(procs[p].seen))),
                                rows |-> <<>>]
           /\ IInv'
<1> DEFINE n == Len(Matching(procs[p].query, RewriteScan(procs[p].seen)))
<1>1. /\ procs[p] # NULL /\ procs[p].at = "unlink" /\ file' = file /\ temp' = NULL
      /\ crashes' = crashes /\ Answered(p, n, <<>>)
   BY DEF Unlink, At
<1>2. procs[p] \in Calls /\ procs[p].seen \in TextFiles \cup {NULL} /\ Placed(procs[p], file, temp)
   BY <1>1, Forms, Zenon
<1>3. /\ procs[p].answer = NULL /\ procs[p].seen # NULL /\ HasHeader(procs[p].seen)
      /\ file # NULL /\ HasHeader(file) /\ Rewrites(procs[p].query)
   BY <1>1, <1>2 DEF Placed
<1>4. n \in Nat
  <2>1. RewriteScan(procs[p].seen) \in Seq(Rows) BY <1>2, <1>3, ScansAreRows DEF HasHeader
  <2> QED BY <2>1, MatchingRows
<1> HIDE DEF n
<1>5. [n |-> n, rows |-> <<>>] \in Answers BY <1>4, AnswerTypes
<1>6. PICK c \in Calls : /\ procs' = [procs EXCEPT ![p] = c]
                         /\ c.query = procs[p].query /\ c.at = "answered"
                         /\ c.answer = [n |-> n, rows |-> <<>>]
   BY <1>1, <1>5, AnsweredForm
<1>7. c.answer # NULL BY <1>5, <1>6, NotNull
<1>8. Placed(c, file', temp') BY <1>6, <1>7 DEF Placed
<1>9. file \in TextFiles \cup {NULL} /\ crashes \in 0 .. Crashes BY DEF IInv
<1>10. IInv'
  <2>1. temp' \in TextFiles \cup {NULL} BY <1>1
  <2> QED BY <1>1, <1>3, <1>6, <1>8, <1>9, <2>1, Keeps, Zenon
<1> QED BY <1>1, <1>3, <1>6, <1>10 DEF n

\* The call ends, or its process does.
LEMMA LeaveDoes ==
    ASSUME IInv, NEW p \in Procs, Return(p) \/ Crash(p)
    PROVE  /\ procs[p] # NULL /\ Placed(procs[p], file, temp)
           /\ Return(p) => procs[p].at = "answered"
           /\ file' = file /\ temp' = temp /\ procs' = [procs EXCEPT ![p] = NULL]
           /\ IInv'
<1>1. /\ procs[p] # NULL /\ file' = file /\ temp' = temp
      /\ procs' = [procs EXCEPT ![p] = NULL]
      /\ Return(p) => procs[p].at = "answered"
   BY DEF Return, Crash, At
<1>2. crashes' \in 0 .. Crashes
  <2>1. crashes \in 0 .. Crashes /\ Crashes \in Nat BY TextAssumption DEF IInv, TextAssumption
  <2> QED BY <2>1 DEF Return, Crash
<1>3. file \in TextFiles \cup {NULL} /\ temp \in TextFiles \cup {NULL}
      /\ Placed(procs[p], file, temp)
   BY <1>1 DEF IInv
<1>4. NULL \in Calls \cup {NULL} OBVIOUS
<1>5. IInv' BY <1>1, <1>2, <1>3, <1>4, Keeps, Zenon
<1> QED BY <1>1, <1>3, <1>5

\* Every step keeps IInv.
LEMMA IInvStep == IInv /\ [Next]_vars => IInv'
<1> SUFFICES ASSUME IInv, [Next]_vars PROVE IInv' OBVIOUS
<1>1. CASE UNCHANGED vars
  <2>1. file' = file /\ temp' = temp /\ procs' = procs /\ crashes' = crashes
     BY <1>1 DEF vars
  <2> QED BY <2>1 DEF IInv, Alone
<1>2. CASE Next
  <2>1. PICK p \in Procs :
           \/ \E q \in Queries : Call(p, q)
           \/ Open(p) \/ ReadMore(p) \/ SelectEnds(p) \/ Insert(p)
           \/ CloseTemp(p) \/ Truncate(p) \/ CopyBack(p) \/ Unlink(p)
           \/ Return(p) \/ Crash(p)
     BY <1>2, Zenon DEF Next
  <2> QED BY <2>1, CallDoes, OpenDoes, ReadMoreDoes, SelectEndsDoes, InsertDoes, CloseTempDoes,
             TruncateDoes, CopyBackDoes, UnlinkDoes, LeaveDoes, Zenon
<1> QED BY <1>1, <1>2

\* The invariant holds before the first call.
LEMMA IInvInit == Init => IInv
<1> SUFFICES ASSUME Init PROVE IInv OBVIOUS
<1>1. /\ file \in TextFiles \cup {NULL} /\ temp = NULL /\ crashes = 0
      /\ procs = [p \in Procs |-> NULL]
   BY TextAssumption DEF Init, TextAssumption
<1>2. 0 \in 0 .. Crashes BY TextAssumption DEF TextAssumption
<1>3. procs \in [Procs -> Calls \cup {NULL}] /\ \A p \in Procs : procs[p] = NULL BY <1>1
<1> QED BY <1>1, <1>2, <1>3, Zenon DEF IInv, Alone

\* Types: the two files are lines of values, and a process is at a point of its
\* query that the query has, with a temporary file where it needs one
\* (text_driver.c:862-1089).
THEOREM TextTypes == Spec => []TypeOK
<1>1. IInv => TypeOK
  <2> SUFFICES ASSUME IInv PROVE TypeOK OBVIOUS
  <2>1. \A f \in TextFiles : DOMAIN f = {"lines", "nl"} BY DEF TextFiles
  <2>2. file = NULL \/ DOMAIN file = {"lines", "nl"} BY <2>1 DEF IInv
  <2>3. temp = NULL \/ DOMAIN temp = {"lines", "nl"} BY <2>1 DEF IInv
  <2>4. ASSUME NEW p \in Procs, procs[p] # NULL
        PROVE  /\ procs[p].query \in Queries /\ procs[p].at \in Stages
               /\ procs[p].at \in {"truncate", "copy", "unlink"} =>
                     Rewrites(procs[p].query) /\ temp # NULL
               /\ procs[p].at = "copy" => file = Empty
     BY <2>4, Forms, Zenon DEF Placed
  <2>5. crashes \in 0 .. Crashes BY DEF IInv
  <2> QED BY <2>2, <2>3, <2>4, <2>5, Zenon DEF TypeOK
<1> QED BY <1>1, IInvInit, IInvStep, PTL DEF Spec

\* A file without a header, once nobody is copying it back, stays as it is: no query
\* mends it and none writes to it (text_driver.c:849-861, 992-1005).
THEOREM DamageStaysForever == Spec => DamageStays
<1>1. ASSUME IInv, [Next]_vars, Unreadable, \A p \in Procs : ~At(p, "copy")
      PROVE  UNCHANGED file
  <2>1. file = NULL \/ ~HasHeader(file) BY <1>1 DEF Unreadable, Torn
  <2>2. CASE UNCHANGED vars BY <2>2 DEF vars
  <2>3. CASE Next
    <3>1. PICK p \in Procs :
             \/ \E q \in Queries : Call(p, q)
             \/ Open(p) \/ ReadMore(p) \/ SelectEnds(p) \/ Insert(p)
             \/ CloseTemp(p) \/ Truncate(p) \/ CopyBack(p) \/ Unlink(p)
             \/ Return(p) \/ Crash(p)
       BY <2>3, Zenon DEF Next
    <3>2. ~Insert(p) BY <1>1, <2>1, InsertDoes, Zenon
    <3>3. ~Truncate(p) BY <1>1, <2>1, TruncateDoes, Zenon
    <3>4. ~CopyBack(p) BY <1>1, Zenon DEF CopyBack
    <3> QED BY <3>1, <3>2, <3>3, <3>4
            DEF Call, Open, ReadMore, SelectEnds, CloseTemp, Unlink, Return, Crash
  <2> QED BY <1>1, <2>2, <2>3
<1>2. IInv /\ [Next]_vars => [Unreadable /\ (\A p \in Procs : ~At(p, "copy")) => UNCHANGED file]_vars
   BY <1>1
<1> QED BY <1>2, IInvInit, IInvStep, PTL DEF Spec, DamageStays

---------------------------------------------------------------------------
(* The temporary file *)

\* A step keeps WrittenInv if its own place is right: beside it there is no update
\* or delete that the temporary file could change for.
LEMMA KeepsWritten ==
    ASSUME IInv, WrittenInv, NEW p \in Procs, procs[p] # NULL,
           NEW c \in Calls \cup {NULL}, procs' = [procs EXCEPT ![p] = c],
           c # NULL => Settled(c, temp'),
           temp' = temp \/ Rewrites(procs[p].query)
    PROVE  WrittenInv'
<1>1. procs \in [Procs -> Calls \cup {NULL}] /\ Alone BY DEF IInv
<1>2. procs'[p] = c /\ \A o \in Procs : o # p => procs'[o] = procs[o] BY <1>1
<1>3. ASSUME NEW o \in Procs, procs'[o] # NULL PROVE Settled(procs'[o], temp')
  <2>1. CASE o = p BY <1>2, <1>3, <2>1, Zenon
  <2>2. CASE o # p
    <3>1. procs'[o] = procs[o] /\ ~Rewrites(procs[o].query)
       BY <1>1, <1>2, <1>3, <2>2, Zenon DEF Alone
    <3> QED BY <3>1, Zenon DEF Settled
  <2> QED BY <2>1, <2>2
<1> QED BY <1>3, Zenon DEF WrittenInv

\* Every action keeps it.
LEMMA WrittenStep == IInv /\ WrittenInv /\ [Next]_vars => WrittenInv'
<1> SUFFICES ASSUME IInv, WrittenInv, [Next]_vars PROVE WrittenInv' OBVIOUS
<1>1. CASE UNCHANGED vars
  <2>1. temp' = temp /\ procs' = procs BY <1>1 DEF vars
  <2> QED BY <2>1 DEF WrittenInv
<1>2. CASE Next
  <2>1. PICK p \in Procs :
           \/ \E q \in Queries : Call(p, q)
           \/ Open(p) \/ ReadMore(p) \/ SelectEnds(p) \/ Insert(p)
           \/ CloseTemp(p) \/ Truncate(p) \/ CopyBack(p) \/ Unlink(p)
           \/ Return(p) \/ Crash(p)
     BY <1>2, Zenon DEF Next
  <2>2. procs[p] # NULL => Settled(procs[p], temp) BY DEF WrittenInv
  <2>3. ASSUME NEW q \in Queries, Call(p, q) PROVE WrittenInv'
    <3>1. procs[p] = NULL /\ temp' = temp BY <2>3, CallDoes
    <3>2. PICK c \in Calls : procs' = [procs EXCEPT ![p] = c] /\ c.query = q /\ c.at = "called"
       BY <2>3, CallDoes
    <3>3. Settled(c, temp') BY <3>2 DEF Settled
    <3>4. procs'[p] = c /\ \A o \in Procs : o # p => procs'[o] = procs[o] BY <3>2 DEF IInv
    <3>5. ASSUME NEW o \in Procs, procs'[o] # NULL PROVE Settled(procs'[o], temp')
      <4>1. CASE o = p BY <3>3, <3>4, <4>1, Zenon
      <4>2. CASE o # p BY <3>1, <3>4, <3>5, <4>2, Zenon DEF WrittenInv
      <4> QED BY <4>1, <4>2
    <3> QED BY <3>5, Zenon DEF WrittenInv
  <2>4. CASE Open(p)
    <3>1. PICK c \in Calls :
             /\ procs' = [procs EXCEPT ![p] = c] /\ c.query = procs[p].query
             /\ c.at \in {"answered", "append", "reading"}
       BY <2>4, OpenDoes
    <3>2. /\ procs[p] # NULL
          /\ temp' = (IF Rewrites(procs[p].query) THEN Empty ELSE temp)
       BY <2>4, OpenDoes, Zenon
    <3>3. Settled(c, temp') BY <3>1 DEF Settled
    <3>4. temp' = temp \/ Rewrites(procs[p].query) BY <3>2
    <3> QED BY <3>1, <3>2, <3>3, <3>4, KeepsWritten, Zenon
  <2>5. CASE ReadMore(p)
    <3>1. PICK c \in Calls : procs' = [procs EXCEPT ![p] = c] /\ c.query = procs[p].query
       BY <2>5, ReadMoreDoes, Zenon
    <3>2. procs[p] # NULL /\ ~Rewrites(procs[p].query) /\ temp' = temp BY <2>5, ReadMoreDoes, Zenon
    <3>3. Settled(c, temp') BY <3>1, <3>2 DEF Settled
    <3> QED BY <3>1, <3>2, <3>3, KeepsWritten, Zenon
  <2>6. CASE SelectEnds(p)
    <3>1. PICK c \in Calls : procs' = [procs EXCEPT ![p] = c] /\ c.at = "answered"
       BY <2>6, SelectEndsDoes, Zenon
    <3>2. procs[p] # NULL /\ temp' = temp BY <2>6, SelectEndsDoes, Zenon
    <3>3. Settled(c, temp') BY <3>1 DEF Settled
    <3> QED BY <3>1, <3>2, <3>3, KeepsWritten, Zenon
  <2>7. CASE Insert(p)
    <3>1. PICK c \in Calls : procs' = [procs EXCEPT ![p] = c] /\ c.at = "answered"
       BY <2>7, InsertDoes, Zenon
    <3>2. procs[p] # NULL /\ temp' = temp BY <2>7, InsertDoes, Zenon
    <3>3. Settled(c, temp') BY <3>1 DEF Settled
    <3> QED BY <3>1, <3>2, <3>3, KeepsWritten, Zenon
  <2>8. CASE CloseTemp(p)
    <3>1. PICK c \in Calls :
             /\ procs' = [procs EXCEPT ![p] = c] /\ c.query = procs[p].query
             /\ c.at = "truncate" /\ c.seen = file
       BY <2>8, CloseTempDoes, Zenon
    <3>2. /\ procs[p] # NULL /\ Rewrites(procs[p].query)
          /\ temp' = Rewritten(procs[p].query, file)
       BY <2>8, CloseTempDoes, Zenon
    <3>3. Settled(c, temp') BY <3>1, <3>2 DEF Settled
    <3> QED BY <3>1, <3>2, <3>3, KeepsWritten, Zenon
  <2>9. CASE Truncate(p)
    <3>1. PICK c \in Calls :
             /\ procs' = [procs EXCEPT ![p] = c] /\ c.query = procs[p].query
             /\ c.at = "copy" /\ c.seen = file
       BY <2>9, TruncateDoes, Zenon
    <3>2. procs[p] # NULL /\ procs[p].at = "truncate" /\ procs[p].seen = file /\ temp' = temp
       BY <2>9, TruncateDoes, Zenon
    <3>3. Settled(c, temp') BY <2>2, <3>1, <3>2 DEF Settled
    <3> QED BY <3>1, <3>2, <3>3, KeepsWritten, Zenon
  <2>10. CASE CopyBack(p)
    <3>1. PICK c \in Calls : procs' = [procs EXCEPT ![p] = c] /\ c.at = "unlink"
       BY <2>10, CopyBackDoes, Zenon
    <3>2. procs[p] # NULL /\ temp' = temp BY <2>10, CopyBackDoes, Zenon
    <3>3. Settled(c, temp') BY <3>1 DEF Settled
    <3> QED BY <3>1, <3>2, <3>3, KeepsWritten, Zenon
  <2>11. CASE Unlink(p)
    <3>1. PICK c \in Calls : procs' = [procs EXCEPT ![p] = c] /\ c.at = "answered"
       BY <2>11, UnlinkDoes, Zenon
    <3>2. procs[p] # NULL /\ Rewrites(procs[p].query) BY <2>11, UnlinkDoes, Zenon
    <3>3. Settled(c, temp') BY <3>1 DEF Settled
    <3> QED BY <3>1, <3>2, <3>3, KeepsWritten, Zenon
  <2>12. CASE Return(p) \/ Crash(p)
    <3>1. procs[p] # NULL /\ temp' = temp /\ procs' = [procs EXCEPT ![p] = NULL]
       BY <2>12, LeaveDoes, Zenon
    <3>2. NULL \in Calls \cup {NULL} OBVIOUS
    <3> QED BY <3>1, <3>2, KeepsWritten, Zenon
  <2> QED BY <2>1, <2>3, <2>4, <2>5, <2>6, <2>7, <2>8, <2>9, <2>10, <2>11, <2>12, Zenon
<1> QED BY <1>1, <1>2

\* It holds before the first call.
LEMMA WrittenInit == Init => WrittenInv
BY DEF Init, WrittenInv

---------------------------------------------------------------------------
(* The refinement: TextTable's operators and what the driver computes *)

\* The operators of TextRows are the same in both modules.
LEMMA SameOperators ==
    /\ \A header, rows, where : Promise!Met(header, rows, where) = Met(header, rows, where)
    /\ \A rows, places : Promise!Chosen(rows, places) = Chosen(rows, places)
    /\ \A header, row, cols : Promise!GetResult(header, row, cols) = GetResult(header, row, cols)
    /\ \A header, row, set : Promise!Assigned(header, row, set) = Assigned(header, row, set)
    /\ \A line : Promise!GetValeurs(line, Len(Header)) = Row(line)
    /\ \A header, row, where : Promise!Holds(header, row, where) = Holds(header, row, where)
    /\ \A header : Promise!HeaderLine(header) = HeaderLine(header)
    /\ \A t : Promise!Last(t) = Last(t)
    /\ \A q : Promise!Rewrites(q) = Rewrites(q)
<1>1. \A S : Promise!Max(S) = Max(S) BY DEF Promise!Max, Max
<1>2. \A header, name : Promise!NumChamps(header, name) = NumChamps(header, name)
   BY <1>1 DEF Promise!NumChamps, NumChamps
<1>3. \A x, comp, y : Promise!Compare(x, comp, y) = Compare(x, comp, y)
   BY DEF Promise!Compare, Compare
<1>4. Promise!All = All BY DEF Promise!All, All
<1>5. \A header, row, where : Promise!Holds(header, row, where) = Holds(header, row, where)
  <2> TAKE header, row, where
  <2>1. /\ Promise!NumChamps(header, where.left) = NumChamps(header, where.left)
        /\ Promise!NumChamps(header, where.right) = NumChamps(header, where.right)
     BY <1>2
  <2> QED BY <1>3, <1>4, <2>1 DEF Promise!Holds, Holds
<1>6. \A header, rows, where : Promise!Met(header, rows, where) = Met(header, rows, where)
   BY <1>5, Zenon DEF Promise!Met, Met
<1>7. \A rows, places : Promise!Chosen(rows, places) = Chosen(rows, places)
   BY DEF Promise!Chosen, Chosen, Promise!Cardinality, Cardinality, Promise!IsFiniteSet, IsFiniteSet
<1>8. \A header, row, cols : Promise!GetResult(header, row, cols) = GetResult(header, row, cols)
   BY <1>2, Zenon DEF Promise!GetResult, GetResult
<1>9. \A header, row, set : Promise!Assigned(header, row, set) = Assigned(header, row, set)
   BY <1>1, <1>2, ZenonT(60) DEF Promise!Assigned, Assigned
<1>10. \A line : Promise!GetValeurs(line, Len(Header)) = Row(line)
   BY DEF Promise!GetValeurs, GetValeurs, Promise!Blank, Blank, Row, Width
<1>11. \A header : Promise!HeaderLine(header) = HeaderLine(header)
   BY DEF Promise!HeaderLine, HeaderLine, Promise!Brace, Brace
<1>12. \A t : Promise!Last(t) = Last(t) BY DEF Promise!Last, Last
<1>13. \A q : Promise!Rewrites(q) = Rewrites(q) BY DEF Promise!Rewrites, Rewrites
<1> QED BY <1>5, <1>6, <1>7, <1>8, <1>9, <1>10, <1>11, <1>12, <1>13

\* The last line that is read is the last row, or the header.
LEMMA LastIsLast ==
    ASSUME NEW g \in TextFiles, HasHeader(g)
    PROVE  Promise!LastRow(Contents(Tail(g.lines))) = Row(Last(g.lines))
<1> DEFINE t == Contents(Tail(g.lines))
<1>1. /\ g.lines \in Seq(Seq(Nat)) /\ g.lines # <<>> /\ g.lines[1] = HeaderWord
   BY DEF TextFiles, HasHeader
<1>2. /\ Len(g.lines) \in Nat /\ Len(g.lines) > 0 /\ Last(g.lines) = g.lines[Len(g.lines)]
      /\ Tail(g.lines) \in Seq(Seq(Nat)) /\ Len(Tail(g.lines)) = Len(g.lines) - 1
      /\ \A i \in 1 .. Len(g.lines) - 1 : Tail(g.lines)[i] = g.lines[i + 1]
   BY <1>1 DEF Last
<1>3. /\ t \in Seq(Rows) /\ Len(t) = Len(Tail(g.lines))
      /\ \A i \in 1 .. Len(Tail(g.lines)) : t[i] = Row(Tail(g.lines)[i])
   BY <1>2, ContentsAreRows, Zenon
<1> HIDE DEF t
<1>4. t = <<>> <=> Len(t) = 0 BY <1>3, SeqFacts, ZenonT(60)
<1>5. Promise!LastRow(t) = IF t = <<>> THEN HeaderWord ELSE Last(t)
   BY SameOperators, Zenon DEF Promise!LastRow, HeaderWord
<1>6. CASE t = <<>>
  <2>1. Len(g.lines) = 1 BY <1>2, <1>3, <1>4, <1>6
  <2>2. HeaderWord \in Rows
    <3>1. Header \in Seq(Nat) BY TextAssumption
    <3>2. /\ Width \in Nat /\ DOMAIN Header = 1 .. Width
          /\ \A i \in 1 .. Width : Header[i] \in Nat
       BY <3>1, SeqFacts, ZenonT(60) DEF Width
    <3> QED BY <3>2 DEF HeaderWord, HeaderLine, Brace, Rows
  <2>3. Row(HeaderWord) = HeaderWord BY <2>2, RowIsRow
  <2> QED BY <1>1, <1>2, <1>5, <1>6, <2>1, <2>3, Zenon DEF t
<1>7. CASE t # <<>>
  <2>1. Len(t) = Len(g.lines) - 1 /\ Len(t) \in 1 .. Len(g.lines) - 1
     BY <1>2, <1>3, <1>4, <1>7
  <2>2. t[Len(t)] = Row(g.lines[Len(t) + 1]) BY <1>2, <1>3, <2>1
  <2>3. Len(t) + 1 = Len(g.lines) BY <1>2, <2>1
  <2>4. Last(t) = t[Len(t)] BY DEF Last
  <2> QED BY <1>2, <1>5, <1>7, <2>2, <2>3, <2>4, Zenon DEF t
<1> QED BY <1>6, <1>7

\* The rows that a query sees are those that the driver's loop reads.
LEMMA SeenIsScan ==
    ASSUME NEW q, NEW g \in TextFiles, HasHeader(g)
    PROVE  LET t == Contents(Tail(g.lines))
           IN  /\ q.op = "select" => Promise!Seen(q, t, g.nl) = SelectScan(g)
               /\ q.op = "insert" => Promise!Seen(q, t, g.nl) = t
               /\ Rewrites(q) => Promise!Seen(q, t, g.nl) = RewriteScan(g)
<1> DEFINE t == Contents(Tail(g.lines))
<1>1. g.nl \in BOOLEAN /\ g.lines # <<>> BY DEF TextFiles, HasHeader
<1>2. /\ ~g.nl => SelectScan(g) = t /\ RewriteScan(g) = t
      /\ g.nl => /\ SelectScan(g) = t \o <<Row(<<>>)>>
                 /\ RewriteScan(g) = t \o <<Row(Last(g.lines))>>
   BY <1>1, ScansAreRows, Zenon
<1>3. Promise!LastRow(t) = Row(Last(g.lines)) BY LastIsLast, Zenon
<1>4. Promise!GetValeurs(<<>>, Len(Header)) = Row(<<>>) BY SameOperators, Zenon
<1>5. Promise!Rewrites(q) = Rewrites(q) BY SameOperators, Zenon
<1>6. Rewrites(q) => q.op # "select" BY DEF Rewrites
<1>7. q.op = "insert" => q.op # "select" /\ ~Rewrites(q) BY DEF Rewrites
<1> HIDE DEF t
<1>8. CASE g.nl
  <2>1. q.op = "select" => Promise!Seen(q, t, g.nl) = SelectScan(g)
     BY <1>2, <1>4, <1>8, Zenon DEF Promise!Seen
  <2>2. Rewrites(q) => Promise!Seen(q, t, g.nl) = RewriteScan(g)
     BY <1>2, <1>3, <1>5, <1>6, <1>8, Zenon DEF Promise!Seen
  <2>3. q.op = "insert" => Promise!Seen(q, t, g.nl) = t
     BY <1>5, <1>7, <1>8, Zenon DEF Promise!Seen
  <2> QED BY <2>1, <2>2, <2>3 DEF t
<1>9. CASE ~g.nl
  <2>1. Promise!Seen(q, t, g.nl) = t BY <1>9, Zenon DEF Promise!Seen
  <2> QED BY <1>2, <1>9, <2>1 DEF t
<1> QED BY <1>8, <1>9

\* What the driver answers to a select.
LEMMA SelectIsPromised ==
    ASSUME NEW q, q.op = "select", NEW g \in TextFiles, HasHeader(g)
    PROVE  LET t     == Contents(Tail(g.lines))
               r     == Promise!Seen(q, t, g.nl)
               found == Matching(q, SelectScan(g))
           IN  /\ Promise!More(q, t, r) = <<>>
               /\ Promise!Answer(q, r) =
                     [n |-> Len(found),
                      rows |-> [i \in DOMAIN found |-> GetResult(Header, found[i], q.cols)]]
<1> DEFINE t     == Contents(Tail(g.lines))
           r     == Promise!Seen(q, t, g.nl)
           found == Matching(q, SelectScan(g))
<1>1. SelectScan(g) = r BY SeenIsScan, Zenon
<1>2. Promise!Matching(q, r) = found
   BY <1>1, SameOperators, Zenon DEF Promise!Matching, Matching
<1>3. ~Promise!Rewrites(q)
  <2>1. ~Rewrites(q) BY DEF Rewrites
  <2> QED BY <2>1, SameOperators, Zenon
<1> HIDE DEF t, r, found
<1>4. Promise!Answer(q, r) =
         [n |-> Len(Promise!Matching(q, r)),
          rows |-> [i \in DOMAIN Promise!Matching(q, r) |->
                       Promise!GetResult(Header, Promise!Matching(q, r)[i], q.cols)]]
   BY DEF Promise!Answer
<1>5. Promise!Answer(q, r) =
         [n |-> Len(found),
          rows |-> [i \in DOMAIN found |-> GetResult(Header, found[i], q.cols)]]
   BY <1>2, <1>4, SameOperators, Zenon
<1>6. Promise!More(q, t, r) = <<>> BY <1>3, Zenon DEF Promise!More
<1> QED BY <1>5, <1>6 DEF t, r, found

\* The same for an insert, and what it leaves.
LEMMA InsertIsPromised ==
    ASSUME NEW q, q.op = "insert", NEW t
    PROVE  /\ Promise!After(q, t) = Append(t, Row(q.row))
           /\ Promise!Answer(q, t) = [n |-> 0, rows |-> <<>>]
           /\ Promise!More(q, t, t) = <<>>
<1>1. Promise!After(q, t) = Append(t, Promise!GetValeurs(q.row, Len(Header)))
   BY DEF Promise!After
<1>2. Promise!GetValeurs(q.row, Len(Header)) = Row(q.row) BY SameOperators, Zenon
<1>3. Promise!Answer(q, t) = [n |-> 0, rows |-> <<>>] BY DEF Promise!Answer
<1>4. ~Promise!Rewrites(q) BY DEF Promise!Rewrites
<1>5. Promise!More(q, t, t) = <<>> BY <1>4, Zenon DEF Promise!More
<1> QED BY <1>1, <1>2, <1>3, <1>5, Zenon

\* For an update or delete the temporary file holds the promised table, and the copying
\* adds the row that it is promised to add.
LEMMA RewriteIsPromised ==
    ASSUME NEW q \in Queries, Rewrites(q), NEW g \in TextFiles, HasHeader(g)
    PROVE  LET t == Contents(Tail(g.lines))
               r == Promise!Seen(q, t, g.nl)
           IN  /\ Rewritten(q, g).lines = Promise!After(q, r)
               /\ Added(Rewritten(q, g), Row(Last(g.lines))) = Promise!More(q, t, r)
               /\ Promise!Answer(q, r) = [n |-> Len(Matching(q, RewriteScan(g))), rows |-> <<>>]
<1> DEFINE t   == Contents(Tail(g.lines))
           r   == Promise!Seen(q, t, g.nl)
           met == Met(Header, r, q.where)
           b   == Row(Last(g.lines))
<1>1. RewriteScan(g) = r /\ Promise!LastRow(t) = b BY SeenIsScan, LastIsLast, Zenon
<1>2. r \in Seq(Rows)
  <2>1. g.lines # <<>> BY DEF HasHeader
  <2>2. RewriteScan(g) \in Seq(Rows) BY <2>1, ScansAreRows, Zenon
  <2> QED BY <1>1, <2>2, Zenon
<1>3. q.op = "update" \/ q.op = "delete" BY DEF Rewrites
<1>4. Promise!Rewrites(q) BY SameOperators, Zenon
<1> HIDE DEF t, r, b
<1>5. Promise!Matching(q, r) = Matching(q, r) /\ Promise!Met(Header, r, q.where) = met
   BY SameOperators, Zenon DEF Promise!Matching, Matching
<1>6. Promise!Answer(q, r) = [n |-> Len(Promise!Matching(q, r)), rows |-> <<>>]
   BY <1>3 DEF Promise!Answer
<1>7. Promise!Answer(q, r) = [n |-> Len(Matching(q, RewriteScan(g))), rows |-> <<>>]
   BY <1>1, <1>5, <1>6, Zenon
<1>8. CASE q.op = "update"
  <2> DEFINE new == [i \in DOMAIN r |-> IF Holds(Header, r[i], q.where)
                                        THEN Assigned(Header, r[i], q.set) ELSE r[i]]
  <2>1. Rewritten(q, g) = [lines |-> new, nl |-> FALSE]
     BY <1>1, <1>8, Zenon DEF Rewritten, UpdateTemp, Matches
  <2>2. Promise!After(q, r) = [i \in DOMAIN r |-> IF Promise!Holds(Header, r[i], q.where)
                                      THEN Promise!Assigned(Header, r[i], q.set) ELSE r[i]]
     BY <1>8 DEF Promise!After
  <2>3. Promise!After(q, r) = new BY <2>2, SameOperators, Zenon
  <2> HIDE DEF new
  <2>4. Rewritten(q, g).lines = new /\ Rewritten(q, g).nl = FALSE BY <2>1
  <2>5. Added(Rewritten(q, g), b) = IF new = <<>> THEN <<b>> ELSE <<>>
     BY <2>4, Zenon DEF Added
  <2>6. q.op # "delete" BY <1>8
  <2>7. Promise!More(q, t, r) = IF new = <<>> THEN <<b>> ELSE <<>>
     BY <1>1, <1>4, <2>3, <2>6, Zenon DEF Promise!More
  <2> QED BY <1>7, <2>3, <2>4, <2>5, <2>7 DEF t, r, b
<1>9. CASE q.op = "delete"
  <2> DEFINE kept == Chosen(r, DOMAIN r \ met)
             nl   == met # DOMAIN r /\ Len(r) \in met
  <2>1. Rewritten(q, g) = [lines |-> kept, nl |-> nl]
    <3>1. q.op # "update" BY <1>9
    <3> QED BY <1>1, <3>1, Zenon DEF Rewritten, DeleteTemp
  <2>2. Promise!After(q, r) = Promise!Chosen(r, DOMAIN r \ Promise!Met(Header, r, q.where))
     BY <1>9 DEF Promise!After
  <2>3. Promise!After(q, r) = kept BY <1>5, <2>2, SameOperators, Zenon
  <2>4. kept # <<>> => met # DOMAIN r
    <3> SUFFICES ASSUME met = DOMAIN r PROVE kept = <<>> OBVIOUS
    <3>1. kept = Chosen(r, {}) BY Zenon
    <3>2. Chosen(r, {}) = <<>>
      <4>1. Cardinality({}) = 0 BY FS_EmptySet
      <4>2. 1 .. 0 = {} OBVIOUS
      <4> QED BY <4>1, <4>2 DEF Chosen
    <3> QED BY <3>1, <3>2, Zenon
  <2>5. nl \in BOOLEAN BY Zenon
  <2>6. kept # <<>> => (nl <=> Len(r) \in met) BY <2>4, Zenon
  <2> HIDE DEF kept, nl
  <2>7. Rewritten(q, g).lines = kept /\ Rewritten(q, g).nl = nl BY <2>1
  <2>8. Added(Rewritten(q, g), b)
           = IF kept = <<>> THEN <<b>> ELSE IF nl THEN <<Last(kept)>> ELSE <<>>
     BY <2>7, Zenon DEF Added
  <2>9. Promise!More(q, t, r)
           = IF kept = <<>> THEN <<b>> ELSE IF Len(r) \in met THEN <<Last(kept)>> ELSE <<>>
     BY <1>1, <1>4, <1>5, <1>9, <2>3, SameOperators, Zenon DEF Promise!More
  <2>10. Added(Rewritten(q, g), b) = Promise!More(q, t, r)
    <3>1. CASE kept = <<>> BY <2>8, <2>9, <3>1
    <3>2. CASE kept # <<>>
      <4>1. nl <=> Len(r) \in met BY <2>6, <3>2
      <4>2. Promise!More(q, t, r) = IF nl THEN <<Last(kept)>> ELSE <<>>
         BY <2>9, <3>2, <4>1, Zenon
      <4> QED BY <2>8, <3>2, <4>2
    <3> QED BY <3>1, <3>2
  <2> QED BY <1>7, <2>3, <2>7, <2>10 DEF t, r, b
<1> QED BY <1>3, <1>8, <1>9

---------------------------------------------------------------------------
(* The refinement: the mapping and its steps *)

\* The variables of TextTable, as the mapping gives them, and the same of one process.
Damaged == Torn /\ \A p \in Procs : ~At(p, "copy")

Newline == file # NULL /\ file.nl

AllCalls == [p \in Procs |-> CallOf(p)]

\* The answer of an update or delete, and the row that the copying adds.
AnswerOf(c) == [n |-> Len(Matching(c.query, RewriteScan(c.seen))), rows |-> <<>>]

MoreOf(c) == Added(Rewritten(c.query, c.seen), Row(Last(c.seen.lines)))

CallOn(c) ==
    IF c = NULL THEN NULL
    ELSE [query |-> c.query,
          answer |-> IF c.at \in {"copy", "unlink"} THEN AnswerOf(c) ELSE c.answer,
          more |-> IF c.at = "copy" THEN MoreOf(c) ELSE <<>>]

TableIn(f, t) ==
    IF f = NULL THEN NULL
    ELSE IF HasHeader(f) THEN Contents(Tail(f.lines))
    ELSE IF t = NULL THEN <<>> ELSE Contents(t.lines)

\* The table and the calls that TextTable sees.
LEMMA Mapping ==
    /\ Table = TableIn(file, temp)
    /\ IInv => AllCalls = [o \in Procs |-> CallOn(procs[o])]
<1>1. Table = TableIn(file, temp) BY DEF Table, TableIn, Torn
<1>2. ASSUME IInv, NEW p \in Procs PROVE CallOf(p) = CallOn(procs[p])
  <2>1. CASE procs[p] = NULL BY <2>1 DEF CallOf, CallOn, At
  <2>2. CASE procs[p] # NULL
    <3>1. Placed(procs[p], file, temp) BY <1>2, <2>2 DEF IInv
    <3>2. procs[p].at = "answered" <=> procs[p].answer # NULL BY <3>1 DEF Placed
    <3>3. CASE procs[p].at = "answered" BY <2>2, <3>3 DEF CallOf, CallOn, At
    <3>4. CASE procs[p].at \in {"copy", "unlink"}
       BY <2>2, <3>4 DEF CallOf, CallOn, At, AnswerOf, MoreOf
    <3>5. CASE procs[p].at \notin {"answered", "copy", "unlink"}
       BY <2>2, <3>2, <3>5 DEF CallOf, CallOn, At
    <3> QED BY <3>3, <3>4, <3>5
  <2> QED BY <2>1, <2>2
<1> QED BY <1>1, <1>2 DEF AllCalls

\* What a step of p changes in the variables of TextTable.
LEMMA Mapped ==
    ASSUME IInv, IInv', NEW p \in Procs, NEW c \in Calls \cup {NULL},
           procs' = [procs EXCEPT ![p] = c]
    PROVE  /\ AllCalls' = [AllCalls EXCEPT ![p] = CallOn(c)]
           /\ AllCalls[p] = CallOn(procs[p])
           /\ Table = TableIn(file, temp) /\ Table' = TableIn(file', temp')
           /\ Damaged \in BOOLEAN
           /\ file' = file /\ (procs[p] = NULL \/ procs[p].at # "copy")
                           /\ (c = NULL \/ c.at # "copy") => Damaged' = Damaged
<1>1. procs \in [Procs -> Calls \cup {NULL}] BY DEF IInv
<1>2. procs'[p] = c /\ \A o \in Procs : o # p => procs'[o] = procs[o] BY <1>1
<1>3. AllCalls = [o \in Procs |-> CallOn(procs[o])] BY Mapping
<1>4. AllCalls' = [o \in Procs |-> CallOn(procs'[o])]
  <2>1. (IInv => AllCalls = [o \in Procs |-> CallOn(procs[o])])' BY Mapping, PTL
  <2> QED BY <2>1
<1>5. \A o \in Procs : AllCalls'[o] = CallOn(procs'[o]) /\ AllCalls[o] = CallOn(procs[o])
   BY <1>3, <1>4
<1>6. AllCalls' = [AllCalls EXCEPT ![p] = CallOn(c)]
  <2>1. AllCalls = [o \in Procs |-> AllCalls[o]] /\ AllCalls' = [o \in Procs |-> AllCalls'[o]]
     BY DEF AllCalls
  <2> QED BY <1>2, <1>5, <2>1
<1>7. Table' = TableIn(file', temp')
  <2>1. (Table = TableIn(file, temp))' BY Mapping, PTL
  <2> QED BY <2>1
<1>8. Damaged \in BOOLEAN BY Zenon DEF Damaged
<1>9. ASSUME file' = file, procs[p] = NULL \/ procs[p].at # "copy", c = NULL \/ c.at # "copy"
      PROVE  Damaged' = Damaged
  <2>1. Torn' <=> Torn BY <1>9 DEF Torn
  <2>2. \A o \in Procs : At(o, "copy")' <=> At(o, "copy")
    <3> TAKE o \in Procs
    <3>1. CASE o = p BY <1>2, <1>9, <3>1 DEF At
    <3>2. CASE o # p BY <1>2, <3>2 DEF At
    <3> QED BY <3>1, <3>2
  <2>3. Damaged' <=> Damaged BY <2>1, <2>2 DEF Damaged
  <2>4. Damaged' \in BOOLEAN BY Zenon DEF Damaged
  <2> QED BY <1>8, <2>3, <2>4, Zenon
<1> QED BY <1>5, <1>6, <1>7, <1>8, <1>9, Mapping

\* A call that looks the same to TextTable changes none of its calls.
LEMMA SameCalls ==
    ASSUME NEW p \in Procs, NEW now, NEW then,
           AllCalls' = [AllCalls EXCEPT ![p] = now], AllCalls[p] = then, now = then
    PROVE  AllCalls' = AllCalls
<1>1. AllCalls = [o \in Procs |-> AllCalls[o]] BY DEF AllCalls
<1>2. \A o \in Procs : AllCalls'[o] = AllCalls[o]
   BY <1>1
<1>3. AllCalls' = [o \in Procs |-> AllCalls'[o]]
   BY DEF AllCalls
<1> QED BY <1>1, <1>2, <1>3, Zenon

\* The steps of TextTable, in these terms.
LEMMA PromisedCall ==
    ASSUME NEW p \in Procs, NEW q \in Queries,
           AllCalls[p] = NULL,
           AllCalls' = [AllCalls EXCEPT ![p] = [query |-> q, answer |-> NULL, more |-> <<>>]],
           Table' = Table, Newline' = Newline, Damaged' = Damaged
    PROVE  Promise!Next
<1>1. Promise!Call(p, q) BY DEF Promise!Call, Promise!Pending, AllCalls, Newline, Damaged
<1> QED BY <1>1 DEF Promise!Next

\* A query takes effect at once.
LEMMA PromisedApply ==
    ASSUME NEW p \in Procs, NEW q \in Queries, NEW r,
           r = Promise!Seen(q, Table, Newline),
           AllCalls[p] = [query |-> q, answer |-> NULL, more |-> <<>>], AllCalls[p] # NULL,
           Table # NULL, ~Damaged, ~Damaged', Damaged \in BOOLEAN,
           Table' = (IF q.op = "select" THEN Table ELSE Promise!After(q, r)),
           Newline' = (q.op = "select" /\ Newline),
           AllCalls' = [AllCalls EXCEPT ![p] =
                           [query |-> q, answer |-> Promise!Answer(q, r),
                            more |-> Promise!More(q, Table, r)]]
    PROVE  Promise!Next
<1>1. AllCalls[p].query = q /\ AllCalls[p].answer = NULL OBVIOUS
<1>2. Damaged' = Damaged
  <2>1. Damaged' \in BOOLEAN BY Zenon DEF Damaged
  <2> QED BY <2>1, Zenon
<1>3. Promise!Apply(p)
   BY <1>1, <1>2, Zenon DEF Promise!Apply, Promise!Done, AllCalls, Newline, Damaged
<1> QED BY <1>3 DEF Promise!Next

\* The copying adds its row.
LEMMA PromisedAdd ==
    ASSUME NEW p \in Procs, NEW q, NEW a, NEW more,
           AllCalls[p] = [query |-> q, answer |-> a, more |-> more], AllCalls[p] # NULL,
           more # <<>>,
           AllCalls' = [AllCalls EXCEPT ![p] = [query |-> q, answer |-> a, more |-> <<>>]],
           Table' = Table \o more, Newline' = Newline, Damaged' = Damaged
    PROVE  Promise!Next
<1>1. AllCalls[p].more = more OBVIOUS
<1>2. [AllCalls[p] EXCEPT !.more = <<>>] = [query |-> q, answer |-> a, more |-> <<>>] OBVIOUS
<1>3. AllCalls' = [AllCalls EXCEPT ![p].more = <<>>] BY <1>2
<1>4. Promise!Add(p) BY <1>1, <1>3, Zenon DEF Promise!Add, AllCalls, Newline, Damaged
<1> QED BY <1>4 DEF Promise!Next

\* A query is refused, and changes nothing.
LEMMA PromisedRefuse ==
    ASSUME NEW p \in Procs, NEW q \in Queries,
           AllCalls[p] = [query |-> q, answer |-> NULL, more |-> <<>>], AllCalls[p] # NULL,
           Table = NULL \/ Damaged, Newline' = Newline, Damaged' = Damaged,
           Table' = Table \/ (Damaged /\ Rewrites(q) /\ Table' = <<>>),
           AllCalls' = [AllCalls EXCEPT ![p] =
                           [query |-> q, answer |-> [n |-> -1, rows |-> <<>>], more |-> <<>>]]
    PROVE  Promise!Next
<1>1. AllCalls[p].query = q /\ AllCalls[p].answer = NULL OBVIOUS
<1>2. [AllCalls[p] EXCEPT !.answer = Promise!Refused] =
         [query |-> q, answer |-> [n |-> -1, rows |-> <<>>], more |-> <<>>]
   BY DEF Promise!Refused
<1>3. AllCalls' = [AllCalls EXCEPT ![p].answer = Promise!Refused] BY <1>2
<1>4. Promise!Rewrites(q) <=> Rewrites(q) BY DEF Promise!Rewrites, Rewrites
<1>5. Promise!Refuse(p)
   BY <1>1, <1>3, <1>4, Zenon DEF Promise!Refuse, AllCalls, Newline, Damaged
<1> QED BY <1>5 DEF Promise!Next

\* A call returns its answer.
LEMMA PromisedReturn ==
    ASSUME NEW p \in Procs,
           AllCalls[p] # NULL, AllCalls[p].answer # NULL, AllCalls[p].more = <<>>,
           AllCalls' = [AllCalls EXCEPT ![p] = NULL],
           Table' = Table, Newline' = Newline, Damaged' = Damaged
    PROVE  Promise!Next
<1>1. Promise!Return(p) BY Zenon DEF Promise!Return, AllCalls, Newline, Damaged
<1> QED BY <1>1 DEF Promise!Next

\* A process crashes.
LEMMA PromisedCrash ==
    ASSUME NEW p \in Procs, AllCalls[p] # NULL,
           AllCalls' = [AllCalls EXCEPT ![p] = NULL], Table' = Table, Newline' = Newline,
           \/ Damaged' = Damaged
           \/ Rewrites(AllCalls[p].query) /\ AllCalls[p].answer # NULL /\ Damaged'
    PROVE  Promise!Next
<1>1. Promise!Rewrites(AllCalls[p].query) <=> Rewrites(AllCalls[p].query)
   BY DEF Promise!Rewrites, Rewrites
<1>2. Damaged' => Damaged' = TRUE
  <2>1. Damaged' \in BOOLEAN BY Zenon DEF Damaged
  <2> QED BY <2>1, Zenon
<1>3. Promise!Crash(p) BY <1>1, <1>2, Zenon DEF Promise!Crash, AllCalls, Newline, Damaged
<1> QED BY <1>3 DEF Promise!Next

\* Nothing happens that TextTable sees.
LEMMA PromisedStutter ==
    ASSUME AllCalls' = AllCalls, Table' = Table, Newline' = Newline, Damaged' = Damaged
    PROVE  UNCHANGED Promise!vars
BY DEF Promise!vars, AllCalls, Newline, Damaged

\* A table that can be read is not NULL.
LEMMA ReadableTable ==
    ASSUME IInv, file # NULL, HasHeader(file)
    PROVE  /\ file \in TextFiles /\ file.lines # <<>>
           /\ Table = Contents(Tail(file.lines)) /\ Table # NULL
           /\ Newline = file.nl /\ Damaged = FALSE
<1>1. file \in TextFiles /\ file.lines # <<>> BY DEF IInv, HasHeader
<1>2. Table = Contents(Tail(file.lines)) BY Mapping DEF TableIn
<1>3. Contents(Tail(file.lines)) \in Seq(Seq(Nat))
   BY <1>1, ScansAreRows, ContentsAreRows, RowsAreLines
<1>4. ~Torn BY DEF Torn
<1>5. Newline = file.nl
  <2>1. file.nl \in BOOLEAN BY <1>1 DEF TextFiles
  <2> QED BY <2>1, Zenon DEF Newline
<1> QED BY <1>1, <1>2, <1>3, <1>4, <1>5, NotNull DEF Damaged

---------------------------------------------------------------------------
(* The refinement: every step is one of TextTable, or changes nothing there *)

\* A process as TextTable sees it.
LEMMA CallOnIs ==
    ASSUME NEW c \in Calls,
           c.at \in {"copy", "unlink"} =>
              c.seen \in TextFiles /\ c.seen.lines # <<>> /\ Rewrites(c.query)
    PROVE  /\ CallOn(c) # NULL
           /\ c.at \notin {"copy", "unlink"} =>
                 CallOn(c) = [query |-> c.query, answer |-> c.answer, more |-> <<>>]
           /\ c.at = "copy" =>
                 CallOn(c) = [query |-> c.query, answer |-> AnswerOf(c), more |-> MoreOf(c)]
           /\ c.at = "unlink" =>
                 CallOn(c) = [query |-> c.query, answer |-> AnswerOf(c), more |-> <<>>]
           /\ c.at \in {"copy", "unlink"} => AnswerOf(c) # NULL
<1>1. /\ c # NULL /\ c.query \in Queries /\ c.answer \in Answers \cup {NULL}
      /\ <<>> \in Seq(Seq(Nat))
   BY NotNull DEF Calls
<1>2. CASE c.at \notin {"copy", "unlink"}
  <2>1. CallOn(c) = [query |-> c.query, answer |-> c.answer, more |-> <<>>]
     BY <1>1, <1>2 DEF CallOn
  <2>2. [query |-> c.query, answer |-> c.answer, more |-> <<>>] # NULL BY <1>1, NotNull, Zenon
  <2> QED BY <1>2, <2>1, <2>2
<1>3. CASE c.at \in {"copy", "unlink"}
  <2>1. AnswerOf(c) \in Answers
    <3>1. RewriteScan(c.seen) \in Seq(Rows) BY <1>3, ScansAreRows
    <3>2. Len(Matching(c.query, RewriteScan(c.seen))) \in Int BY <3>1, MatchingRows
    <3> QED BY <3>2, AnswerTypes, Zenon DEF AnswerOf
  <2>2. MoreOf(c) \in Seq(Seq(Nat))
    <3>1. Rewritten(c.query, c.seen) \in TextFiles BY <1>1, <1>3, RewrittenIsFile, Zenon
    <3>2. Row(Last(c.seen.lines)) \in Seq(Nat)
      <4>1. Row(Last(c.seen.lines)) \in Rows BY <1>3, ScansAreRows
      <4> QED BY <4>1, RowIsRow
    <3> QED BY <3>1, <3>2, CopiedIsFile, Zenon DEF MoreOf
  <2>3. AnswerOf(c) # NULL BY <2>1, NotNull, Zenon
  <2>4. /\ [query |-> c.query, answer |-> AnswerOf(c), more |-> MoreOf(c)] # NULL
        /\ [query |-> c.query, answer |-> AnswerOf(c), more |-> <<>>] # NULL
     BY <1>1, <2>1, <2>2, NotNull, Zenon
  <2>5. c.at = "copy" =>
           CallOn(c) = [query |-> c.query, answer |-> AnswerOf(c), more |-> MoreOf(c)]
     BY <1>1 DEF CallOn
  <2>6. c.at = "unlink" =>
           CallOn(c) = [query |-> c.query, answer |-> AnswerOf(c), more |-> <<>>]
     BY <1>1 DEF CallOn
  <2> QED BY <1>3, <2>3, <2>4, <2>5, <2>6
<1> QED BY <1>2, <1>3

\* What every action is in TextTable: a call is a call.
LEMMA CallRefines ==
    ASSUME IInv, NEW p \in Procs, NEW q \in Queries, Call(p, q)
    PROVE  Promise!Next
<1>1. PICK c \in Calls : /\ procs' = [procs EXCEPT ![p] = c]
                         /\ c.query = q /\ c.at = "called" /\ c.answer = NULL
   BY CallDoes
<1>2. procs[p] = NULL /\ file' = file /\ temp' = temp /\ IInv' BY CallDoes
<1>3. CallOn(c) = [query |-> q, answer |-> NULL, more |-> <<>>] /\ CallOn(procs[p]) = NULL
  <2>1. CallOn(c) = [query |-> c.query, answer |-> c.answer, more |-> <<>>] BY <1>1, CallOnIs
  <2> QED BY <1>1, <1>2, <2>1 DEF CallOn
<1>4. /\ AllCalls' = [AllCalls EXCEPT ![p] = CallOn(c)] /\ AllCalls[p] = CallOn(procs[p])
      /\ Table = TableIn(file, temp) /\ Table' = TableIn(file', temp')
      /\ file' = file /\ (procs[p] = NULL \/ procs[p].at # "copy")
                      /\ (c = NULL \/ c.at # "copy") => Damaged' = Damaged
   BY <1>1, <1>2, Mapped
<1>5. Damaged' = Damaged /\ Table' = Table /\ Newline' = Newline BY <1>1, <1>2, <1>4 DEF Newline
<1> QED BY <1>3, <1>4, <1>5, PromisedCall

\* Opening refuses the query, or is not seen.
LEMMA OpenRefines ==
    ASSUME IInv, NEW p \in Procs, Open(p)
    PROVE  Promise!Next \/ UNCHANGED Promise!vars
<1> DEFINE q == procs[p].query
<1>1. PICK c \in Calls :
         /\ procs' = [procs EXCEPT ![p] = c] /\ c.query = procs[p].query
         /\ \/ /\ file = NULL \/ Torn
               /\ c.at = "answered" /\ c.answer = [n |-> -1, rows |-> <<>>]
            \/ /\ file # NULL /\ HasHeader(file)
               /\ c.at \in {"append", "reading"} /\ c.seen = file /\ c.answer = NULL
   BY OpenDoes
<1>2. /\ procs[p] # NULL /\ procs[p].at = "called" /\ procs[p].answer = NULL
      /\ file' = file /\ temp' = (IF Rewrites(q) THEN Empty ELSE temp) /\ IInv'
   BY OpenDoes
<1>3. procs[p] \in Calls /\ q \in Queries BY <1>2, Forms
<1>4. /\ AllCalls' = [AllCalls EXCEPT ![p] = CallOn(c)] /\ AllCalls[p] = CallOn(procs[p])
      /\ Table = TableIn(file, temp) /\ Table' = TableIn(file', temp')
      /\ Damaged \in BOOLEAN
      /\ file' = file /\ (procs[p] = NULL \/ procs[p].at # "copy")
                      /\ (c = NULL \/ c.at # "copy") => Damaged' = Damaged
   BY <1>1, <1>2, Mapped
<1>5. Damaged' = Damaged /\ Newline' = Newline BY <1>1, <1>2, <1>4 DEF Newline
<1>6. CallOn(procs[p]) = [query |-> q, answer |-> NULL, more |-> <<>>] /\ CallOn(procs[p]) # NULL
  <2>1. procs[p].at \notin {"copy", "unlink"} BY <1>2
  <2> QED BY <1>2, <1>3, <2>1, CallOnIs
<1>7. CallOn(c) = [query |-> q, answer |-> c.answer, more |-> <<>>]
  <2>1. c.at \notin {"copy", "unlink"} BY <1>1
  <2> QED BY <1>1, <2>1, CallOnIs
<1>8. CASE /\ file = NULL \/ Torn
           /\ c.at = "answered" /\ c.answer = [n |-> -1, rows |-> <<>>]
  <2>1. Torn => Damaged
    <3>1. ASSUME Torn, NEW o \in Procs PROVE ~At(o, "copy")
      <4>1. CASE o = p BY <1>2, <4>1 DEF At
      <4>2. CASE o # p
        <5>1. procs[o] # NULL /\ procs[o].at = "copy" => Rewrites(procs[o].query)
           BY Forms, Zenon DEF Placed
        <5> QED BY <1>2, <4>2, <5>1, Zenon DEF At, IInv, Alone
      <4> QED BY <4>1, <4>2
    <3> QED BY <3>1 DEF Damaged
  <2>2. file = NULL => Table = NULL /\ Table' = NULL BY <1>2, <1>4 DEF TableIn
  <2>3. Torn => Table' = Table \/ (Rewrites(q) /\ Table' = <<>>)
    <3>1. CASE ~Rewrites(q) BY <1>2, <1>4, <3>1
    <3>2. CASE Torn /\ Rewrites(q)
      <4>1. Table' = Contents(Empty.lines)
         BY <1>2, <1>4, <3>2, AnswerTypes, NotNull DEF TableIn, Torn
      <4>2. Contents(<<>>) = <<>> BY DEF Contents
      <4>3. Empty.lines = <<>> BY DEF Empty
      <4> QED BY <3>2, <4>1, <4>2, <4>3
    <3> QED BY <3>1, <3>2
  <2>4. Table = NULL \/ Damaged BY <1>8, <2>1, <2>2
  <2>5. Table' = Table \/ (Damaged /\ Rewrites(q) /\ Table' = <<>>) BY <1>8, <2>1, <2>2, <2>3
  <2>6. AllCalls' = [AllCalls EXCEPT ![p] =
                        [query |-> q, answer |-> [n |-> -1, rows |-> <<>>], more |-> <<>>]]
     BY <1>4, <1>7, <1>8
  <2>7. AllCalls[p] = [query |-> q, answer |-> NULL, more |-> <<>>] /\ AllCalls[p] # NULL
     BY <1>4, <1>6
  <2> HIDE DEF q
  <2> QED BY <1>3, <1>5, <2>4, <2>5, <2>6, <2>7, PromisedRefuse
<1>9. CASE /\ file # NULL /\ HasHeader(file)
           /\ c.at \in {"append", "reading"} /\ c.seen = file /\ c.answer = NULL
  <2>1. Table' = Table BY <1>2, <1>4, <1>9 DEF TableIn
  <2>2. CallOn(c) = CallOn(procs[p]) BY <1>4, <1>6, <1>7, <1>9
  <2>3. AllCalls' = AllCalls BY <1>4, <2>2, SameCalls
  <2> QED BY <1>5, <2>1, <2>3, PromisedStutter
<1> QED BY <1>1, <1>8, <1>9, Zenon

\* Reading is not seen.
LEMMA ReadMoreRefines ==
    ASSUME IInv, NEW p \in Procs, ReadMore(p)
    PROVE  UNCHANGED Promise!vars
<1>1. PICK c \in Calls : /\ procs' = [procs EXCEPT ![p] = c] /\ c.query = procs[p].query
                         /\ c.at = "reading" /\ c.answer = NULL
   BY ReadMoreDoes
<1>2. /\ procs[p] # NULL /\ procs[p].at = "reading" /\ procs[p].answer = NULL
      /\ file' = file /\ temp' = temp /\ IInv' /\ procs[p] \in Calls
   BY ReadMoreDoes, Forms
<1>3. /\ AllCalls' = [AllCalls EXCEPT ![p] = CallOn(c)] /\ AllCalls[p] = CallOn(procs[p])
      /\ Table = TableIn(file, temp) /\ Table' = TableIn(file', temp')
      /\ file' = file /\ (procs[p] = NULL \/ procs[p].at # "copy")
                      /\ (c = NULL \/ c.at # "copy") => Damaged' = Damaged
   BY <1>1, <1>2, Mapped
<1>4. CallOn(c) = [query |-> c.query, answer |-> c.answer, more |-> <<>>] BY <1>1, CallOnIs
<1>5. CallOn(procs[p]) = [query |-> procs[p].query, answer |-> procs[p].answer, more |-> <<>>]
   BY <1>2, CallOnIs
<1>6. AllCalls' = AllCalls
  <2>1. CallOn(c) = CallOn(procs[p]) BY <1>1, <1>2, <1>4, <1>5
  <2> QED BY <1>3, <2>1, SameCalls
<1>7. Damaged' = Damaged /\ Table' = Table /\ Newline' = Newline BY <1>1, <1>2, <1>3 DEF Newline
<1> QED BY <1>6, <1>7, PromisedStutter

\* A select takes effect when it has read the table.
LEMMA SelectEndsRefines ==
    ASSUME IInv, NEW p \in Procs, SelectEnds(p)
    PROVE  Promise!Next
<1> DEFINE q == procs[p].query
           r == Promise!Seen(q, Table, Newline)
           found == Matching(q, SelectScan(file))
           a == [n |-> Len(found),
                 rows |-> [i \in DOMAIN found |-> GetResult(Header, found[i], q.cols)]]
<1>1. PICK c \in Calls : /\ procs' = [procs EXCEPT ![p] = c] /\ c.query = q
                         /\ c.at = "answered" /\ c.answer = a
   BY SelectEndsDoes
<1>2. /\ procs[p] # NULL /\ procs[p].at = "reading" /\ procs[p].answer = NULL /\ q.op = "select"
      /\ file # NULL /\ HasHeader(file) /\ file' = file /\ temp' = temp /\ IInv'
      /\ procs[p] \in Calls /\ q \in Queries
   BY SelectEndsDoes, Forms
<1>3. file \in TextFiles /\ file.lines # <<>> /\ Table = Contents(Tail(file.lines)) /\ Table # NULL
      /\ Newline = file.nl /\ Damaged = FALSE
   BY <1>2, ReadableTable
<1>5. Promise!More(q, Table, r) = <<>> /\ Promise!Answer(q, r) = a
   BY <1>2, <1>3, SelectIsPromised
<1> HIDE DEF a, found, r
<1>6. /\ AllCalls' = [AllCalls EXCEPT ![p] = CallOn(c)] /\ AllCalls[p] = CallOn(procs[p])
      /\ Table = TableIn(file, temp) /\ Table' = TableIn(file', temp')
      /\ file' = file /\ (procs[p] = NULL \/ procs[p].at # "copy")
                      /\ (c = NULL \/ c.at # "copy") => Damaged' = Damaged
   BY <1>1, <1>2, Mapped
<1>7. CallOn(c) = [query |-> q, answer |-> a, more |-> <<>>]
  <2>1. c.at \notin {"copy", "unlink"} BY <1>1
  <2> QED BY <1>1, <2>1, CallOnIs
<1>8. CallOn(procs[p]) = [query |-> q, answer |-> NULL, more |-> <<>>] /\ CallOn(procs[p]) # NULL
  <2>1. procs[p].at \notin {"copy", "unlink"} BY <1>2
  <2> QED BY <1>2, <2>1, CallOnIs
<1>9. ~Damaged /\ ~Damaged' /\ Damaged \in BOOLEAN /\ Table' = Table BY <1>1, <1>2, <1>3, <1>6
<1>10. Newline' = (q.op = "select" /\ Newline)
  <2>1. Newline' = Newline /\ Newline \in BOOLEAN BY <1>2, Zenon DEF Newline
  <2> QED BY <1>2, <2>1
<1>11. /\ r = Promise!Seen(q, Table, Newline)
       /\ Table' = (IF q.op = "select" THEN Table ELSE Promise!After(q, r))
   BY <1>2, <1>9, Zenon DEF r
<1>12. /\ AllCalls[p] = [query |-> q, answer |-> NULL, more |-> <<>>] /\ AllCalls[p] # NULL
       /\ AllCalls' = [AllCalls EXCEPT ![p] =
                          [query |-> q, answer |-> Promise!Answer(q, r),
                           more |-> Promise!More(q, Table, r)]]
   BY <1>5, <1>6, <1>7, <1>8, Zenon
<1> HIDE DEF q
<1> QED BY <1>2, <1>3, <1>9, <1>10, <1>11, <1>12, PromisedApply

\* An insert, when its line is appended.
LEMMA InsertRefines ==
    ASSUME IInv, NEW p \in Procs, Insert(p)
    PROVE  Promise!Next
<1> DEFINE q == procs[p].query
           a == [n |-> 0, rows |-> <<>>]
<1>1. PICK c \in Calls : /\ procs' = [procs EXCEPT ![p] = c] /\ c.query = q
                         /\ c.at = "answered" /\ c.answer = a
   BY InsertDoes
<1>2. /\ procs[p] # NULL /\ procs[p].at = "append" /\ procs[p].answer = NULL
      /\ q.op = "insert" /\ q.row \in Seq(Nat)
      /\ file # NULL /\ HasHeader(file) /\ temp' = temp /\ IInv'
      /\ file' \in TextFiles /\ HasHeader(file') /\ file'.lines = Append(file.lines, q.row)
      /\ ~file'.nl
      /\ procs[p] \in Calls /\ q \in Queries
   BY InsertDoes, Forms
<1>3. file \in TextFiles /\ file.lines # <<>> /\ Table = Contents(Tail(file.lines)) /\ Table # NULL
      /\ Newline = file.nl /\ Damaged = FALSE
   BY <1>2, ReadableTable
<1>4. /\ Promise!After(q, Table) = Append(Table, Row(q.row)) /\ Promise!Answer(q, Table) = a
      /\ Promise!More(q, Table, Table) = <<>>
   BY <1>2, InsertIsPromised
<1> HIDE DEF a
<1>5. /\ AllCalls' = [AllCalls EXCEPT ![p] = CallOn(c)] /\ AllCalls[p] = CallOn(procs[p])
      /\ Table' = TableIn(file', temp')
   BY <1>1, <1>2, Mapped
<1>6. Table' = Promise!After(q, Table)
  <2>1. Table' = Contents(Tail(Append(file.lines, q.row))) BY <1>2, <1>5, NotNull DEF TableIn
  <2>2. file.lines \in Seq(Seq(Nat)) BY <1>3 DEF TextFiles
  <2>3. Contents(Tail(Append(file.lines, q.row))) = Append(Contents(Tail(file.lines)), Row(q.row))
     BY <1>2, <1>3, <2>2, AppendedLine
  <2> QED BY <1>3, <1>4, <2>1, <2>3
<1>7. CallOn(c) = [query |-> q, answer |-> a, more |-> <<>>]
  <2>1. c.at \notin {"copy", "unlink"} BY <1>1
  <2> QED BY <1>1, <2>1, CallOnIs
<1>8. CallOn(procs[p]) = [query |-> q, answer |-> NULL, more |-> <<>>] /\ CallOn(procs[p]) # NULL
  <2>1. procs[p].at \notin {"copy", "unlink"} BY <1>2
  <2> QED BY <1>2, <2>1, CallOnIs
<1>9. ~Damaged /\ ~Damaged' /\ Damaged \in BOOLEAN
  <2>1. ~Torn' BY <1>2 DEF Torn
  <2> QED BY <1>3, <2>1 DEF Damaged
<1>10. Newline' = (q.op = "select" /\ Newline)
  <2>1. ~Newline' /\ q.op # "select" BY <1>2 DEF Newline
  <2>2. Newline' \in BOOLEAN BY Zenon DEF Newline
  <2> QED BY <2>1, <2>2
<1>11. Table = Promise!Seen(q, Table, Newline) BY <1>2, <1>3, SeenIsScan
<1>12. Table' = (IF q.op = "select" THEN Table ELSE Promise!After(q, Table)) BY <1>2, <1>6
<1>13. /\ AllCalls[p] = [query |-> q, answer |-> NULL, more |-> <<>>] /\ AllCalls[p] # NULL
       /\ AllCalls' = [AllCalls EXCEPT ![p] =
                          [query |-> q, answer |-> Promise!Answer(q, Table),
                           more |-> Promise!More(q, Table, Table)]]
   BY <1>4, <1>5, <1>7, <1>8, Zenon
<1> HIDE DEF q
<1> QED BY <1>2, <1>3, <1>9, <1>10, <1>11, <1>12, <1>13, PromisedApply

\* Nobody sees the temporary file.
LEMMA CloseTempRefines ==
    ASSUME IInv, NEW p \in Procs, CloseTemp(p)
    PROVE  UNCHANGED Promise!vars
<1>1. PICK c \in Calls : /\ procs' = [procs EXCEPT ![p] = c] /\ c.query = procs[p].query
                         /\ c.at = "truncate" /\ c.answer = NULL
   BY CloseTempDoes
<1>2. /\ procs[p] # NULL /\ procs[p].at = "reading" /\ procs[p].answer = NULL
      /\ file # NULL /\ HasHeader(file) /\ file' = file /\ IInv' /\ procs[p] \in Calls
   BY CloseTempDoes, Forms
<1>3. /\ AllCalls' = [AllCalls EXCEPT ![p] = CallOn(c)] /\ AllCalls[p] = CallOn(procs[p])
      /\ Table = TableIn(file, temp) /\ Table' = TableIn(file', temp')
      /\ file' = file /\ (procs[p] = NULL \/ procs[p].at # "copy")
                      /\ (c = NULL \/ c.at # "copy") => Damaged' = Damaged
   BY <1>1, <1>2, Mapped
<1>4. CallOn(c) = [query |-> c.query, answer |-> c.answer, more |-> <<>>] BY <1>1, CallOnIs
<1>5. CallOn(procs[p]) = [query |-> procs[p].query, answer |-> procs[p].answer, more |-> <<>>]
   BY <1>2, CallOnIs
<1>6. AllCalls' = AllCalls
  <2>1. CallOn(c) = CallOn(procs[p]) BY <1>1, <1>2, <1>4, <1>5
  <2> QED BY <1>3, <2>1, SameCalls
<1>7. Damaged' = Damaged /\ Table' = Table /\ Newline' = Newline
   BY <1>1, <1>2, <1>3 DEF TableIn, Newline
<1> QED BY <1>6, <1>7, PromisedStutter

\* The query takes effect when the table is opened for writing: from then on the
\* temporary file is the table.
LEMMA TruncateRefines ==
    ASSUME IInv, WrittenInv, NEW p \in Procs, Truncate(p)
    PROVE  Promise!Next
<1> DEFINE q == procs[p].query
           r == Promise!Seen(q, Table, Newline)
<1>1. PICK c \in Calls : /\ procs' = [procs EXCEPT ![p] = c] /\ c.query = q
                         /\ c.at = "copy" /\ c.seen = file /\ c.answer = NULL
   BY TruncateDoes
<1>2. /\ procs[p] # NULL /\ procs[p].at = "truncate" /\ procs[p].answer = NULL
      /\ Rewrites(q) /\ procs[p].seen = file /\ file # NULL /\ HasHeader(file) /\ temp # NULL
      /\ file' = Empty /\ temp' = temp /\ IInv' /\ procs[p] \in Calls /\ q \in Queries
   BY TruncateDoes, Forms
<1>3. file \in TextFiles /\ file.lines # <<>> /\ Table = Contents(Tail(file.lines)) /\ Table # NULL
      /\ Newline = file.nl /\ Damaged = FALSE
   BY <1>2, ReadableTable
<1>4. temp = Rewritten(q, file) BY <1>2 DEF WrittenInv, Settled
<1>5. /\ temp.lines = Promise!After(q, r)
      /\ MoreOf(c) = Promise!More(q, Table, r) /\ AnswerOf(c) = Promise!Answer(q, r)
   BY <1>1, <1>2, <1>3, <1>4, RewriteIsPromised DEF MoreOf, AnswerOf
<1> HIDE DEF r
<1>6. /\ AllCalls' = [AllCalls EXCEPT ![p] = CallOn(c)] /\ AllCalls[p] = CallOn(procs[p])
      /\ Table' = TableIn(file', temp')
   BY <1>1, <1>2, Mapped
<1>7. Table' = Promise!After(q, r)
  <2>1. Table' = Contents(temp.lines) BY <1>2, <1>6, AnswerTypes, NotNull DEF TableIn
  <2>2. temp.lines \in Seq(Rows) BY <1>2, <1>3, <1>4, RewrittenIsFile
  <2> QED BY <1>5, <2>1, <2>2, ContentsAreRows
<1>8. CallOn(c) = [query |-> q, answer |-> AnswerOf(c), more |-> MoreOf(c)]
   BY <1>1, <1>2, <1>3, CallOnIs
<1>9. CallOn(procs[p]) = [query |-> q, answer |-> NULL, more |-> <<>>] /\ CallOn(procs[p]) # NULL
  <2>1. procs[p].at \notin {"copy", "unlink"} BY <1>2
  <2> QED BY <1>2, <2>1, CallOnIs
<1>10. ~Damaged /\ ~Damaged' /\ Damaged \in BOOLEAN
  <2>1. procs'[p] = c /\ c # NULL BY <1>1, NotNull DEF IInv
  <2>2. At(p, "copy")' BY <1>1, <2>1 DEF At
  <2> QED BY <1>3, <2>2 DEF Damaged
<1>11. Newline' = (q.op = "select" /\ Newline)
  <2>1. ~Newline' /\ q.op # "select" BY <1>2 DEF Newline, Empty, Rewrites
  <2>2. Newline' \in BOOLEAN BY Zenon DEF Newline
  <2> QED BY <2>1, <2>2
<1>12. Table' = (IF q.op = "select" THEN Table ELSE Promise!After(q, r))
  <2>1. q.op # "select" BY <1>2 DEF Rewrites
  <2> QED BY <1>7, <2>1
<1>13. /\ AllCalls[p] = [query |-> q, answer |-> NULL, more |-> <<>>] /\ AllCalls[p] # NULL
       /\ AllCalls' = [AllCalls EXCEPT ![p] =
                          [query |-> q, answer |-> Promise!Answer(q, r),
                           more |-> Promise!More(q, Table, r)]]
   BY <1>5, <1>6, <1>8, <1>9, Zenon
<1>14. r = Promise!Seen(q, Table, Newline) BY DEF r
<1> HIDE DEF q
<1> QED BY <1>2, <1>3, <1>10, <1>11, <1>12, <1>13, <1>14, PromisedApply

\* Writing the table again is not seen, but for the row that is added.
LEMMA CopyBackRefines ==
    ASSUME IInv, WrittenInv, NEW p \in Procs, CopyBack(p)
    PROVE  Promise!Next \/ UNCHANGED Promise!vars
<1> DEFINE q == procs[p].query
           g == procs[p].seen
           more == MoreOf(procs[p])
           a == AnswerOf(procs[p])
<1>1. PICK c \in Calls : /\ procs' = [procs EXCEPT ![p] = c] /\ c.query = q
                         /\ c.at = "unlink" /\ c.seen = g /\ c.answer = NULL
   BY CopyBackDoes
<1>2. /\ procs[p] # NULL /\ procs[p].at = "copy" /\ Rewrites(q)
      /\ file = Empty /\ temp \in TextFiles /\ temp' = temp
      /\ g \in TextFiles /\ g.lines # <<>>
      /\ file' \in TextFiles /\ HasHeader(file') /\ ~file'.nl
      /\ Tail(file'.lines) = temp.lines \o Added(temp, Last(g.lines))
      /\ Added(temp, Last(g.lines)) \in Seq(Seq(Nat))
      /\ IInv' /\ procs[p] \in Calls /\ q \in Queries
   BY CopyBackDoes, Forms
<1>3. temp = Rewritten(q, g) BY <1>2 DEF WrittenInv, Settled
<1>4. temp.lines \in Seq(Rows) BY <1>2, <1>3, RewrittenIsFile
<1>5. Contents(Added(temp, Last(g.lines))) = more
  <2>1. Last(g.lines) \in Seq(Nat)
    <3>1. g.lines \in Seq(Seq(Nat)) /\ g.lines # <<>> BY <1>2 DEF TextFiles
    <3> HIDE DEF g
    <3> QED BY <3>1 DEF Last
  <2>2. more = Added(temp, Row(Last(g.lines))) BY <1>3 DEF MoreOf
  <2>3. CASE temp.lines = <<>>
    <3>1. /\ Added(temp, Last(g.lines)) = <<Last(g.lines)>>
          /\ more = <<Row(Last(g.lines))>>
       BY <2>2, <2>3, Zenon DEF Added
    <3> QED BY <2>1, <3>1, ContentsJoined, Zenon
  <2>4. CASE temp.lines # <<>> /\ temp.nl
    <3>1. Added(temp, Last(g.lines)) = <<Last(temp.lines)>> /\ more = <<Last(temp.lines)>>
       BY <2>2, <2>4, Zenon DEF Added
    <3>2. Last(temp.lines) \in Rows BY <1>4, <2>4 DEF Last
    <3>3. Last(temp.lines) \in Seq(Nat) /\ Row(Last(temp.lines)) = Last(temp.lines)
       BY <3>2, RowIsRow
    <3> QED BY <3>1, <3>3, ContentsJoined, Zenon
  <2>5. CASE temp.lines # <<>> /\ ~temp.nl
    <3>1. Added(temp, Last(g.lines)) = <<>> /\ more = <<>> BY <2>2, <2>5, Zenon DEF Added
    <3> QED BY <3>1, ContentsJoined, Zenon
  <2> QED BY <2>3, <2>4, <2>5
<1> HIDE DEF more
<1>6. /\ AllCalls' = [AllCalls EXCEPT ![p] = CallOn(c)] /\ AllCalls[p] = CallOn(procs[p])
      /\ Table = TableIn(file, temp) /\ Table' = TableIn(file', temp')
   BY <1>1, <1>2, Mapped
<1>7. Table' = Table \o more
  <2>1. Table = Contents(temp.lines) BY <1>2, <1>6, AnswerTypes, NotNull DEF TableIn
  <2>2. Table' = Contents(Tail(file'.lines)) BY <1>2, <1>6, NotNull DEF TableIn
  <2>3. temp.lines \in Seq(Seq(Nat)) BY <1>2 DEF TextFiles
  <2> QED BY <1>2, <1>5, <2>1, <2>2, <2>3, ContentsJoined, Zenon
<1>8. CallOn(procs[p]) = [query |-> q, answer |-> a, more |-> more] /\ CallOn(procs[p]) # NULL
   BY <1>2, CallOnIs, Zenon DEF more
<1>9. CallOn(c) = [query |-> q, answer |-> a, more |-> <<>>]
  <2>1. AnswerOf(c) = a BY <1>1 DEF AnswerOf
  <2> QED BY <1>1, <1>2, <2>1, CallOnIs, Zenon
<1>10. Damaged' = Damaged
  <2>1. ~Damaged BY <1>2 DEF Damaged, At
  <2>2. ~Damaged' BY <1>2 DEF Damaged, Torn
  <2>3. Damaged \in BOOLEAN /\ Damaged' \in BOOLEAN BY Zenon DEF Damaged
  <2> QED BY <2>1, <2>2, <2>3, Zenon
<1>11. Newline' = Newline
  <2>1. ~Newline /\ ~Newline' BY <1>2 DEF Newline, Empty
  <2>2. Newline \in BOOLEAN /\ Newline' \in BOOLEAN BY Zenon DEF Newline
  <2> QED BY <2>1, <2>2, Zenon
<1>12. CASE more = <<>>
  <2>1. CallOn(c) = CallOn(procs[p]) BY <1>8, <1>9, <1>12
  <2>2. AllCalls' = AllCalls BY <1>6, <2>1, SameCalls
  <2>3. Table' = Table
    <3>1. Table = Contents(temp.lines) BY <1>2, <1>6, AnswerTypes, NotNull DEF TableIn
    <3>2. Table \in Seq(Rows) BY <1>4, <3>1, ContentsAreRows
    <3> QED BY <1>7, <1>12, <3>2
  <2> QED BY <1>10, <1>11, <2>2, <2>3, PromisedStutter
<1>13. CASE more # <<>>
  <2>1. AllCalls' = [AllCalls EXCEPT ![p] = [query |-> q, answer |-> a, more |-> <<>>]]
     BY <1>6, <1>9, Zenon
  <2>2. AllCalls[p] = [query |-> q, answer |-> a, more |-> more] /\ AllCalls[p] # NULL
     BY <1>6, <1>8, Zenon
  <2> HIDE DEF q, a
  <2> QED BY <1>7, <1>10, <1>11, <1>13, <2>1, <2>2, PromisedAdd
<1> QED BY <1>12, <1>13

\* Nobody sees it go: the rewrite took effect when the table was truncated.
LEMMA UnlinkRefines ==
    ASSUME IInv, NEW p \in Procs, Unlink(p)
    PROVE  UNCHANGED Promise!vars
<1> DEFINE a == AnswerOf(procs[p])
<1>1. PICK c \in Calls : /\ procs' = [procs EXCEPT ![p] = c] /\ c.query = procs[p].query
                         /\ c.at = "answered" /\ c.answer = a
   BY UnlinkDoes DEF AnswerOf
<1>2. /\ procs[p] # NULL /\ procs[p].at = "unlink" /\ procs[p] \in Calls
      /\ file # NULL /\ HasHeader(file) /\ file' = file /\ IInv'
   BY UnlinkDoes, Forms
<1>3. /\ AllCalls' = [AllCalls EXCEPT ![p] = CallOn(c)] /\ AllCalls[p] = CallOn(procs[p])
      /\ Table = TableIn(file, temp) /\ Table' = TableIn(file', temp')
      /\ file' = file /\ (procs[p] = NULL \/ procs[p].at # "copy")
                      /\ (c = NULL \/ c.at # "copy") => Damaged' = Damaged
   BY <1>1, <1>2, Mapped
<1>4. AllCalls' = AllCalls
  <2>1. CallOn(c) = [query |-> c.query, answer |-> c.answer, more |-> <<>>]
    <3>1. c.at \notin {"copy", "unlink"} BY <1>1
    <3> QED BY <3>1, CallOnIs
  <2>2. CallOn(procs[p]) = [query |-> procs[p].query, answer |-> a, more |-> <<>>]
     BY <1>2 DEF CallOn
  <2> HIDE DEF a
  <2>3. CallOn(c) = CallOn(procs[p]) BY <1>1, <2>1, <2>2
  <2> QED BY <1>3, <2>3, SameCalls
<1>5. Damaged' = Damaged /\ Table' = Table /\ Newline' = Newline
   BY <1>1, <1>2, <1>3 DEF TableIn, Newline
<1> QED BY <1>4, <1>5, PromisedStutter

\* A return is a return.
LEMMA ReturnRefines ==
    ASSUME IInv, NEW p \in Procs, Return(p)
    PROVE  Promise!Next
<1>1. /\ procs[p] # NULL /\ procs[p].at = "answered" /\ Placed(procs[p], file, temp)
      /\ file' = file /\ temp' = temp /\ procs' = [procs EXCEPT ![p] = NULL] /\ IInv'
      /\ procs[p] \in Calls /\ NULL \in Calls \cup {NULL}
   BY LeaveDoes, Forms
<1>2. procs[p].answer # NULL BY <1>1 DEF Placed
<1>3. /\ AllCalls' = [AllCalls EXCEPT ![p] = CallOn(NULL)] /\ AllCalls[p] = CallOn(procs[p])
      /\ Table = TableIn(file, temp) /\ Table' = TableIn(file', temp')
      /\ procs[p].at # "copy" => Damaged' = Damaged
   BY <1>1, Mapped
<1>4. CallOn(NULL) = NULL BY DEF CallOn
<1>5. CallOn(procs[p]) # NULL /\ CallOn(procs[p]).answer # NULL /\ CallOn(procs[p]).more = <<>>
  <2>1. procs[p].at \notin {"copy", "unlink"} BY <1>1
  <2>2. /\ CallOn(procs[p]) # NULL
        /\ CallOn(procs[p]) = [query |-> procs[p].query, answer |-> procs[p].answer, more |-> <<>>]
     BY <1>1, <2>1, CallOnIs
  <2> QED BY <1>2, <2>2
<1>6. Damaged' = Damaged /\ Table' = Table /\ Newline' = Newline BY <1>1, <1>3 DEF Newline
<1> QED BY <1>3, <1>4, <1>5, <1>6, PromisedReturn

\* Dying between the truncation and the copy leaves the table damaged.
LEMMA CrashRefines ==
    ASSUME IInv, NEW p \in Procs, Crash(p)
    PROVE  Promise!Next
<1>1. /\ procs[p] # NULL /\ Placed(procs[p], file, temp)
      /\ file' = file /\ temp' = temp /\ procs' = [procs EXCEPT ![p] = NULL] /\ IInv'
      /\ procs[p] \in Calls /\ NULL \in Calls \cup {NULL}
      /\ procs[p].seen \in TextFiles \cup {NULL}
   BY LeaveDoes, Forms
<1>2. procs[p].at \in {"copy", "unlink"} =>
         procs[p].seen \in TextFiles /\ procs[p].seen.lines # <<>> /\ Rewrites(procs[p].query)
   BY <1>1 DEF Placed, HasHeader
<1>3. /\ AllCalls' = [AllCalls EXCEPT ![p] = CallOn(NULL)] /\ AllCalls[p] = CallOn(procs[p])
      /\ Table = TableIn(file, temp) /\ Table' = TableIn(file', temp')
      /\ procs[p].at # "copy" => Damaged' = Damaged
   BY <1>1, Mapped
<1>4. CallOn(NULL) = NULL BY DEF CallOn
<1>5. CallOn(procs[p]) # NULL BY <1>1, <1>2, CallOnIs
<1>6. Table' = Table /\ Newline' = Newline BY <1>1, <1>3 DEF Newline
<1>7. CASE procs[p].at # "copy"
  <2>1. Damaged' = Damaged BY <1>1, <1>3, <1>7
  <2> QED BY <1>3, <1>4, <1>5, <1>6, <2>1, PromisedCrash
<1>8. CASE procs[p].at = "copy"
  <2> DEFINE a == AnswerOf(procs[p])
             more == MoreOf(procs[p])
  <2>1. /\ CallOn(procs[p]) = [query |-> procs[p].query, answer |-> a, more |-> more]
        /\ a # NULL
     BY <1>1, <1>2, <1>8, CallOnIs
  <2> HIDE DEF a, more
  <2>2. Rewrites(procs[p].query) /\ file = Empty BY <1>1, <1>8 DEF Placed
  <2>3. AllCalls[p].answer # NULL /\ Rewrites(AllCalls[p].query) BY <1>3, <2>1, <2>2
  <2>4. Damaged'
    <3>1. Torn' BY <1>1, <2>2, AnswerTypes, NotNull DEF Torn
    <3>2. ASSUME NEW o \in Procs PROVE ~At(o, "copy")'
      <4>1. procs'[p] = NULL /\ (o # p => procs'[o] = procs[o]) BY <1>1 DEF IInv
      <4>2. o # p => procs[o] = NULL BY <1>1, <2>2 DEF IInv, Alone
      <4> QED BY <4>1, <4>2 DEF At
    <3> QED BY <3>1, <3>2 DEF Damaged
  <2> QED BY <1>3, <1>4, <1>5, <1>6, <2>3, <2>4, PromisedCrash
<1> QED BY <1>7, <1>8

\* Every step is one of TextTable, or is not seen.
LEMMA StepRefines ==
    IInv /\ WrittenInv /\ [Next]_vars => [Promise!Next]_Promise!vars
<1> SUFFICES ASSUME IInv, WrittenInv, [Next]_vars PROVE Promise!Next \/ UNCHANGED Promise!vars
   OBVIOUS
<1>1. CASE UNCHANGED vars
  <2>1. file' = file /\ temp' = temp /\ procs' = procs BY <1>1 DEF vars
  <2>2. Table' = Table BY <2>1 DEF Table, Torn
  <2>3. AllCalls' = AllCalls BY <2>1 DEF AllCalls, CallOf, At
  <2>4. Damaged' = Damaged /\ Newline' = Newline BY <2>1 DEF Damaged, Torn, At, Newline
  <2> QED BY <2>2, <2>3, <2>4, PromisedStutter
<1>2. CASE Next
  <2>1. PICK p \in Procs :
           \/ \E q \in Queries : Call(p, q)
           \/ Open(p) \/ ReadMore(p) \/ SelectEnds(p) \/ Insert(p)
           \/ CloseTemp(p) \/ Truncate(p) \/ CopyBack(p) \/ Unlink(p)
           \/ Return(p) \/ Crash(p)
     BY <1>2, Zenon DEF Next
  <2> QED BY <2>1, CallRefines, OpenRefines, ReadMoreRefines, SelectEndsRefines, InsertRefines,
             CloseTempRefines, TruncateRefines, CopyBackRefines, UnlinkRefines,
             ReturnRefines, CrashRefines, Zenon
<1> QED BY <1>1, <1>2

\* So are the initial states.
LEMMA InitRefines == WellFormed /\ Init => Promise!Init
<1> SUFFICES ASSUME WellFormed, Init PROVE Promise!Init OBVIOUS
<1>1. /\ file \in Files /\ (file # NULL => HasHeader(file))
      /\ \A p \in Procs : procs[p] = NULL
   BY DEF Init, WellFormed
<1>2. \E t \in {TableOf(g) : g \in Files} : Table = t.rows /\ (file # NULL /\ file.nl) = t.newline
  <2>1. Table = TableOf(file).rows BY <1>1 DEF Table, TableOf, Torn
  <2>2. (file # NULL /\ file.nl) = TableOf(file).newline
    <3>1. CASE file = NULL BY <3>1 DEF TableOf
    <3>2. CASE file # NULL
      <4>1. file.nl \in BOOLEAN BY <1>1, <3>2, TextAssumption DEF TextAssumption, TextFiles
      <4>2. TableOf(file).newline = file.nl BY <3>2 DEF TableOf
      <4> QED BY <3>2, <4>1, <4>2
    <3> QED BY <3>1, <3>2
  <2> QED BY <1>1, <2>1, <2>2
<1>3. (Torn /\ \A p \in Procs : ~At(p, "copy")) = FALSE BY <1>1 DEF Torn
<1>4. [p \in Procs |-> CallOf(p)] = [p \in Procs |-> NULL]
  <2>1. \A p \in Procs : CallOf(p) = NULL BY <1>1 DEF CallOf, At
  <2> QED BY <2>1, Zenon
<1> QED BY <1>2, <1>3, <1>4, Zenon DEF Promise!Init

\* Atomicity: if the file, when there is one, has a header at first, each query takes
\* effect at one moment and on the whole table: an insert when its file is closed, a
\* select when it meets the end of the file, an update or delete when the table is opened
\* for writing; and a crash loses no row until the next update or delete.  The rows too
\* many that TextTable allows for are all that the loops at feof change in that
\* (text_driver.c:862-1089).
THEOREM TableIsAtomic ==
    ASSUME WellFormed
    PROVE  Spec => QueriesAreAtomic
<1>1. Init => IInv /\ WrittenInv /\ Promise!Init BY IInvInit, WrittenInit, InitRefines
<1>2. IInv /\ WrittenInv /\ [Next]_vars => IInv' /\ WrittenInv' BY IInvStep, WrittenStep
<1> QED BY <1>1, <1>2, StepRefines, PTL DEF Spec, QueriesAreAtomic, Promise!Spec
=============================================================================
