----------------------------- MODULE ScanProofs -----------------------------
(***************************************************************************)
(* The safety of Get, Select and InitializeVersion, for all struct types,  *)
(* calls and rows and for any number of calls with one destination: IInv   *)
(* of Scan is inductive, and what TLC checks of errors and rows follows;   *)
(* what it checks of versions follows from VersionInv, and what it checks  *)
(* of arrays from ArrayInv and ArrayRead.                                  *)
(***************************************************************************)
EXTENDS Scan, SequenceTheorems, NaturalsInduction, WellFoundedInduction, TLAPS

\* A set of numbers that is not empty has a least one.
LEMMA LeastOf ==
  ASSUME NEW T, T \subseteq Nat, T # {}
  PROVE  \E x \in T : \A y \in T : x <= y
<1> DEFINE R == {ss \in Nat \X Nat : ss[1] < ss[2]}
<1>1. IsWellFoundedOn(R, Nat)
  BY NatLessThanWellFounded DEF OpToRel
<1>2. \A x, y \in T : y < x => <<y, x>> \in R
  OBVIOUS
<1> HIDE DEF R
<1>3. \E x \in T : \A y \in T : ~ (<<y, x>> \in R)
  BY <1>1, WFMin
<1>4. \A x, y \in T : ~(y < x) => x <= y
  OBVIOUS
<1> QED
  BY <1>2, <1>3, <1>4

\* What is needed of sequences of anything.
LEMMA SeqFacts ==
  ASSUME NEW s, IsSeq(s)
  PROVE  Len(s) \in Nat /\ DOMAIN s = 1 .. Len(s)
BY DEF IsSeq

\* A function on 1 .. n is a sequence of length n.
LEMMA IsSeqOf ==
  ASSUME NEW n \in Nat, NEW s, s = [i \in 1 .. n |-> s[i]]
  PROVE  IsSeq(s) /\ Len(s) = n
<1> DEFINE S == {s[i] : i \in 1 .. n}
<1>1. s \in Seq(S)
  <2>1. \A i \in 1 .. n : s[i] \in S
    OBVIOUS
  <2> HIDE DEF S
  <2>2. [i \in 1 .. n |-> s[i]] \in [1 .. n -> S]
    BY <2>1
  <2> QED
    BY <2>2
<1>2. DOMAIN s = 1 .. n
  OBVIOUS
<1>3. Len(s) = n
  <2> HIDE DEF S
  <2> QED
    BY <1>1, <1>2
<1> QED
  BY <1>3 DEF IsSeq

\* IsSeq is what Seq(S) says, without the S.
LEMMA SeqIsSeq ==
  ASSUME NEW S, NEW s \in Seq(S)
  PROVE  IsSeq(s)
<1>1. Len(s) \in Nat /\ DOMAIN s = 1 .. Len(s) /\ s \in [1 .. Len(s) -> S]
  OBVIOUS
<1> QED
  BY <1>1 DEF IsSeq

\* What Append adds, and what it leaves.
LEMMA AppendSeq ==
  ASSUME NEW s, IsSeq(s), NEW x
  PROVE  /\ IsSeq(Append(s, x))
         /\ Len(Append(s, x)) = Len(s) + 1
         /\ \A i \in 1 .. Len(s) : Append(s, x)[i] = s[i]
         /\ Append(s, x)[Len(s) + 1] = x
<1> DEFINE S == {s[i] : i \in 1 .. Len(s)} \cup {x}
<1>1. Len(s) \in Nat /\ s = [i \in 1 .. Len(s) |-> s[i]]
  BY DEF IsSeq
<1>2. s \in Seq(S)
  <2>1. \A i \in 1 .. Len(s) : s[i] \in S
    OBVIOUS
  <2> HIDE DEF S
  <2>2. [i \in 1 .. Len(s) |-> s[i]] \in [1 .. Len(s) -> S]
    BY <2>1
  <2> QED
    BY <1>1, <2>2
<1>3. x \in S
  OBVIOUS
<1> HIDE DEF S
<1>4. /\ Append(s, x) \in Seq(S)
      /\ Len(Append(s, x)) = Len(s) + 1
      /\ \A i \in 1 .. Len(s) : Append(s, x)[i] = s[i]
      /\ Append(s, x)[Len(s) + 1] = x
  BY <1>1, <1>2, <1>3, AppendProperties
<1>5. IsSeq(Append(s, x))
  BY <1>4, SeqIsSeq
<1> QED
  BY <1>4, <1>5

\* The empty sequence is the only one of length 0.
LEMMA SeqOfNone ==
  /\ IsSeq(<<>>) /\ Len(<<>>) = 0 /\ DOMAIN <<>> = {}
  /\ \A s : IsSeq(s) /\ Len(s) = 0 => s = <<>>
<1>1. ASSUME NEW s, IsSeq(s), Len(s) = 0
      PROVE  s = <<>>
  <2>1. s = [i \in 1 .. 0 |-> s[i]]
    BY <1>1 DEF IsSeq
  <2> QED
    BY <2>1
<1> QED
  BY <1>1 DEF IsSeq

\* A sequence of one entry.
LEMMA SeqOfOne ==
  ASSUME NEW x
  PROVE  IsSeq(<<x>>) /\ Len(<<x>>) = 1 /\ DOMAIN <<x>> = {1} /\ <<x>>[1] = x
BY DEF IsSeq

\* Two sequences with the same entries are the same.
LEMMA SeqsEqual ==
  ASSUME NEW s, NEW t, IsSeq(s), IsSeq(t), Len(s) = Len(t), \A i \in 1 .. Len(s) : s[i] = t[i]
  PROVE  s = t
<1>1. s = [i \in 1 .. Len(s) |-> s[i]] /\ t = [i \in 1 .. Len(s) |-> t[i]]
  BY DEF IsSeq
<1>2. [i \in 1 .. Len(s) |-> s[i]] = [i \in 1 .. Len(s) |-> t[i]]
  OBVIOUS
<1> QED
  BY <1>1, <1>2

\* What a concatenation has.
LEMMA ConcatSeq ==
  ASSUME NEW s, NEW t, IsSeq(s), IsSeq(t)
  PROVE  /\ IsSeq(s \o t) /\ Len(s \o t) = Len(s) + Len(t)
         /\ \A i \in 1 .. Len(s) : (s \o t)[i] = s[i]
         /\ \A i \in 1 .. Len(t) : (s \o t)[Len(s) + i] = t[i]
<1> DEFINE S == {s[i] : i \in 1 .. Len(s)} \cup {t[i] : i \in 1 .. Len(t)}
           u == s \o t
           m == Len(s)
           n == Len(t)
<1>1. /\ m \in Nat /\ s = [i \in 1 .. m |-> s[i]]
      /\ n \in Nat /\ t = [i \in 1 .. n |-> t[i]]
  BY DEF IsSeq
<1>2. s \in Seq(S) /\ t \in Seq(S)
  <2>1. (\A i \in 1 .. m : s[i] \in S) /\ \A i \in 1 .. n : t[i] \in S
    OBVIOUS
  <2> HIDE DEF S
  <2>2. [i \in 1 .. m |-> s[i]] \in [1 .. m -> S] /\ [i \in 1 .. n |-> t[i]] \in [1 .. n -> S]
    BY <2>1
  <2> QED
    BY <1>1, <2>2
<1> HIDE DEF S
<1>3. /\ u \in Seq(S) /\ Len(u) = m + n
      /\ \A i \in 1 .. m + n : u[i] = IF i <= m THEN s[i] ELSE t[i - m]
  BY <1>2, ConcatProperties
<1>4. IsSeq(u)
  BY <1>3, SeqIsSeq
<1> HIDE DEF u, m, n
<1>5. ASSUME NEW i \in 1 .. m
      PROVE  u[i] = s[i]
  <2>1. i \in 1 .. m + n /\ i <= m
    BY <1>1
  <2> QED
    BY <1>3, <2>1
<1>6. ASSUME NEW i \in 1 .. n
      PROVE  u[m + i] = t[i]
  <2>1. m \in Nat /\ n \in Nat /\ i \in Nat /\ 1 <= i /\ i <= n
    BY <1>1
  <2> DEFINE k == m + i
  <2>2. k \in 1 .. m + n /\ ~(k <= m) /\ k - m = i
    BY <2>1
  <2> HIDE DEF k
  <2>3. u[k] = t[k - m]
    BY <1>3, <2>2
  <2> QED
    BY <2>2, <2>3 DEF k
<1> QED
  BY <1>3, <1>4, <1>5, <1>6 DEF u, m, n

\* Nothing before a sequence.
LEMMA NothingBefore ==
  ASSUME NEW s, IsSeq(s)
  PROVE  <<>> \o s = s
<1> DEFINE e == <<>>
           u == e \o s
<1>1. IsSeq(e) /\ Len(e) = 0
  BY SeqOfNone
<1> HIDE DEF e
<1>2. IsSeq(u) /\ Len(u) = Len(e) + Len(s) /\ \A i \in 1 .. Len(s) : u[Len(e) + i] = s[i]
  BY <1>1, ConcatSeq
<1> HIDE DEF u
<1>3. Len(s) \in Nat
  BY SeqFacts
<1>4. Len(u) = Len(s) /\ \A i \in 1 .. Len(s) : u[i] = s[i]
  BY <1>1, <1>2, <1>3
<1>5. u = s
  BY <1>2, <1>4, SeqsEqual
<1> QED
  BY <1>5 DEF u, e

-----------------------------------------------------------------------------
(* Columns and fields.                                                     *)

\* The field of a column is one that no other field shadows.
LEMMA FieldMapOwns ==
  ASSUME NEW type \in StructTypes, NEW col, Claims(type, KeyOf(type, col)) # {}
  PROVE  FieldMap(type, KeyOf(type, col)) \in Owners(type, col)
<1> DEFINE claims   == Claims(type, KeyOf(type, col))
           depth(i) == Fields[type][i].depth
           Shallowest(i) == \A j \in claims : depth(i) < depth(j) \/ (depth(i) = depth(j) /\ i <= j)
<1>1. \A i \in claims : i \in Nat /\ depth(i) \in Nat
  BY ScanAssumption DEF Claims
<1>2. PICK d \in {depth(i) : i \in claims} : \A e \in {depth(i) : i \in claims} : d <= e
  <2>1. {depth(i) : i \in claims} \subseteq Nat /\ {depth(i) : i \in claims} # {}
    BY <1>1
  <2> HIDE DEF claims, depth
  <2> QED
    BY <2>1, LeastOf
<1>3. PICK m \in {i \in claims : depth(i) = d} : \A j \in {i \in claims : depth(i) = d} : m <= j
  <2>1. {i \in claims : depth(i) = d} \subseteq Nat /\ {i \in claims : depth(i) = d} # {}
    BY <1>1, <1>2
  <2> HIDE DEF claims, depth
  <2> QED
    BY <2>1, LeastOf
<1>4. m \in claims /\ Shallowest(m)
  <2> SUFFICES ASSUME NEW j \in claims
               PROVE  depth(m) < depth(j) \/ (depth(m) = depth(j) /\ m <= j)
    BY <1>3
  <2>1. d <= depth(j) /\ d \in Nat /\ depth(j) \in Nat /\ depth(m) = d
    BY <1>1, <1>2, <1>3
  <2>2. depth(j) = d => m <= j
    BY <1>3
  <2> HIDE DEF claims, depth
  <2> QED
    BY <2>1, <2>2
<1>5. FieldMap(type, KeyOf(type, col)) = CHOOSE i \in claims : Shallowest(i)
  BY DEF FieldMap
<1> DEFINE f == CHOOSE i \in claims : Shallowest(i)
<1>6. f \in claims /\ Shallowest(f)
  <2> HIDE DEF claims, Shallowest
  <2> QED
    BY <1>4
<1>7. \A j \in claims : depth(f) <= depth(j)
  <2>1. ASSUME NEW j \in claims
        PROVE  depth(f) <= depth(j)
    <3>1. depth(f) < depth(j) \/ depth(f) = depth(j)
      BY <1>6
    <3>2. depth(f) \in Nat /\ depth(j) \in Nat
      BY <1>1, <1>6
    <3> HIDE DEF f, claims, depth, Shallowest
    <3> QED
      BY <3>1, <3>2
  <2> QED
    BY <2>1
<1> HIDE DEF f
<1> QED
  BY <1>5, <1>6, <1>7 DEF Owners, f

\* A field that owns a column has a cell.
LEMMA OwnersAreCells ==
  ASSUME NEW type \in StructTypes, isMappableStruct(type), NEW col
  PROVE  Owners(type, col) \subseteq Cells(type)
BY DEF Owners, Claims, Cells

-----------------------------------------------------------------------------
(* The rows of a call and what Scan makes of one.                          *)

\* Every row of a call has a value for every column.
LEMMA CallFacts ==
  ASSUME NEW c \in Calls
  PROVE  /\ Len(c.rows) \in Nat /\ DOMAIN c.rows = 1 .. Len(c.rows)
         /\ Len(c.cols) \in Nat /\ DOMAIN c.cols = 1 .. Len(c.cols)
         /\ \A k \in 1 .. Len(c.rows) : /\ Len(c.rows[k]) = Len(c.cols)
                                        /\ DOMAIN c.rows[k] = DOMAIN c.cols
         /\ c.rows = <<>> <=> Len(c.rows) = 0
<1>1. IsSeq(c.rows) /\ IsSeq(c.cols)
  BY ScanAssumption
<1>2. /\ Len(c.rows) \in Nat /\ DOMAIN c.rows = 1 .. Len(c.rows)
      /\ Len(c.cols) \in Nat /\ DOMAIN c.cols = 1 .. Len(c.cols)
  BY <1>1, SeqFacts
<1>3. ASSUME NEW k \in 1 .. Len(c.rows)
      PROVE  Len(c.rows[k]) = Len(c.cols) /\ DOMAIN c.rows[k] = DOMAIN c.cols
  <2>1. IsSeq(c.rows[k]) /\ Len(c.rows[k]) = Len(c.cols)
    BY <1>2, ScanAssumption
  <2>2. DOMAIN c.rows[k] = 1 .. Len(c.rows[k])
    BY <2>1, SeqFacts
  <2> QED
    BY <1>2, <2>1, <2>2
<1> QED
  BY <1>1, <1>2, <1>3, SeqOfNone

\* Good is where the conversion of the row stops.
LEMMA GoodIsFirstBad ==
  ASSUME call \in Calls, taken \in 1 .. Len(call.rows)
  PROVE  Good \in 0 .. Len(Row)
<1> DEFINE ok(c)  == Converted(CellType(call.type, CellOf(c)), Row[c]).ok
           n      == Len(Row)
           bad    == {k \in 0 .. n : k < n => ~ok(k + 1)}
           stop(k) == /\ \A c \in 1 .. k : ok(c)
                      /\ k < n => ~ok(k + 1)
<1>1. n \in Nat
  BY CallFacts DEF Row
<1>2. PICK k \in bad : \A j \in bad : k <= j
  <2>1. n \in bad /\ bad \subseteq Nat
    BY <1>1
  <2> HIDE DEF bad
  <2> QED
    BY <2>1, LeastOf
<1>3. ASSUME NEW c \in 1 .. k
      PROVE  ok(c)
  <2>1. c - 1 \in 0 .. n /\ c - 1 < n /\ (c - 1) + 1 = c /\ ~(k <= c - 1)
    BY <1>1, <1>2
  <2>2. c - 1 \notin bad
    BY <1>2, <2>1
  <2> HIDE DEF ok
  <2> QED
    BY <2>1, <2>2
<1>4. k \in 0 .. n /\ stop(k)
  BY <1>2, <1>3
<1>5. Good = CHOOSE j \in 0 .. n : stop(j)
  BY DEF Good
<1> HIDE DEF n, stop
<1> QED
  BY <1>4, <1>5 DEF n

\* The last of the columns that go to a cell.
LEMMA LastColumn ==
  ASSUME NEW n \in Nat, NEW cs, cs \subseteq 1 .. n, NEW c \in cs, \A d \in cs : d <= c
  PROVE  (CHOOSE k \in cs : \A d \in cs : d <= k) = c
<1> DEFINE m == CHOOSE k \in cs : \A d \in cs : d <= k
<1>1. m \in cs /\ \A d \in cs : d <= m
  OBVIOUS
<1> HIDE DEF m
<1>2. m \in 1 .. n /\ c \in 1 .. n /\ m <= c /\ c <= m
  BY <1>1
<1>3. m = c
  BY <1>2
<1> QED
  BY <1>3 DEF m

\* A converted row is in its fields.
LEMMA FilledHolds ==
  ASSUME call \in Calls, taken \in 1 .. Len(call.rows), Good = Len(Row),
         pc = "scan", PathInv,
         isMappableStruct(call.type) \/ Len(Row) = 1,
         NEW base, DOMAIN base = Cells(call.type)
  PROVE  Holds(call, Filled(base, Good), base, Row)
<1> DEFINE n     == Len(Row)
           o     == Filled(base, n)
           cs(i) == {c \in 1 .. n : CellOf(c) = i}
           conv(i, c) == Converted(CellType(call.type, i), Row[c]).val
<1>1. n \in Nat /\ DOMAIN Row = 1 .. n /\ DOMAIN call.cols = 1 .. n /\ n = Len(call.cols)
  BY CallFacts DEF Row
<1>2. DOMAIN o = Cells(call.type)
  BY DEF Filled
<1>3. ASSUME NEW i \in Cells(call.type), cs(i) = {}
      PROVE  o[i] = base[i]
  BY <1>3 DEF Filled
<1>4. ASSUME NEW i \in Cells(call.type), NEW c \in cs(i), \A d \in cs(i) : d <= c
      PROVE  o[i] = conv(i, c)
  <2>1. (CHOOSE k \in cs(i) : \A d \in cs(i) : d <= k) = c
    <3>1. cs(i) \subseteq 1 .. n
      OBVIOUS
    <3> HIDE DEF cs
    <3> QED
      BY <1>1, <1>4, <3>1, LastColumn
  <2>2. cs(i) # {}
    BY <1>4
  <2>3. o[i] = conv(i, CHOOSE k \in cs(i) : \A d \in cs(i) : d <= k)
    BY <2>2 DEF Filled
  <2> QED
    BY <2>1, <2>3
<1>5. CASE ~isMappableStruct(call.type)
  <2>1. n = 1 /\ paths = <<>> /\ Cells(call.type) = {1}
    BY <1>5 DEF PathInv, Cells
  <2>2. cs(1) = {1}
    BY <2>1 DEF CellOf
  <2>3. o[1] = conv(1, 1)
    BY <1>4, <2>1, <2>2
  <2> QED
    BY <1>5, <2>3 DEF Holds
<1>6. CASE isMappableStruct(call.type)
  <2> DEFINE owned(c) == Owners(call.type, call.cols[c])
             last(c)  == \A d \in c + 1 .. n : owned(d) \cap owned(c) = {}
  <2>1. /\ DOMAIN paths = 1 .. n
        /\ \A c \in 1 .. n : paths[c] \in owned(c)
    BY <1>1, <1>6 DEF PathInv
  <2>2. ASSUME NEW c \in 1 .. n
        PROVE  CellOf(c) \in owned(c) /\ CellOf(c) \in Cells(call.type)
    <3>1. paths # <<>>
      BY <1>1, <2>1
    <3>2. call.type \in StructTypes
      BY <1>6 DEF isMappableStruct
    <3> QED
      BY <1>6, <2>1, <3>1, <3>2, OwnersAreCells DEF CellOf
  <2>3. ASSUME NEW c \in 1 .. n, last(c)
        PROVE  \E i \in owned(c) : o[i] = conv(i, c)
    <3> DEFINE i == CellOf(c)
    <3>1. i \in owned(c) /\ i \in Cells(call.type) /\ c \in cs(i)
      BY <2>2
    <3>2. ASSUME NEW d \in cs(i), ~(d <= c)
          PROVE  FALSE
      <4>1. d \in c + 1 .. n /\ d \in 1 .. n
        BY <1>1, <3>2
      <4>2. i \in owned(d)
        BY <2>2, <4>1
      <4> QED
        BY <2>3, <3>1, <4>1, <4>2
    <3>3. o[i] = conv(i, c)
      <4> HIDE DEF cs, conv, o, i
      <4> QED
        BY <1>4, <3>1, <3>2
    <3> QED
      BY <3>1, <3>3
  <2>4. ASSUME NEW i \in Cells(call.type), \A c \in 1 .. n : i \notin owned(c)
        PROVE  o[i] = base[i]
    <3>1. cs(i) = {}
      BY <2>2, <2>4
    <3> HIDE DEF cs, o
    <3> QED
      BY <1>3, <3>1
  <2> HIDE DEF o, cs
  <2> QED
    BY <1>1, <1>2, <1>6, <2>3, <2>4 DEF Holds, o
<1> QED
  BY <1>5, <1>6

-----------------------------------------------------------------------------
(* One lemma for every action.                                             *)

\* The variables that are sequences, as functions on numbers.
LEMMA StateFacts ==
  ASSUME IInv
  PROVE  /\ Len(call.rows) \in Nat
         /\ Len(objects) \in Nat /\ DOMAIN objects = 1 .. Len(objects)
         /\ Len(dest) \in Nat /\ DOMAIN dest = 1 .. Len(dest)
         /\ Len(kept) \in Nat /\ DOMAIN kept = 1 .. Len(kept)
BY CallFacts, SeqFacts DEF IInv, TypeOK, ObjectInv

\* The elements stay when the objects they refer to do, and no other is added.
LEMMA StillArrive ==
  ASSUME IInv, UNCHANGED <<call, made, dest, kept>>,
         call.op = "Select" => \A i \in DOMAIN dest : Value(dest[i])' = Value(dest[i]),
         made > 0 /\ call.op = "Get" /\ Done' /\ err' = "nil" => Holds(call, objects'[1], Base, call.rows[1])
  PROVE  RowsArrive'
<1> SUFFICES ASSUME made > 0
             PROVE  /\ call.op = "Select" =>
                         /\ Len(dest) >= Len(kept)
                         /\ \A i \in DOMAIN kept : Value(dest[i])' = kept[i]
                         /\ \A i \in Len(kept) + 1 .. Len(dest) :
                              Holds(call, Value(dest[i])', Blank(call.type), call.rows[i - Len(kept)])
                    /\ call.op = "Get" /\ Done' /\ err' = "nil" => Holds(call, objects'[1], Base, call.rows[1])
  BY DEF RowsArrive, Base, Done
<1>1. RowsArrive
  BY DEF IInv
<1>2. CASE call.op = "Select"
  <2>1. /\ Len(dest) >= Len(kept)
        /\ \A i \in DOMAIN kept : Value(dest[i]) = kept[i]
        /\ \A i \in Len(kept) + 1 .. Len(dest) :
             Holds(call, Value(dest[i]), Blank(call.type), call.rows[i - Len(kept)])
    BY <1>1, <1>2 DEF RowsArrive
  <2>2. \A i \in 1 .. Len(dest) : Value(dest[i])' = Value(dest[i])
    BY <1>2, StateFacts
  <2>3. \A i \in Len(kept) + 1 .. Len(dest) : i \in 1 .. Len(dest)
    BY StateFacts
  <2>4. \A i \in DOMAIN kept : i \in 1 .. Len(dest)
    BY StateFacts, <2>1
  <2> QED
    BY <1>2, <2>1, <2>2, <2>3, <2>4
<1>3. CASE call.op # "Select"
  BY <1>3
<1> QED
  BY <1>2, <1>3

\* Only whether the rows are closed may change.
LEMMA Unmoved ==
  ASSUME IInv, UNCHANGED <<call, made, pc, taken, paths, objects, elem, dest, err, version, kept>>,
         broken' \in BOOLEAN
  PROVE  IInv'
<1>1. TypeOK' /\ ObjectInv' /\ PathInv' /\ CountInv' /\ ErrorsSurface'
  BY DEF IInv, TypeOK, ObjectInv, PathInv, CountInv, ErrorsSurface, Done
<1>2. ElementInv'
  BY DEF IInv, ElementInv, Base
<1>3. RowsArrive'
  BY StillArrive DEF IInv, RowsArrive, Value, Done, Base
<1> QED
  BY <1>1, <1>2, <1>3 DEF IInv

\* The context ends or the session is lost.
LEMMA RowsClosedKeeps ==
  ASSUME IInv, RowsClosed
  PROVE  IInv'
BY Unmoved DEF RowsClosed

\* columnPaths: an unknown column fails, and the others get a field that owns them.
LEMMA ColumnsKeeps ==
  ASSUME IInv, Columns
  PROVE  IInv'
<1>1. /\ pc = "columns" /\ made > 0 /\ isMappableStruct(call.type) /\ call.type \in StructTypes
      /\ UNCHANGED <<call, made, broken, taken, objects, elem, dest, version, kept>>
      /\ call \in Calls
  BY DEF Columns, IInv, TypeOK, ObjectInv, PathInv, isMappableStruct
<1>2. CASE End("error") /\ UNCHANGED paths
  <2>1. TypeOK' /\ ObjectInv' /\ PathInv' /\ CountInv' /\ ErrorsSurface'
    BY <1>1, <1>2, StateFacts DEF IInv, TypeOK, ObjectInv, PathInv, CountInv, ErrorsSurface, Done, End
  <2>2. ElementInv'
    BY <1>1, <1>2 DEF IInv, ElementInv, End
  <2>3. RowsArrive'
    BY <1>1, <1>2, StillArrive DEF Value, End
  <2> QED
    BY <2>1, <2>2, <2>3 DEF IInv
<1>3. CASE /\ \A c \in DOMAIN call.cols : Claims(call.type, KeyOf(call.type, call.cols[c])) # {}
           /\ paths' = [c \in DOMAIN call.cols |-> FieldMap(call.type, KeyOf(call.type, call.cols[c]))]
           /\ pc' = IF call.op = "Select" THEN "next" ELSE "scan"
           /\ UNCHANGED err
  <2>1. DOMAIN paths' = DOMAIN call.cols
    BY <1>3
  <2>2. \A c \in DOMAIN paths' : paths'[c] \in Owners(call.type, call.cols[c])
    BY <1>1, <1>3, FieldMapOwns
  <2>3. TypeOK' /\ ObjectInv' /\ CountInv' /\ ErrorsSurface'
    <3>1. \A c \in DOMAIN paths' : paths'[c] \in Cells(call.type)
      BY <1>1, <2>2, OwnersAreCells
    <3> QED
      BY <1>1, <1>3, <3>1, StateFacts DEF IInv, TypeOK, ObjectInv, CountInv, ErrorsSurface, Done
  <2>4. PathInv'
    BY <1>1, <2>1, <2>2, <1>3 DEF PathInv
  <2>5. ElementInv'
    BY <1>1, <1>3 DEF IInv, ElementInv, Base
  <2>6. RowsArrive'
    BY <1>1, <1>3, StillArrive DEF Value, Done
  <2> QED
    BY <2>3, <2>4, <2>5, <2>6 DEF IInv
<1> QED
  BY <1>2, <1>3 DEF Columns

\* The loop of scanAll: a new object for the row, or the end of the rows.
LEMMA NextRowKeeps ==
  ASSUME IInv, NextRow
  PROVE  IInv'
<1>1. /\ pc = "next" /\ call.op = "Select" /\ made > 0
      /\ UNCHANGED <<call, made, broken, paths, dest, version, kept>>
      /\ taken \in 0 .. Len(call.rows)
  BY DEF NextRow, IInv, TypeOK, ObjectInv
<1>2. CASE MoreRows /\ taken' = taken + 1 /\ pc' = "scan" /\ UNCHANGED err /\ NewElem
  <2>1. objects' = Append(objects, Blank(call.type)) /\ elem' = Len(objects')
    BY <1>1, <1>2 DEF NewElem, NewObject
  <2>2. /\ IsSeq(objects') /\ Len(objects') = Len(objects) + 1
        /\ \A i \in 1 .. Len(objects) : objects'[i] = objects[i]
        /\ objects'[elem'] = Blank(call.type)
        /\ DOMAIN objects' = 1 .. Len(objects) + 1
    <3>1. IsSeq(objects)
      BY DEF IInv, ObjectInv
    <3>2. IsSeq(objects')
      BY <2>1, <3>1, AppendSeq
    <3> QED
      BY <2>1, <3>1, <3>2, AppendSeq, SeqFacts
  <2>3. \A i \in DOMAIN dest : dest[i].obj \in 1 .. Len(objects)
    BY StateFacts DEF IInv, TypeOK
  <2>4. TypeOK'
    BY <1>1, <1>2, <2>1, <2>2, <2>3, StateFacts DEF IInv, TypeOK, MoreRows
  <2>5. ObjectInv'
    <3>1. \A o \in DOMAIN objects' : DOMAIN objects'[o] = Cells(call.type)
      <4>1. DOMAIN Blank(call.type) = Cells(call.type)
        BY DEF Blank
      <4>2. \A o \in DOMAIN objects' : o \in 1 .. Len(objects) \/ o = elem'
        BY <2>1, <2>2, StateFacts
      <4> QED
        BY <2>2, <4>1, <4>2, StateFacts DEF IInv, ObjectInv
    <3> QED
      BY <1>1, <2>2, <3>1 DEF IInv, ObjectInv
  <2>6. PathInv' /\ CountInv' /\ ErrorsSurface'
    <3>1. PathInv'
      BY <1>1, <1>2 DEF IInv, PathInv
    <3>2. CountInv'
      BY <1>1, <1>2, StateFacts DEF IInv, CountInv, MoreRows
    <3> QED
      BY <1>2, <3>1, <3>2 DEF ErrorsSurface, Done
  <2>7. ElementInv'
    BY <1>1, <1>2, <2>1, <2>2, <2>3, StateFacts DEF ElementInv
  <2>8. RowsArrive'
    <3>1. \A i \in DOMAIN dest : Value(dest[i])' = Value(dest[i])
      BY <1>1, <2>2, <2>3 DEF Value
    <3> QED
      BY <1>1, <1>2, <3>1, StillArrive
  <2> QED
    BY <2>4, <2>5, <2>6, <2>7, <2>8 DEF IInv
<1>3. CASE ~MoreRows /\ EndOfRows /\ UNCHANGED <<call, taken, objects, elem>>
  <2>1. TypeOK' /\ ObjectInv' /\ PathInv' /\ CountInv' /\ ErrorsSurface'
    <3>1. pc' = "idle" /\ err' \in {"nil", "error"}
      BY <1>3 DEF EndOfRows, End
    <3>2. TypeOK' /\ ObjectInv' /\ PathInv'
      BY <1>1, <1>3, <3>1 DEF IInv, TypeOK, ObjectInv, PathInv
    <3>3. CountInv'
      BY <1>1, <1>3, <3>1, StateFacts DEF IInv, CountInv
    <3>4. err' = "nil" => Len(dest) = Len(kept) + Len(call.rows)
      BY <1>1, <1>3, StateFacts DEF IInv, CountInv, EndOfRows, End, MoreRows
    <3> QED
      BY <1>1, <1>3, <3>1, <3>2, <3>3, <3>4 DEF ErrorsSurface, Done
  <2>2. ElementInv'
    BY <1>1, <1>3 DEF ElementInv, EndOfRows, End
  <2>3. RowsArrive'
    BY <1>1, <1>3, StillArrive DEF Value
  <2> QED
    BY <2>1, <2>2, <2>3 DEF IInv
<1> QED
  BY <1>2, <1>3 DEF NextRow

\* The first Next of scanOne.
LEMMA FirstRowKeeps ==
  ASSUME IInv, FirstRow
  PROVE  IInv'
<1>1. /\ pc = "next" /\ call.op # "Select" /\ made > 0 /\ taken = 0
      /\ UNCHANGED <<call, made, broken, paths, objects, elem, dest, version, kept>>
      /\ call \in Calls
  BY DEF FirstRow, IInv, TypeOK, ObjectInv, CountInv
<1>2. /\ taken' \in {0, 1} /\ taken' \in 0 .. Len(call.rows)
      /\ pc' \in {"idle", "columns", "scan"}
      /\ pc' # "idle" => /\ taken' = 1 /\ UNCHANGED err
                         /\ pc' = "columns" <=> isMappableStruct(call.type)
      /\ pc' = "idle" => /\ err' \in {"error", "norows"}
                         /\ err' = "norows" => Len(call.rows) = 0
  BY <1>1, StateFacts DEF FirstRow, End, MoreRows
<1>3. TypeOK' /\ ObjectInv' /\ CountInv' /\ ErrorsSurface'
  BY <1>1, <1>2, StateFacts, CallFacts DEF IInv, TypeOK, ObjectInv, CountInv, ErrorsSurface, Done
<1>4. PathInv'
  BY <1>1, <1>2 DEF IInv, PathInv
<1>5. ElementInv'
  BY <1>1, <1>2 DEF IInv, ElementInv, Base
<1>6. RowsArrive'
  BY <1>1, <1>2, StillArrive DEF Value, Done
<1> QED
  BY <1>3, <1>4, <1>5, <1>6 DEF IInv

\* The second Next of scanOne, and what InitializeVersion makes of the row.
LEMMA SecondRowKeeps ==
  ASSUME IInv, SecondRow
  PROVE  IInv'
<1>1. /\ pc = "second" /\ made > 0 /\ call.op # "Select" /\ taken = 1
      /\ UNCHANGED <<call, made, broken, paths, objects, elem, dest, kept>>
      /\ call \in Calls
  BY DEF SecondRow, IInv, TypeOK, ObjectInv, CountInv
<1>2. /\ taken' \in 0 .. Len(call.rows) /\ pc' = "idle"
      /\ err' \in {"nil", "error", "multiple"}
      /\ err' = "nil" => Len(call.rows) = 1
      /\ err' = "multiple" => Len(call.rows) > 1
  <2>1. taken \in 0 .. Len(call.rows) /\ Len(call.rows) \in Nat /\ broken \in BOOLEAN
    BY StateFacts DEF IInv, TypeOK
  <2>2. CASE MoreRows
    BY <1>1, <2>1, <2>2 DEF SecondRow, End, MoreRows
  <2>3. CASE ~MoreRows
    <3>1. taken' = taken /\ (End("error") \/ EndOfRows)
      BY <2>3 DEF SecondRow
    <3>2. ASSUME ~broken
          PROVE  Len(call.rows) = 1
      <4> DEFINE n == Len(call.rows)
      <4>1. taken = 1 /\ ~(taken < n) /\ taken \in 0 .. n /\ n \in Nat
        BY <1>1, <2>1, <2>3, <3>2 DEF MoreRows
      <4> HIDE DEF n
      <4>2. n = 1
        BY ONLY <4>1
      <4> QED
        BY <4>2 DEF n
    <3> QED
      BY <1>1, <2>1, <3>1, <3>2 DEF End, EndOfRows
  <2> QED
    BY <2>2, <2>3
<1>3. TypeOK' /\ ObjectInv' /\ PathInv' /\ CountInv' /\ ErrorsSurface'
  <2>1. TypeOK' /\ ObjectInv'
    BY <1>1, <1>2 DEF IInv, TypeOK, ObjectInv
  <2>2. PathInv' /\ CountInv'
    BY <1>1, <1>2 DEF IInv, PathInv, CountInv
  <2>3. ErrorsSurface'
    BY <1>1, <1>2 DEF ErrorsSurface, Done
  <2> QED
    BY <2>1, <2>2, <2>3
<1>4. ElementInv'
  BY <1>1, <1>2 DEF ElementInv
<1>5. RowsArrive'
  BY <1>1, <1>2, StillArrive DEF IInv, ElementInv, Value
<1> QED
  BY <1>3, <1>4, <1>5 DEF IInv

\* Only the element of the row is written, and no element of dest refers to it.
LEMMA Written ==
  ASSUME IInv, pc = "scan", UNCHANGED <<call, elem>>,
         objects' = [objects EXCEPT ![elem] = Filled(@, Good)]
  PROVE  /\ elem \in 1 .. Len(objects) /\ DOMAIN objects[elem] = Cells(call.type)
         /\ IsSeq(objects') /\ Len(objects') = Len(objects) /\ DOMAIN objects' = DOMAIN objects
         /\ \A o \in DOMAIN objects' : DOMAIN objects'[o] = Cells(call.type)
         /\ objects'[elem] = Filled(objects[elem], Good)
         /\ call.op = "Select" => \A i \in DOMAIN dest :
              /\ dest[i].ptr => objects'[dest[i].obj] = objects[dest[i].obj]
<1>1. elem \in DOMAIN objects /\ IsSeq(objects) /\ \A o \in DOMAIN objects : DOMAIN objects[o] = Cells(call.type)
  <2>1. made > 0
    BY DEF IInv, TypeOK, ObjectInv
  <2> QED
    BY <2>1, StateFacts DEF IInv, ObjectInv, ElementInv
<1>2. /\ IsSeq(objects') /\ Len(objects') = Len(objects) /\ DOMAIN objects' = DOMAIN objects
      /\ objects'[elem] = Filled(objects[elem], Good)
      /\ \A o \in DOMAIN objects : o # elem => objects'[o] = objects[o]
  <2>1. DOMAIN objects = 1 .. Len(objects) /\ Len(objects) \in Nat
    BY StateFacts
  <2>2. objects' = [i \in 1 .. Len(objects) |-> objects'[i]]
    BY <2>1
  <2>3. IsSeq(objects') /\ Len(objects') = Len(objects)
    BY <2>1, <2>2, IsSeqOf
  <2> QED
    BY <1>1, <2>1, <2>3
<1>3. DOMAIN Filled(objects[elem], Good) = Cells(call.type)
  BY <1>1 DEF Filled
<1>4. call.op = "Select" => \A i \in DOMAIN dest : dest[i].obj # elem /\ dest[i].obj \in DOMAIN objects
  BY DEF IInv, TypeOK, ElementInv
<1> QED
  BY <1>1, <1>2, <1>3, <1>4, StateFacts

\* A row that fails has no element.
LEMMA ScanRowFails ==
  ASSUME IInv, ScanRow, pc' = "idle", err' \in {"error", "panic"}, UNCHANGED dest,
         \/ UNCHANGED objects
         \/ objects' = [objects EXCEPT ![elem] = Filled(@, Good)]
  PROVE  IInv'
<1>1. /\ pc = "scan" /\ made > 0
      /\ UNCHANGED <<call, made, broken, taken, paths, elem, version, kept>>
  BY DEF ScanRow, IInv, TypeOK, ObjectInv
<1>2. /\ IsSeq(objects') /\ Len(objects') = Len(objects) /\ DOMAIN objects' = DOMAIN objects
      /\ \A o \in DOMAIN objects' : DOMAIN objects'[o] = Cells(call.type)
      /\ call.op = "Select" => \A i \in DOMAIN dest :
           dest[i].ptr => objects'[dest[i].obj] = objects[dest[i].obj]
  BY <1>1, Written DEF IInv, ObjectInv
<1>3. TypeOK' /\ ObjectInv'
  BY <1>1, <1>2 DEF IInv, TypeOK, ObjectInv
<1>4. PathInv'
  BY <1>1 DEF IInv, PathInv
<1>5. CountInv'
  BY <1>1, StateFacts DEF IInv, CountInv
<1>6. ElementInv' /\ ErrorsSurface'
  BY <1>1 DEF ElementInv, ErrorsSurface, Done
<1>7. RowsArrive'
  <2>1. call.op = "Select" => \A i \in DOMAIN dest : Value(dest[i])' = Value(dest[i])
    BY <1>2 DEF Value
  <2> QED
    BY <1>1, <2>1, StillArrive
<1> QED
  BY <1>3, <1>4, <1>5, <1>6, <1>7 DEF IInv

\* A scanOne has its row in the one object there is.
LEMMA ScanRowOne ==
  ASSUME IInv, pc = "scan", call.op # "Select", pc' = "second", Good = Len(Row),
         UNCHANGED <<call, made, broken, taken, paths, elem, dest, err, version, kept>>,
         objects' = [objects EXCEPT ![elem] = Filled(@, Good)],
         isMappableStruct(call.type) \/ Len(Row) = 1
  PROVE  IInv'
<1>1. made > 0 /\ elem = 1 /\ taken = 1 /\ objects[1] = Base /\ taken \in 1 .. Len(call.rows) /\ call \in Calls
  BY StateFacts DEF IInv, TypeOK, ObjectInv, CountInv, ElementInv
<1>2. TypeOK' /\ ObjectInv'
  BY <1>1, Written DEF IInv, TypeOK, ObjectInv
<1>3. PathInv' /\ CountInv' /\ ErrorsSurface'
  BY <1>1 DEF IInv, PathInv, CountInv, ErrorsSurface, Done
<1>4. ElementInv'
  <2>1. Holds(call, Filled(Base, Good), Base, Row)
    BY <1>1, Written, FilledHolds DEF IInv
  <2>2. Base' = Base
    BY DEF Base
  <2> QED
    BY <1>1, <2>1, <2>2, Written DEF ElementInv, Row
<1>5. RowsArrive'
  BY <1>1, StillArrive DEF Done
<1> QED
  BY <1>2, <1>3, <1>4, <1>5 DEF IInv

\* A scanAll appends an element that has the row.
LEMMA ScanRowAll ==
  ASSUME IInv, pc = "scan", call.op = "Select", pc' = "next", Good = Len(Row),
         UNCHANGED <<call, made, broken, taken, paths, elem, err, version, kept>>,
         objects' = [objects EXCEPT ![elem] = Filled(@, Good)],
         dest' = Append(dest, [ptr |-> call.isPtr, obj |-> elem, val |-> objects'[elem]]),
         isMappableStruct(call.type) \/ Len(Row) = 1
  PROVE  IInv'
<1> DEFINE e == [ptr |-> call.isPtr, obj |-> elem, val |-> objects'[elem]]
           n == Len(dest)
           m == Len(kept)
<1>1. /\ made > 0 /\ taken \in 1 .. Len(call.rows) /\ call \in Calls /\ Len(call.rows) \in Nat
      /\ objects[elem] = Blank(call.type)
      /\ n \in Nat /\ m \in Nat /\ n = m + (taken - 1) /\ m <= n
  <2>1. made > 0 /\ call \in Calls /\ taken \in 0 .. Len(call.rows)
    BY DEF IInv, TypeOK, ObjectInv
  <2>2. taken > 0 /\ n = m + (taken - 1) /\ n \in m .. m + Len(call.rows)
    BY <2>1 DEF IInv, CountInv
  <2> QED
    BY <2>1, <2>2, StateFacts DEF IInv, ElementInv
<1>2. /\ IsSeq(dest') /\ Len(dest') = n + 1 /\ DOMAIN dest' = 1 .. n + 1
      /\ \A i \in 1 .. n : dest'[i] = dest[i]
      /\ dest'[n + 1] = e
  <2>1. IsSeq(dest)
    BY DEF IInv, ObjectInv
  <2> HIDE DEF e
  <2>2. dest' = Append(dest, e)
    BY DEF e
  <2>3. IsSeq(dest') /\ Len(dest') = n + 1
    BY <2>1, <2>2, AppendSeq
  <2> QED
    BY <2>1, <2>2, <2>3, AppendSeq, SeqFacts
<1>3. /\ elem \in 1 .. Len(objects)
      /\ IsSeq(objects') /\ Len(objects') = Len(objects) /\ DOMAIN objects' = DOMAIN objects
      /\ \A o \in DOMAIN objects' : DOMAIN objects'[o] = Cells(call.type)
      /\ \A i \in DOMAIN dest : dest[i].ptr => objects'[dest[i].obj] = objects[dest[i].obj]
      /\ objects'[elem] = Filled(Blank(call.type), Good)
  BY <1>1, Written
<1>4. \A i \in 1 .. n + 1 : i \in 1 .. n \/ i = n + 1
  BY <1>1
<1>5. TypeOK' /\ ObjectInv'
  <2>1. \A i \in DOMAIN dest' : dest'[i].obj \in DOMAIN objects'
    <3>1. \A i \in 1 .. n : dest[i].obj \in DOMAIN objects
      BY StateFacts DEF IInv, TypeOK
    <3> QED
      BY <1>2, <1>3, <1>4, <3>1, StateFacts
  <2> QED
    BY <1>1, <1>2, <1>3, <2>1 DEF IInv, TypeOK, ObjectInv
<1>6. PathInv' /\ CountInv' /\ ElementInv' /\ ErrorsSurface'
  <2>1. PathInv' /\ ElementInv' /\ ErrorsSurface'
    BY DEF IInv, PathInv, ElementInv, ErrorsSurface, Done
  <2>2. Len(dest') = m + taken /\ n + 1 \in m .. m + Len(call.rows)
    BY <1>1, <1>2
  <2>3. CountInv'
    BY <1>1, <1>2, <2>2 DEF CountInv
  <2> QED
    BY <2>1, <2>3
<1>7. RowsArrive'
  <2>1. ASSUME NEW i \in 1 .. n
        PROVE  Value(dest[i])' = Value(dest[i])
    BY <1>2, <1>3, StateFacts DEF Value
  <2>2. /\ \A i \in DOMAIN kept : Value(dest[i]) = kept[i]
        /\ \A i \in m + 1 .. n : Holds(call, Value(dest[i]), Blank(call.type), call.rows[i - m])
    BY <1>1 DEF IInv, RowsArrive
  <2>3. ASSUME NEW i \in DOMAIN kept
        PROVE  Value(dest[i])' = kept[i]
    <3>1. i \in 1 .. n
      BY <1>1, StateFacts
    <3> QED
      BY <2>1, <2>2, <3>1
  <2>4. ASSUME NEW i \in m + 1 .. n + 1
        PROVE  Holds(call, Value(dest[i])', Blank(call.type), call.rows[i - m])
    <3>1. CASE i # n + 1
      <4>1. i \in 1 .. n /\ i \in m + 1 .. n
        BY <1>1, <3>1
      <4> QED
        BY <2>1, <2>2, <4>1
    <3>2. CASE i = n + 1
      <4>1. i - m = taken
        BY <1>1, <3>2
      <4>2. Value(dest[i])' = Filled(Blank(call.type), Good)
        BY <1>2, <1>3, <3>2 DEF Value
      <4>3. Holds(call, Filled(Blank(call.type), Good), Blank(call.type), Row)
        <5>1. DOMAIN Blank(call.type) = Cells(call.type) /\ PathInv
          BY DEF Blank, IInv
        <5> QED
          BY <1>1, <5>1, FilledHolds
      <4> QED
        BY <4>1, <4>2, <4>3 DEF Row
    <3> QED
      BY <3>1, <3>2
  <2> QED
    BY <1>1, <1>2, <2>3, <2>4 DEF RowsArrive, Done
<1> QED
  BY <1>5, <1>6, <1>7 DEF IInv

\* The row is scanned.
LEMMA ScanRowKeeps ==
  ASSUME IInv, ScanRow
  PROVE  IInv'
<1> DEFINE fits == isMappableStruct(call.type) \/ Len(Row) = 1
<1>1. /\ pc = "scan" /\ UNCHANGED <<call, made, broken, taken, paths, elem, version, kept>>
  BY DEF ScanRow
<1>2. CASE (End("panic") \/ End("error")) /\ UNCHANGED <<objects, dest>>
  BY <1>2, ScanRowFails DEF End
<1>3. CASE /\ fits /\ objects' = [objects EXCEPT ![elem] = Filled(@, Good)]
           /\ Good < Len(Row) /\ End("error") /\ UNCHANGED dest
  BY <1>3, ScanRowFails DEF End
<1>4. CASE /\ fits /\ objects' = [objects EXCEPT ![elem] = Filled(@, Good)]
           /\ ~(Good < Len(Row))
           /\ dest' = IF call.op # "Select" THEN dest
                      ELSE Append(dest, [ptr |-> call.isPtr, obj |-> elem, val |-> objects'[elem]])
           /\ pc' = IF call.op = "Select" THEN "next" ELSE "second"
           /\ UNCHANGED err
  <2>1. Good = Len(Row)
    <3>1. call \in Calls /\ taken \in 1 .. Len(call.rows) /\ made > 0
      BY <1>1, StateFacts DEF IInv, TypeOK, ObjectInv, CountInv
    <3>2. Good \in 0 .. Len(Row) /\ Len(Row) \in Nat
      BY <3>1, GoodIsFirstBad, CallFacts DEF Row
    <3> QED
      BY <1>4, <3>2
  <2>2. CASE call.op = "Select"
    BY <1>1, <1>4, <2>1, <2>2, ScanRowAll
  <2>3. CASE call.op # "Select"
    BY <1>1, <1>4, <2>1, <2>3, ScanRowOne
  <2> QED
    BY <2>2, <2>3
<1> QED
  BY <1>2, <1>3, <1>4 DEF ScanRow

\* A new call keeps what the earlier ones have made, and remembers it in kept.
LEMMA BeginKeeps ==
  ASSUME IInv, NEW c \in IF made = 0 THEN Calls ELSE Again, Begin(c)
  PROVE  IInv'
<1>1. /\ pc = "idle" /\ made' \in 0 .. MaxCalls /\ made' > 0 /\ made' # 0
      /\ call' = c /\ c \in Calls
      /\ broken' = FALSE /\ taken' = 0 /\ paths' = <<>> /\ dest' = dest
      /\ Len(c.rows) \in Nat /\ taken' \in 0 .. Len(c.rows) /\ DOMAIN paths' = {}
  <2>1. c \in Calls /\ made \in 0 .. MaxCalls /\ MaxCalls \in Nat
    BY ScanAssumption DEF IInv, TypeOK
  <2>2. made < MaxCalls /\ made' = made + 1
    BY DEF Begin
  <2>3. made' \in 0 .. MaxCalls /\ made' > 0 /\ made' # 0
    BY <2>1, <2>2
  <2>4. Len(c.rows) \in Nat /\ 0 \in 0 .. Len(c.rows)
    BY <2>1, CallFacts
  <2> QED
    BY <2>1, <2>3, <2>4, SeqOfNone DEF Begin
<1>2. /\ \/ pc' = "idle" /\ err' = "error" /\ c.op = "Select"
         \/ pc' = "columns" /\ c.op = "Select" /\ isMappableStruct(c.type) /\ err' = "none"
         \/ pc' = "next" /\ err' = "none" /\ (c.op = "Select" => ~isMappableStruct(c.type))
  BY DEF Begin, End
<1>3. CASE made = 0
  <2>1. /\ objects = <<>> /\ dest = <<>> /\ kept = <<>> /\ kept' = kept
        /\ IF c.op = "Select" THEN UNCHANGED <<objects, elem>>
                              ELSE objects' = <<Blank(c.type)>> /\ elem' = 1
    BY <1>1, <1>3 DEF Begin, NewObject, IInv, ObjectInv
  <2> /\ elem = 0 /\ Len(objects) = 0 /\ DOMAIN objects = {}
      /\ IsSeq(dest) /\ Len(dest) = 0 /\ DOMAIN dest = {} /\ IsSeq(kept) /\ Len(kept) = 0 /\ DOMAIN kept = {}
    BY <2>1, SeqOfNone DEF IInv, TypeOK
  <2>2. /\ IsSeq(objects') /\ elem' \in 0 .. Len(objects')
        /\ \A o \in DOMAIN objects' : DOMAIN objects'[o] = Cells(c.type)
        /\ c.op # "Select" => Len(objects') = 1 /\ elem' = 1 /\ objects'[1] = Blank(c.type)
    <3>1. CASE c.op = "Select"
      BY <2>1, <3>1, SeqOfNone
    <3>2. CASE c.op # "Select"
      <4>1. IsSeq(objects') /\ Len(objects') = 1 /\ DOMAIN objects' = {1} /\ objects'[1] = Blank(c.type)
        BY <2>1, <3>2, SeqOfOne
      <4> QED
        BY <2>1, <3>2, <4>1 DEF Blank
    <3> QED
      BY <3>1, <3>2
  <2>3. TypeOK' /\ ObjectInv'
    <3>1. TypeOK'
      BY <1>1, <1>2, <2>1, <2>2 DEF TypeOK
    <3>2. ObjectInv'
      BY <1>1, <2>1, <2>2 DEF ObjectInv
    <3> QED
      BY <3>1, <3>2
  <2>4. PathInv' /\ CountInv' /\ ErrorsSurface'
    <3>1. PathInv' /\ ErrorsSurface'
      BY <1>1, <1>2 DEF PathInv, ErrorsSurface, Done
    <3>2. CountInv'
      BY <1>1, <1>2, <2>1 DEF CountInv
    <3> QED
      BY <3>1, <3>2
  <2>5. ElementInv'
    BY <1>1, <1>2, <2>1, <2>2 DEF ElementInv, Base
  <2>6. RowsArrive'
    BY <1>1, <1>2, <2>1 DEF RowsArrive, Done
  <2> QED
    BY <2>3, <2>4, <2>5, <2>6 DEF IInv
<1>4. CASE made # 0
  <2>1. /\ c.op = call.op /\ c.type = call.type
        /\ kept' = IF c.op = "Select" THEN [i \in DOMAIN dest |-> Value(dest[i])] ELSE objects
        /\ UNCHANGED <<dest, objects, elem>>
    BY <1>4 DEF Begin
  <2>2. c.op = "Select" => /\ IsSeq(kept') /\ Len(kept') = Len(dest) /\ DOMAIN kept' = DOMAIN dest
                           /\ \A i \in DOMAIN dest : kept'[i] = Value(dest[i])
    <3>1. SUFFICES ASSUME c.op = "Select"
                   PROVE  IsSeq(kept') /\ Len(kept') = Len(dest)
      BY <2>1
    <3>2. kept' = [i \in 1 .. Len(dest) |-> kept'[i]]
      BY <2>1, <3>1, StateFacts
    <3> QED
      BY <3>2, StateFacts, IsSeqOf
  <2>3. c.op # "Select" => /\ kept' = objects /\ Len(objects) = 1 /\ elem = 1
                           /\ kept' # <<>> /\ IsSeq(kept')
    <3>1. IsSeq(objects) /\ (call.op # "Select" => Len(objects) = 1 /\ elem = 1)
      BY <1>4 DEF IInv, ObjectInv
    <3>2. Len(objects) = 1 => objects # <<>>
      BY SeqOfNone
    <3> QED
      BY <2>1, <3>1, <3>2
  <2>4. TypeOK'
    <3>1. elem \in 0 .. Len(objects) /\ \A i \in DOMAIN dest : dest[i].obj \in DOMAIN objects
      BY DEF IInv, TypeOK
    <3> QED
      BY <1>1, <1>2, <2>1, <3>1 DEF TypeOK
  <2>5. ObjectInv'
    <3>1. IsSeq(objects) /\ IsSeq(dest) /\ \A o \in DOMAIN objects : DOMAIN objects[o] = Cells(call.type)
      BY DEF IInv, ObjectInv
    <3>2. IsSeq(kept')
      BY <2>2, <2>3
    <3> QED
      BY <1>1, <2>1, <2>3, <3>1, <3>2 DEF ObjectInv
  <2>6. PathInv' /\ CountInv' /\ ErrorsSurface'
    <3>1. PathInv' /\ ErrorsSurface'
      BY <1>1, <1>2 DEF PathInv, ErrorsSurface, Done
    <3>2. c.op = "Select" => /\ Len(dest) = Len(kept') + 0
                             /\ Len(dest) \in Len(kept') .. Len(kept') + Len(c.rows)
      BY <1>1, <2>2, StateFacts
    <3>3. CountInv'
      BY <1>1, <1>2, <2>1, <3>2 DEF CountInv
    <3> QED
      BY <3>1, <3>3
  <2>7. ElementInv'
    BY <1>1, <1>2, <2>1, <2>3 DEF ElementInv, Base
  <2>8. RowsArrive'
    <3>1. c.op = "Select" => /\ Len(dest) >= Len(kept')
                             /\ \A i \in DOMAIN kept' : Value(dest[i]) = kept'[i]
                             /\ Len(kept') + 1 .. Len(dest) = {}
      BY <2>2, StateFacts
    <3>2. \A i \in DOMAIN kept' : Value(dest[i])' = Value(dest[i])
      BY <2>1 DEF Value
    <3> QED
      BY <1>1, <1>2, <2>1, <3>1, <3>2 DEF RowsArrive, Done
  <2> QED
    BY <2>4, <2>5, <2>6, <2>7, <2>8 DEF IInv
<1> QED
  BY <1>3, <1>4

-----------------------------------------------------------------------------
(* The version in a banner.                                                *)

\* What SubSeq takes, of a sequence of anything.
LEMMA SubSeqOf ==
  ASSUME NEW s, IsSeq(s), NEW i \in 1 .. Len(s) + 1, NEW n \in i - 1 .. Len(s)
  PROVE  /\ IsSeq(SubSeq(s, i, n)) /\ Len(SubSeq(s, i, n)) = n - i + 1
         /\ \A k \in 1 .. n - i + 1 : SubSeq(s, i, n)[k] = s[i + k - 1]
<1> DEFINE S == {s[k] : k \in 1 .. Len(s)}
           t == SubSeq(s, i, n)
<1>1. Len(s) \in Nat /\ s = [k \in 1 .. Len(s) |-> s[k]]
  BY DEF IsSeq
<1>2. s \in Seq(S)
  <2>1. \A k \in 1 .. Len(s) : s[k] \in S
    OBVIOUS
  <2> HIDE DEF S
  <2>2. [k \in 1 .. Len(s) |-> s[k]] \in [1 .. Len(s) -> S]
    BY <2>1
  <2> QED
    BY <1>1, <2>2
<1> HIDE DEF S
<1>3. i \in 1 .. Len(s) + 1 /\ n \in i - 1 .. Len(s)
  OBVIOUS
<1>4. t \in Seq(S) /\ Len(t) = n - i + 1 /\ \A k \in 1 .. n - i + 1 : t[k] = s[i + k - 1]
  BY <1>1, <1>2, <1>3, SubSeqProperties
<1>5. IsSeq(t)
  BY <1>4, SeqIsSeq
<1> QED
  BY <1>4, <1>5

\* The trailer of a version begins with it.
LEMMA SuffixHead ==
  ASSUME NEW s, IsSeq(s), NEW i \in DOMAIN s
  PROVE  SubSeq(s, i, Len(s))[1] = s[i]
<1> DEFINE n == Len(s)
<1>1. n \in Nat /\ i \in 1 .. n
  BY SeqFacts
<1> HIDE DEF n
<1>2. i \in 1 .. n + 1 /\ n \in i - 1 .. n /\ 1 \in 1 .. n - i + 1 /\ i + 1 - 1 = i
  BY <1>1
<1>3. SubSeq(s, i, n)[1] = s[i + 1 - 1]
  BY <1>2, SubSeqOf DEF n
<1> QED
  BY <1>2, <1>3 DEF n

\* The banner is cut at the first place of the marker.
LEMMA CutAtFirst ==
  ASSUME NEW s, IsSeq(s), NEW marker, NEW i \in DOMAIN s, s[i] = marker,
         \A k \in 1 .. i - 1 : s[k] # marker
  PROVE  AfterMarker(s, marker) = SubSeq(s, i + 1, Len(s))
<1> DEFINE At(f) == s[f] = marker /\ \A k \in 1 .. f - 1 : ~(s[k] = marker)
           f == CHOOSE j \in DOMAIN s : At(j)
<1>1. DOMAIN s = 1 .. Len(s) /\ Len(s) \in Nat
  BY SeqFacts
<1>2. i \in DOMAIN s /\ At(i)
  OBVIOUS
<1>3. f \in DOMAIN s /\ At(f)
  <2> HIDE DEF At
  <2> QED
    BY <1>2
<1>4. AfterMarker(s, marker) = SubSeq(s, f + 1, Len(s))
  BY DEF AfterMarker, First
<1> HIDE DEF f
<1>5. f = i
  BY <1>1, <1>2, <1>3
<1> QED
  BY <1>4, <1>5

\* The number found is the first there is.
LEMMA FirstNumber ==
  ASSUME NEW s, IsSeq(s), NEW i \in DOMAIN s, IsNumber(s[i]),
         \A k \in 1 .. i - 1 : ~IsNumber(s[k])
  PROVE  First(s, IsNumber) = i
<1> DEFINE f == First(s, IsNumber)
<1>1. DOMAIN s \subseteq Nat /\ DOMAIN s = 1 .. Len(s)
  BY SeqFacts
<1>2. f \in DOMAIN s /\ IsNumber(s[f]) /\ \A k \in 1 .. f - 1 : ~IsNumber(s[k])
  BY DEF First
<1> HIDE DEF f
<1>3. f = i
  BY <1>1, <1>2
<1> QED
  BY <1>3 DEF f

\* A place of a marker, or of a number, has a first one.
LEMMA FirstOf ==
  ASSUME NEW s, IsSeq(s), NEW T, T \subseteq DOMAIN s, T # {}
  PROVE  \E i \in T : i \in DOMAIN s /\ \A k \in 1 .. i - 1 : k \in DOMAIN s /\ k \notin T
<1>1. DOMAIN s = 1 .. Len(s) /\ Len(s) \in Nat
  BY SeqFacts
<1>2. PICK i \in T : \A k \in T : i <= k
  BY <1>1, LeastOf
<1>3. ASSUME NEW k \in 1 .. i - 1
      PROVE  k \in DOMAIN s /\ k \notin T
  BY <1>1, <1>2
<1> QED
  BY <1>2, <1>3

\* The marker that ParseGPVersion takes is the first of those the banner has.
LEMMA MarkerTaken ==
  ASSUME NEW banner, NEW m \in DOMAIN Markers, NEW i \in DOMAIN banner, banner[i] = Markers[m],
         \A k \in DOMAIN banner : \A l \in 1 .. m - 1 : banner[k] # Markers[l]
  PROVE  LET rest == AfterMarker(banner, Markers[m])
         IN ParseGPVersion(banner) =
              IF ~Has(rest, IsNumber) THEN NoVersion
              ELSE VersionAt(rest, First(rest, IsNumber))
<1> DEFINE found == {l \in DOMAIN Markers : Has(banner, LAMBDA t : t = Markers[l])}
           least == CHOOSE l \in found : \A n \in found : l <= n
<1>1. found = {l \in DOMAIN Markers : \E k \in DOMAIN banner : banner[k] = Markers[l]}
  BY DEF Has
<1>2. DOMAIN Markers = 1 .. 2
  <2>1. \A x, y : DOMAIN <<x, y>> = 1 .. 2
    OBVIOUS
  <2> QED
    BY <2>1 DEF Markers
<1>3. m \in found
  BY <1>1
<1>4. \A n \in found : m <= n
  <2>1. ASSUME NEW n \in found, ~(m <= n)
        PROVE  FALSE
    <3> HIDE DEF found
    <3>1. n \in DOMAIN Markers /\ \E k \in DOMAIN banner : banner[k] = Markers[n]
      BY <1>1
    <3>2. n \in 1 .. m - 1
      BY <1>2, <2>1, <3>1
    <3> QED
      BY <3>1, <3>2
  <2> QED
    BY <2>1
<1>5. ParseGPVersion(banner) =
        IF found = {} THEN NoVersion
        ELSE LET rest == AfterMarker(banner, Markers[least])
             IN IF ~Has(rest, IsNumber) THEN NoVersion
                ELSE VersionAt(rest, First(rest, IsNumber))
  BY DEF ParseGPVersion
<1>6. least = m
  <2>1. found \subseteq 1 .. 2
    BY <1>1, <1>2
  <2> HIDE DEF found
  <2>2. least \in found /\ \A n \in found : least <= n
    BY <1>3, <1>4
  <2> HIDE DEF least
  <2>3. least <= m /\ m <= least /\ least \in 1 .. 2 /\ m \in 1 .. 2
    BY <1>2, <1>3, <1>4, <2>1, <2>2
  <2> QED
    BY <2>3
<1>7. found # {}
  BY <1>3
<1> HIDE DEF found, least
<1> QED
  BY <1>5, <1>6, <1>7

\* The token after which the number is sought is not one of the rest.
LEMMA RestOf ==
  ASSUME NEW banner, IsSeq(banner), NEW i \in DOMAIN banner
  PROVE  LET rest == SubSeq(banner, i + 1, Len(banner))
         IN /\ IsSeq(rest) /\ DOMAIN rest = 1 .. Len(banner) - i /\ Len(rest) = Len(banner) - i
            /\ \A k \in DOMAIN rest : rest[k] = banner[i + k] /\ i + k \in DOMAIN banner
<1> DEFINE rest == SubSeq(banner, i + 1, Len(banner))
           n    == Len(banner)
<1>1. n \in Nat /\ DOMAIN banner = 1 .. n /\ i \in 1 .. n
  BY SeqFacts
<1>2. i + 1 \in 1 .. n + 1 /\ n \in (i + 1) - 1 .. n /\ n - (i + 1) + 1 = n - i
  BY <1>1
<1>3. /\ IsSeq(rest) /\ Len(rest) = n - (i + 1) + 1
      /\ \A k \in 1 .. n - (i + 1) + 1 : rest[k] = banner[(i + 1) + k - 1]
  BY <1>2, SubSeqOf
<1>4. DOMAIN rest = 1 .. n - i
  BY <1>2, <1>3, SeqFacts
<1>5. ASSUME NEW k \in 1 .. n - i
      PROVE  rest[k] = banner[i + k] /\ i + k \in DOMAIN banner
  <2>1. k \in 1 .. n - (i + 1) + 1 /\ (i + 1) + k - 1 = i + k /\ i + k \in 1 .. n
    BY <1>1, <1>2
  <2>2. rest[k] = banner[(i + 1) + k - 1]
    BY <1>3, <2>1
  <2> HIDE DEF rest
  <2> QED
    BY <1>1, <2>1, <2>2
<1> QED
  BY <1>2, <1>3, <1>4, <1>5

\* The banner tells the version with its token j: the first number after the
\* first place, i, of the marker tried first of those it has (version.go:53-68).
Tells(banner, i, j) ==
  /\ \E m \in DOMAIN Markers :
       /\ banner[i] = Markers[m]
       /\ \A k \in DOMAIN banner : \A l \in 1 .. m - 1 : banner[k] # Markers[l]
       /\ \A k \in 1 .. i - 1 : banner[k] # Markers[m]
  /\ i < j /\ IsNumber(banner[j])
  /\ \A k \in i + 1 .. j - 1 : ~IsNumber(banner[k])

\* A banner that tells a version is parsed to it, and to the text from it on.
LEMMA ParsedIsTold ==
  ASSUME NEW banner, IsSeq(banner), NEW i \in DOMAIN banner, NEW j \in DOMAIN banner,
         Tells(banner, i, j)
  PROVE  LET got == ParseGPVersion(banner)
         IN /\ got.ok = banner[j].semver /\ got.trailer[1] = banner[j]
            /\ banner[j].semver => got.version = banner[j].num
<1> DEFINE rest == SubSeq(banner, i + 1, Len(banner))
           at   == j - i
<1>1. PICK m \in DOMAIN Markers :
        /\ banner[i] = Markers[m]
        /\ \A k \in DOMAIN banner : \A l \in 1 .. m - 1 : banner[k] # Markers[l]
        /\ \A k \in 1 .. i - 1 : banner[k] # Markers[m]
  BY DEF Tells
<1>2. /\ i < j /\ IsNumber(banner[j])
      /\ \A k \in i + 1 .. j - 1 : ~IsNumber(banner[k])
  BY DEF Tells
<1>3. AfterMarker(banner, Markers[m]) = rest
  BY <1>1, CutAtFirst
<1>4. /\ IsSeq(rest) /\ DOMAIN rest = 1 .. Len(banner) - i /\ Len(rest) = Len(banner) - i
      /\ \A k \in DOMAIN rest : rest[k] = banner[i + k]
  BY RestOf
<1>5. Len(banner) \in Nat /\ i \in 1 .. Len(banner) /\ j \in 1 .. Len(banner)
  BY SeqFacts
<1> HIDE DEF rest
<1>6. at \in DOMAIN rest /\ i + at = j /\ at \in 1 .. Len(rest)
  BY <1>2, <1>4, <1>5
<1>7. rest[at] = banner[j] /\ IsNumber(rest[at])
  BY <1>2, <1>4, <1>6
<1>8. ASSUME NEW k \in 1 .. at - 1
      PROVE  ~IsNumber(rest[k])
  <2> HIDE DEF at
  <2>1. k \in 1 .. Len(rest)
    BY <1>4, <1>5, <1>6
  <2>2. i + k \in i + 1 .. j - 1
    BY <1>5, <1>6
  <2> QED
    BY <1>2, <1>4, <2>1, <2>2
<1>9. First(rest, IsNumber) = at
  BY <1>4, <1>6, <1>7, <1>8, FirstNumber
<1>10. Has(rest, IsNumber)
  BY <1>6, <1>7 DEF Has
<1>11. ParseGPVersion(banner) = VersionAt(rest, at)
  BY <1>1, <1>3, <1>9, <1>10, MarkerTaken
<1>12. SubSeq(rest, at, Len(rest))[1] = rest[at]
  BY <1>4, <1>6, SuffixHead
<1> HIDE DEF at
<1>13. /\ VersionAt(rest, at).ok = rest[at].semver
       /\ VersionAt(rest, at).trailer[1] = rest[at]
       /\ rest[at].semver => VersionAt(rest, at).version = rest[at].num
  <2> DEFINE trailer == SubSeq(rest, at, Len(rest))
  <2>1. trailer[1] = rest[at]
    BY <1>12
  <2>2. VersionAt(rest, at) = [ok      |-> rest[at].semver,
                               version |-> IF rest[at].semver THEN rest[at].num ELSE <<>>,
                               trailer |-> trailer]
    BY DEF VersionAt
  <2> HIDE DEF trailer
  <2> QED
    BY <2>1, <2>2
<1> QED
  BY <1>7, <1>11, <1>13

\* A banner that tells no version is refused.
LEMMA UntoldIsRefused ==
  ASSUME NEW banner, IsSeq(banner), \A i, j \in DOMAIN banner : ~Tells(banner, i, j)
  PROVE  ~ParseGPVersion(banner).ok
<1> DEFINE found == {l \in DOMAIN Markers : \E k \in DOMAIN banner : banner[k] = Markers[l]}
<1>1. CASE found = {}
  <2>1. {l \in DOMAIN Markers : Has(banner, LAMBDA t : t = Markers[l])} = found
    BY DEF Has
  <2>2. ParseGPVersion(banner) = NoVersion
    BY <1>1, <2>1 DEF ParseGPVersion
  <2> QED
    BY <2>2 DEF NoVersion
<1>2. CASE found # {}
  <2>1. DOMAIN Markers = 1 .. 2
    <3>1. \A x, y : DOMAIN <<x, y>> = 1 .. 2
      OBVIOUS
    <3> QED
      BY <3>1 DEF Markers
  <2>2. PICK m \in found : \A l \in found : m <= l
    <3>1. found \subseteq Nat
      BY <2>1
    <3> HIDE DEF found
    <3> QED
      BY <1>2, <3>1, LeastOf
  <2>3. ASSUME NEW k \in DOMAIN banner, NEW l \in 1 .. m - 1
        PROVE  banner[k] # Markers[l]
    <3>1. l \in DOMAIN Markers /\ ~(m <= l)
      BY <2>1, <2>2
    <3> QED
      BY <2>2, <3>1
  <2> DEFINE T == {k \in DOMAIN banner : banner[k] = Markers[m]}
  <2>4. PICK i \in T : \A k \in 1 .. i - 1 : k \in DOMAIN banner /\ k \notin T
    <3>1. T # {} /\ T \subseteq DOMAIN banner
      BY <2>2
    <3> HIDE DEF T
    <3> QED
      BY <3>1, FirstOf
  <2>5. /\ i \in DOMAIN banner /\ banner[i] = Markers[m] /\ m \in DOMAIN Markers
        /\ \A k \in 1 .. i - 1 : banner[k] # Markers[m]
    BY <2>2, <2>4
  <2> DEFINE rest == SubSeq(banner, i + 1, Len(banner))
  <2>6. AfterMarker(banner, Markers[m]) = rest
    BY <2>5, CutAtFirst
  <2>7. /\ IsSeq(rest) /\ DOMAIN rest = 1 .. Len(banner) - i
        /\ \A k \in DOMAIN rest : rest[k] = banner[i + k] /\ i + k \in DOMAIN banner
    BY <2>5, RestOf
  <2>8. ~Has(rest, IsNumber)
    <3> DEFINE N == {k \in DOMAIN rest : IsNumber(rest[k])}
    <3> SUFFICES ASSUME N # {}
                 PROVE  FALSE
      BY DEF Has
    <3>1. PICK at \in N : \A k \in 1 .. at - 1 : k \in DOMAIN rest /\ k \notin N
      <4>1. N \subseteq DOMAIN rest
        OBVIOUS
      <4> HIDE DEF N, rest
      <4> QED
        BY <2>7, <4>1, FirstOf
    <3> DEFINE j == i + at
    <3>2. at \in DOMAIN rest /\ IsNumber(rest[at]) /\ rest[at] = banner[j] /\ j \in DOMAIN banner
      BY <2>7, <3>1
    <3>3. \A k \in 1 .. at - 1 : ~IsNumber(rest[k]) /\ rest[k] = banner[i + k]
      BY <2>7, <3>1
    <3> HIDE DEF rest, N
    <3>4. at \in Nat /\ at > 0 /\ i \in Nat /\ i < j
      <4>1. at \in 1 .. Len(banner) - i /\ i \in 1 .. Len(banner) /\ Len(banner) \in Nat
        BY <2>5, <2>7, <3>2, SeqFacts
      <4> QED
        BY <4>1
    <3>5. ASSUME NEW k \in i + 1 .. j - 1
          PROVE  ~IsNumber(banner[k])
      <4>1. k - i \in 1 .. at - 1 /\ i + (k - i) = k
        BY <3>4
      <4>2. banner[k] = rest[k - i] /\ ~IsNumber(rest[k - i])
        BY <3>3, <4>1
      <4> QED
        BY <4>2
    <3>6. Tells(banner, i, j)
      <4>1. IsNumber(banner[j])
        BY <3>2
      <4> HIDE DEF j
      <4> QED
        BY <2>3, <2>5, <3>4, <3>5, <4>1 DEF Tells
    <3> QED
      BY <2>5, <3>2, <3>6
  <2>9. ParseGPVersion(banner) = NoVersion
    BY <2>3, <2>5, <2>6, <2>8, MarkerTaken
  <2> QED
    BY <2>9 DEF NoVersion
<1> QED
  BY <1>1, <1>2

-----------------------------------------------------------------------------
(* The banners of the server.                                              *)

\* What the words of a banner are not.
LEMMA WordFacts ==
  /\ \A w : ~IsNumber(Word(w))
  /\ Markers[1] # Markers[2] /\ ~IsNumber(Markers[1]) /\ ~IsNumber(Markers[2])
  /\ Unmarked(Word(")")) /\ Unmarked(Word("build)")) /\ Unmarked(Word("build"))
  /\ DOMAIN Markers = {1, 2}
<1>1. \A w : ~IsNumber(Word(w))
  BY DEF IsNumber, Word
<1>2. \A v, w : Word(v) = Word(w) => v = w
  BY DEF Word
<1>3. \A x, y : DOMAIN <<x, y>> = {1, 2} /\ <<x, y>>[1] = x /\ <<x, y>>[2] = y
  OBVIOUS
<1> DEFINE a == "(Greenplum Database"
           b == "(WarehousePG"
           c == ")"
           d == "build)"
           e == "build"
<1>4. a # b /\ a # c /\ a # d /\ a # e /\ b # c /\ b # d /\ b # e
  OBVIOUS
<1>5. DOMAIN Markers = {1, 2} /\ Markers[1] = Word(a) /\ Markers[2] = Word(b)
  <2> HIDE DEF a, b
  <2> QED
    BY <1>3 DEF Markers, a, b
<1> HIDE DEF a, b, c, d, e
<1>6. Unmarked(Word(c)) /\ Unmarked(Word(d)) /\ Unmarked(Word(e)) /\ Markers[1] # Markers[2]
  BY <1>2, <1>4, <1>5 DEF Unmarked
<1> QED
  BY <1>1, <1>5, <1>6 DEF c, d, e

\* The banner out has the marker at i and at no other place.
OneMarker(out, i, marker) ==
  /\ IsSeq(out) /\ i \in DOMAIN out /\ out[i] = marker /\ marker \in {Markers[1], Markers[2]}
  /\ \A k \in DOMAIN out : k # i => Unmarked(out[k])

\* A banner with one marker tells the first number after it, and no other.
LEMMA OneMarkerTells ==
  ASSUME NEW out, NEW i, NEW marker, OneMarker(out, i, marker), NEW j \in DOMAIN out
  PROVE  /\ i < j /\ IsNumber(out[j]) /\ (\A k \in i + 1 .. j - 1 : ~IsNumber(out[k])) => Tells(out, i, j)
         /\ \A l \in DOMAIN out : Tells(out, l, j) =>
              l = i /\ i < j /\ IsNumber(out[j]) /\ \A k \in i + 1 .. j - 1 : ~IsNumber(out[k])
<1>1. /\ IsSeq(out) /\ i \in DOMAIN out /\ out[i] = marker /\ marker \in {Markers[1], Markers[2]}
      /\ \A k \in DOMAIN out : k # i => Unmarked(out[k])
  BY DEF OneMarker
<1>2. DOMAIN out = 1 .. Len(out) /\ Len(out) \in Nat
  BY <1>1, SeqFacts
<1>3. DOMAIN Markers = {1, 2} /\ Markers[1] # Markers[2]
  BY WordFacts
<1>4. PICK m \in DOMAIN Markers : marker = Markers[m]
  BY <1>1, <1>3
<1>5. ASSUME NEW k \in DOMAIN out, NEW l \in 1 .. m - 1
      PROVE  out[k] # Markers[l]
  <2>1. l = 1 /\ m = 2
    BY <1>3
  <2> QED
    BY <1>1, <1>3, <1>4, <2>1 DEF Unmarked
<1>6. ASSUME NEW k \in 1 .. i - 1
      PROVE  out[k] # Markers[m]
  <2>1. k \in DOMAIN out /\ k # i
    BY <1>1, <1>2
  <2> QED
    BY <1>1, <1>3, <2>1 DEF Unmarked
<1>7. i < j /\ IsNumber(out[j]) /\ (\A k \in i + 1 .. j - 1 : ~IsNumber(out[k])) => Tells(out, i, j)
  BY <1>1, <1>4, <1>5, <1>6 DEF Tells
<1>8. ASSUME NEW l \in DOMAIN out, Tells(out, l, j)
      PROVE  l = i /\ i < j /\ IsNumber(out[j]) /\ \A k \in i + 1 .. j - 1 : ~IsNumber(out[k])
  <2>1. /\ \E n \in DOMAIN Markers : out[l] = Markers[n]
        /\ l < j /\ IsNumber(out[j]) /\ \A k \in l + 1 .. j - 1 : ~IsNumber(out[k])
    BY <1>8 DEF Tells
  <2>2. l = i
    BY <1>1, <1>3, <2>1 DEF Unmarked
  <2> QED
    BY <2>1, <2>2
<1> QED
  BY <1>7, <1>8

\* What stands before the marker has none.
LEMMA CompilerFirst ==
  ASSUME NEW s, IsSeq(s), \A i \in DOMAIN s : Unmarked(s[i]),
         NEW t, IsSeq(t), \A i \in DOMAIN t : Unmarked(t[i])
  PROVE  /\ IsSeq(s \o t) /\ Len(s \o t) \in Nat
         /\ \A k \in 1 .. Len(s \o t) : Unmarked((s \o t)[k])
<1> DEFINE u == s \o t
           m == Len(s)
           n == Len(t)
<1>1. /\ IsSeq(u) /\ Len(u) = m + n
      /\ \A k \in 1 .. m : u[k] = s[k]
      /\ \A k \in 1 .. n : u[m + k] = t[k]
  BY ConcatSeq
<1>2. m \in Nat /\ n \in Nat /\ DOMAIN s = 1 .. m /\ DOMAIN t = 1 .. n
  BY SeqFacts
<1> HIDE DEF u, m, n
<1>3. \A k \in 1 .. m + n : k \in 1 .. m \/ (k - m \in 1 .. n /\ m + (k - m) = k)
  BY <1>2
<1>4. ASSUME NEW k \in 1 .. m + n
      PROVE  Unmarked(u[k])
  <2>1. CASE k \in 1 .. m
    BY <1>1, <1>2, <2>1
  <2>2. CASE k - m \in 1 .. n /\ m + (k - m) = k
    BY <1>1, <1>2, <2>2
  <2> QED
    BY <1>3, <2>1, <2>2
<1>5. m + n \in Nat
  BY <1>2
<1> QED
  BY <1>1, <1>4, <1>5 DEF u

\* A banner with the release inside the parentheses.
LEMMA InsideOut ==
  ASSUME NEW b, BannerOK(b), b.shape = "inside"
  PROVE  LET out == BannerOut(b)
             p   == Len(b.postgres)
         IN /\ p \in Nat /\ Len(b.compiler) \in Nat /\ OneMarker(out, p + 1, b.marker)
            /\ DOMAIN out = 1 .. p + 3 + Len(b.compiler)
            /\ out[p + 2] = b.release /\ ~IsNumber(out[p + 3])
            /\ \A k \in 1 .. Len(b.compiler) : out[p + 3 + k] = b.compiler[k]
<1> DEFINE build == Word("build)")
           mid   == <<b.marker, b.release, build>>
           s     == b.postgres \o mid
           out   == s \o b.compiler
           p     == Len(b.postgres)
           c     == Len(b.compiler)
<1>1. BannerOut(b) = out
  BY DEF BannerOut
<1>2. ~IsNumber(build) /\ Unmarked(build)
  BY WordFacts
<1> HIDE DEF build
<1>3. /\ IsSeq(mid) /\ Len(mid) = 3
      /\ mid[1] = b.marker /\ mid[2] = b.release /\ mid[3] = build
  BY DEF IsSeq
<1>4. IsSeq(b.postgres) /\ IsSeq(b.compiler) /\ p \in Nat /\ c \in Nat
  BY SeqFacts DEF BannerOK
<1> HIDE DEF mid
<1>41. /\ IsSeq(s) /\ Len(s) = Len(b.postgres) + Len(mid)
       /\ \A k \in 1 .. Len(b.postgres) : s[k] = b.postgres[k]
       /\ \A k \in 1 .. Len(mid) : s[Len(b.postgres) + k] = mid[k]
  <2>1. IsSeq(b.postgres) /\ IsSeq(mid)
    BY <1>3, <1>4
  <2> QED
    BY ONLY <2>1, ConcatSeq
<1> HIDE DEF s
<1>5. /\ IsSeq(s) /\ Len(s) = p + 3
      /\ \A k \in 1 .. p : s[k] = b.postgres[k]
      /\ \A k \in 1 .. 3 : s[p + k] = mid[k]
  BY <1>3, <1>41
<1>51. /\ IsSeq(out) /\ Len(out) = Len(s) + Len(b.compiler)
       /\ \A k \in 1 .. Len(s) : out[k] = s[k]
       /\ \A k \in 1 .. Len(b.compiler) : out[Len(s) + k] = b.compiler[k]
  <2>1. IsSeq(s) /\ IsSeq(b.compiler)
    BY <1>4, <1>5
  <2> QED
    BY ONLY <2>1, ConcatSeq
<1> HIDE DEF out
<1>6. /\ IsSeq(out) /\ Len(out) = p + 3 + c
      /\ \A k \in 1 .. p + 3 : out[k] = s[k]
      /\ \A k \in 1 .. c : out[p + 3 + k] = b.compiler[k]
  BY <1>5, <1>51
<1>7. DOMAIN out = 1 .. p + 3 + c
  BY <1>6, SeqFacts
<1>8. \A k \in DOMAIN b.postgres : Unmarked(b.postgres[k])
  BY DEF BannerOK
<1>9. \A k \in DOMAIN b.compiler : Unmarked(b.compiler[k])
  BY DEF BannerOK
<1>10. DOMAIN b.postgres = 1 .. p /\ DOMAIN b.compiler = 1 .. c
  BY <1>4, SeqFacts
<1> HIDE DEF p, c
<1>11. /\ \A k \in 1 .. p : Unmarked(out[k])
       /\ \A k \in 1 .. c : Unmarked(out[p + 3 + k])
  <2>1. \A k \in 1 .. p : k \in 1 .. p + 3
    BY <1>4
  <2> QED
    BY <1>5, <1>6, <1>8, <1>9, <1>10, <2>1
<1>12. out[p + 1] = b.marker /\ out[p + 2] = b.release /\ out[p + 3] = build
  <2>1. p + 1 \in 1 .. p + 3 /\ p + 2 \in 1 .. p + 3 /\ p + 3 \in 1 .. p + 3 /\ {1, 2, 3} \subseteq 1 .. 3
    BY <1>4
  <2> QED
    BY <1>3, <1>5, <1>6, <2>1
<1>13. \A k \in 1 .. p + 3 + c : k \in 1 .. p \/ k \in {p + 1, p + 2, p + 3} \/ k - (p + 3) \in 1 .. c
  BY <1>4
<1>14. \A k \in 1 .. p + 3 + c : p + 3 + (k - (p + 3)) = k
  BY <1>4
<1>15. b.marker \in {Markers[1], Markers[2]} /\ Unmarked(b.release)
  BY DEF BannerOK
<1>16. ASSUME NEW k \in 1 .. p + 3 + c, k # p + 1
       PROVE  Unmarked(out[k])
  BY <1>2, <1>11, <1>12, <1>13, <1>14, <1>15, <1>16
<1>17. p + 1 \in 1 .. p + 3 + c
  BY <1>4
<1>18. OneMarker(out, p + 1, b.marker)
  BY <1>6, <1>7, <1>12, <1>15, <1>16, <1>17 DEF OneMarker
<1> QED
  BY <1>1, <1>2, <1>4, <1>6, <1>7, <1>12, <1>18 DEF p, c

\* A banner with the release after the parentheses.
LEMMA AfterOut ==
  ASSUME NEW b, BannerOK(b), b.shape = "after"
  PROVE  LET out == BannerOut(b)
         IN \E p \in Nat : /\ OneMarker(out, p + 1, b.marker)
                           /\ DOMAIN out = 1 .. p + 4
                           /\ ~IsNumber(out[p + 2]) /\ out[p + 3] = b.release /\ ~IsNumber(out[p + 4])
<1> DEFINE close == Word(")")
           build == Word("build")
           mid   == <<b.marker, close, b.release, build>>
           s     == b.postgres \o b.compiler
           out   == s \o mid
           p     == Len(s)
<1>1. BannerOut(b) = out
  BY DEF BannerOut
<1>2. ~IsNumber(build) /\ Unmarked(build) /\ ~IsNumber(close) /\ Unmarked(close)
  BY WordFacts
<1> HIDE DEF build, close
<1>3. /\ IsSeq(mid) /\ Len(mid) = 4
      /\ mid[1] = b.marker /\ mid[2] = close /\ mid[3] = b.release /\ mid[4] = build
  BY DEF IsSeq
<1> HIDE DEF mid
<1>4. IsSeq(s) /\ p \in Nat /\ \A k \in 1 .. p : Unmarked(s[k])
  BY CompilerFirst DEF BannerOK
<1> HIDE DEF s
<1>41. /\ IsSeq(out) /\ Len(out) = Len(s) + Len(mid)
       /\ \A k \in 1 .. Len(s) : out[k] = s[k]
       /\ \A k \in 1 .. Len(mid) : out[Len(s) + k] = mid[k]
  <2>1. IsSeq(s) /\ IsSeq(mid)
    BY <1>3, <1>4
  <2> QED
    BY ONLY <2>1, ConcatSeq
<1> HIDE DEF out
<1>5. /\ IsSeq(out) /\ Len(out) = p + 4
      /\ \A k \in 1 .. p : out[k] = s[k]
      /\ \A k \in 1 .. 4 : out[p + k] = mid[k]
  BY <1>3, <1>41
<1>6. DOMAIN out = 1 .. p + 4
  BY <1>5, SeqFacts
<1> HIDE DEF p
<1>7. out[p + 1] = b.marker /\ out[p + 2] = close /\ out[p + 3] = b.release /\ out[p + 4] = build
  <2>1. {1, 2, 3, 4} \subseteq 1 .. 4
    OBVIOUS
  <2> QED
    BY <1>3, <1>5, <2>1
<1>8. b.marker \in {Markers[1], Markers[2]} /\ Unmarked(b.release)
  BY DEF BannerOK
<1>9. \A k \in 1 .. p + 4 : k \in 1 .. p \/ k \in {p + 1, p + 2, p + 3, p + 4}
  BY <1>4
<1>10. ASSUME NEW k \in 1 .. p + 4, k # p + 1
       PROVE  Unmarked(out[k])
  BY <1>2, <1>4, <1>5, <1>7, <1>8, <1>9, <1>10
<1>11. p + 1 \in 1 .. p + 4
  BY <1>4
<1>12. OneMarker(out, p + 1, b.marker)
  BY <1>5, <1>6, <1>7, <1>8, <1>10, <1>11 DEF OneMarker
<1> QED
  BY <1>1, <1>2, <1>4, <1>6, <1>7, <1>12

\* The server tells its release.
Told(b) == b.shape # "plain" /\ IsNumber(b.release)

\* The number told is the release.
LEMMA ReleaseTold ==
  ASSUME NEW b, BannerOK(b), Told(b)
  PROVE  LET out == BannerOut(b)
         IN IsSeq(out) /\ \E i, j \in DOMAIN out : Tells(out, i, j) /\ out[j] = b.release
<1> DEFINE out == BannerOut(b)
<1>1. CASE b.shape = "inside"
  <2> DEFINE p == Len(b.postgres)
             c == Len(b.compiler)
  <2>1. /\ p \in Nat /\ c \in Nat /\ OneMarker(out, p + 1, b.marker)
        /\ DOMAIN out = 1 .. p + 3 + c /\ out[p + 2] = b.release
    BY <1>1, InsideOut
  <2> HIDE DEF out, p, c
  <2>2. p + 1 \in DOMAIN out /\ p + 2 \in DOMAIN out /\ p + 1 < p + 2
    BY <2>1
  <2>21. \A k \in (p + 1) + 1 .. (p + 2) - 1 : ~IsNumber(out[k])
    BY <2>1
  <2>3. Tells(out, p + 1, p + 2)
    BY <2>1, <2>2, <2>21, OneMarkerTells DEF Told
  <2> QED
    BY <2>1, <2>2, <2>3 DEF OneMarker, out
<1>2. CASE b.shape = "after"
  <2>1. PICK p \in Nat : /\ OneMarker(out, p + 1, b.marker)
                         /\ DOMAIN out = 1 .. p + 4
                         /\ ~IsNumber(out[p + 2]) /\ out[p + 3] = b.release
    BY <1>2, AfterOut
  <2> HIDE DEF out
  <2>2. /\ p + 1 \in 1 .. p + 4 /\ p + 3 \in 1 .. p + 4 /\ p + 1 < p + 3
        /\ (p + 1) + 1 .. (p + 3) - 1 = {p + 2}
    OBVIOUS
  <2>3. Tells(out, p + 1, p + 3)
    BY <2>1, <2>2, OneMarkerTells DEF Told
  <2> QED
    BY <2>1, <2>2, <2>3 DEF OneMarker, out
<1> QED
  BY <1>1, <1>2 DEF Told, BannerOK

\* Without one, only a number of the compiler after the marker is taken for it.
LEMMA CompilerTold ==
  ASSUME NEW b, BannerOK(b), ~Told(b)
  PROVE  LET out == BannerOut(b)
         IN /\ IsSeq(out)
            /\ \A i, j \in DOMAIN out : Tells(out, i, j) =>
                 b.shape = "inside" /\ \E k \in DOMAIN b.compiler : out[j] = b.compiler[k]
<1> DEFINE out == BannerOut(b)
<1>1. CASE b.shape = "inside"
  <2> DEFINE p == Len(b.postgres)
             c == Len(b.compiler)
  <2>1. /\ p \in Nat /\ c \in Nat /\ OneMarker(out, p + 1, b.marker)
        /\ DOMAIN out = 1 .. p + 3 + c
        /\ out[p + 2] = b.release /\ ~IsNumber(out[p + 3])
        /\ \A k \in 1 .. c : out[p + 3 + k] = b.compiler[k]
    BY <1>1, InsideOut
  <2>2. DOMAIN b.compiler = 1 .. c
    BY SeqFacts DEF BannerOK
  <2> HIDE DEF out, p, c
  <2>3. ASSUME NEW i \in DOMAIN out, NEW j \in DOMAIN out, Tells(out, i, j)
        PROVE  \E k \in DOMAIN b.compiler : out[j] = b.compiler[k]
    <3>1. p + 1 < j /\ IsNumber(out[j])
      BY <2>1, <2>3, OneMarkerTells
    <3>2. ~IsNumber(out[p + 2])
      BY <1>1, <2>1 DEF Told
    <3>3. j # p + 2 /\ j # p + 3
      BY <2>1, <3>1, <3>2
    <3>4. j \in 1 .. p + 3 + c
      BY <2>1
    <3>5. j - (p + 3) \in 1 .. c /\ p + 3 + (j - (p + 3)) = j
      BY <2>1, <3>1, <3>3, <3>4
    <3> QED
      BY <2>1, <2>2, <3>5
  <2> QED
    BY <1>1, <2>1, <2>3 DEF OneMarker, out
<1>2. CASE b.shape = "after"
  <2>1. PICK p \in Nat : /\ OneMarker(out, p + 1, b.marker)
                         /\ DOMAIN out = 1 .. p + 4
                         /\ ~IsNumber(out[p + 2]) /\ out[p + 3] = b.release /\ ~IsNumber(out[p + 4])
    BY <1>2, AfterOut
  <2> HIDE DEF out
  <2>2. ASSUME NEW i \in DOMAIN out, NEW j \in DOMAIN out, Tells(out, i, j)
        PROVE  FALSE
    <3>1. p + 1 < j /\ IsNumber(out[j])
      BY <2>1, <2>2, OneMarkerTells
    <3>2. ~IsNumber(out[p + 3])
      BY <1>2, <2>1 DEF Told
    <3>3. j \in 1 .. p + 4
      BY <2>1
    <3>4. j \in {p + 2, p + 3, p + 4}
      BY <3>1, <3>3
    <3> QED
      BY <2>1, <3>1, <3>2, <3>4
  <2> QED
    BY <2>1, <2>2 DEF OneMarker, out
<1>3. CASE b.shape = "plain"
  <2>1. out = b.postgres \o b.compiler
    BY <1>3 DEF BannerOut
  <2>2. IsSeq(out) /\ \A k \in 1 .. Len(out) : Unmarked(out[k])
    BY <2>1, CompilerFirst DEF BannerOK
  <2> HIDE DEF out
  <2>3. DOMAIN out = 1 .. Len(out)
    BY <2>2, SeqFacts
  <2>4. ASSUME NEW i \in DOMAIN out, NEW j \in DOMAIN out, Tells(out, i, j)
        PROVE  FALSE
    <3>1. Unmarked(out[i])
      BY <2>2, <2>3
    <3> QED
      BY <2>4, <3>1, WordFacts DEF Tells, Unmarked
  <2> QED
    BY <2>2, <2>4 DEF out
<1> QED
  BY <1>1, <1>2, <1>3 DEF BannerOK

-----------------------------------------------------------------------------
(* The comparisons.                                                        *)

\* Less is the order of semver, component by component.
LEMMA LessOf ==
  ASSUME NEW v \in [1 .. 3 -> Nat], NEW w \in [1 .. 3 -> Nat]
  PROVE  Less(v, w) <=> \/ v[1] < w[1]
                        \/ v[1] = w[1] /\ v[2] < w[2]
                        \/ v[1] = w[1] /\ v[2] = w[2] /\ v[3] < w[3]
<1>1. 1 .. 3 = {1, 2, 3} /\ 1 .. 1 - 1 = {} /\ 1 .. 2 - 1 = {1} /\ 1 .. 3 - 1 = {1, 2}
  OBVIOUS
<1> QED
  BY <1>1 DEF Less

\* A target is completed with zeros.
LEMMA PaddedOf ==
  ASSUME NEW k \in 1 .. 3, NEW t \in [1 .. k -> Nat]
  PROVE  /\ Padded(t) \in [1 .. 3 -> Nat] /\ Len(t) = k
         /\ \A i \in 1 .. 3 : Padded(t)[i] = IF i <= k THEN t[i] ELSE 0
<1>1. Len(t) = k
  OBVIOUS
<1> QED
  BY <1>1 DEF Padded

\* Is asks whether the version begins with the target, of one to three
\* components: what the range ==X.x of semver means (version.go:105-123).
THEOREM IsBegins ==
  ASSUME NEW v \in [1 .. 3 -> Nat], NEW k \in 1 .. 3, NEW t \in [1 .. k -> Nat]
  PROVE  Is(v, t) <=> \A i \in 1 .. k : v[i] = t[i]
<1> DEFINE u == [t EXCEPT ![k] = @ + 1]
           p == Padded(t)
           q == Padded(u)
<1>1. u \in [1 .. k -> Nat] /\ u[k] = t[k] + 1 /\ \A i \in 1 .. k : i # k => u[i] = t[i]
  OBVIOUS
<1> HIDE DEF u
<1>2. /\ p \in [1 .. 3 -> Nat] /\ Len(t) = k /\ \A i \in 1 .. 3 : p[i] = IF i <= k THEN t[i] ELSE 0
      /\ q \in [1 .. 3 -> Nat] /\ \A i \in 1 .. 3 : q[i] = IF i <= k THEN u[i] ELSE 0
  BY <1>1, PaddedOf
<1>3. Is(v, t) <=> ~Less(v, p) /\ Less(v, q)
  BY <1>2 DEF Is, AtLeast, AfterAll, u
<1> HIDE DEF p, q
<1>4. /\ Less(v, p) <=> \/ v[1] < p[1]
                        \/ v[1] = p[1] /\ v[2] < p[2]
                        \/ v[1] = p[1] /\ v[2] = p[2] /\ v[3] < p[3]
      /\ Less(v, q) <=> \/ v[1] < q[1]
                        \/ v[1] = q[1] /\ v[2] < q[2]
                        \/ v[1] = q[1] /\ v[2] = q[2] /\ v[3] < q[3]
  BY <1>2, LessOf
<1>5. /\ v[1] \in Nat /\ v[2] \in Nat /\ v[3] \in Nat
      /\ k \in {1, 2, 3}
  OBVIOUS
<1>6. CASE k = 1
  <2>1. /\ t[1] \in Nat /\ p[1] = t[1] /\ p[2] = 0 /\ p[3] = 0
        /\ q[1] = t[1] + 1 /\ q[2] = 0 /\ q[3] = 0
    BY <1>1, <1>2, <1>6
  <2>2. Is(v, t) <=> v[1] = t[1]
    BY <1>3, <1>4, <1>5, <2>1
  <2> QED
    BY <1>6, <2>2
<1>7. CASE k = 2
  <2>1. /\ t[1] \in Nat /\ t[2] \in Nat /\ p[1] = t[1] /\ p[2] = t[2] /\ p[3] = 0
        /\ q[1] = t[1] /\ q[2] = t[2] + 1 /\ q[3] = 0
    BY <1>1, <1>2, <1>7
  <2>2. Is(v, t) <=> v[1] = t[1] /\ v[2] = t[2]
    BY <1>3, <1>4, <1>5, <2>1
  <2>3. 1 .. k = {1, 2}
    BY <1>7
  <2> QED
    BY <2>2, <2>3
<1>8. CASE k = 3
  <2>1. /\ t[1] \in Nat /\ t[2] \in Nat /\ t[3] \in Nat /\ p[1] = t[1] /\ p[2] = t[2] /\ p[3] = t[3]
        /\ q[1] = t[1] /\ q[2] = t[2] /\ q[3] = t[3] + 1
    BY <1>1, <1>2, <1>8
  <2>2. Is(v, t) <=> v[1] = t[1] /\ v[2] = t[2] /\ v[3] = t[3]
    BY <1>3, <1>4, <1>5, <2>1
  <2>3. 1 .. k = {1, 2, 3}
    BY <1>8
  <2> QED
    BY <2>2, <2>3
<1> QED
  BY <1>5, <1>6, <1>7, <1>8

\* A version is its own beginnings, is before the next of each, and is not it.
LEMMA OwnBeginnings ==
  ASSUME NEW v \in [1 .. 3 -> Nat], NEW k \in 1 .. 3
  PROVE  LET t == SubSeq(v, 1, k) IN
         /\ Is(v, t)
         /\ ~Is(v, [t EXCEPT ![k] = @ + 1])
         /\ Before(v, [t EXCEPT ![k] = @ + 1])
<1> DEFINE t == SubSeq(v, 1, k)
           u == [t EXCEPT ![k] = @ + 1]
<1>1. t \in [1 .. k -> Nat] /\ \A i \in 1 .. k : t[i] = v[i]
  <2>1. \A i \in 1 .. k : v[i] \in Nat /\ 1 + i - 1 = i
    OBVIOUS
  <2>2. 1 \in Int /\ k \in Int /\ 1 <= k /\ k - 1 + 1 = k
    OBVIOUS
  <2>3. t \in Seq(Nat) /\ Len(t) = k /\ \A i \in 1 .. k : t[i] = v[1 + i - 1]
    BY <2>1, <2>2, SubSeqProperties
  <2> HIDE DEF t
  <2> QED
    BY <2>1, <2>3
<1> HIDE DEF t
<1>2. u \in [1 .. k -> Nat] /\ u[k] = v[k] + 1 /\ \A i \in 1 .. k : i # k => u[i] = v[i]
  BY <1>1
<1>3. Is(v, t)
  BY <1>1, IsBegins
<1> HIDE DEF u
<1>4. ~Is(v, u)
  <2>1. k \in 1 .. k /\ v[k] # u[k]
    BY <1>2
  <2> QED
    BY <1>2, <2>1, IsBegins
<1>5. Before(v, u)
  <2>1. \A i \in 1 .. 3 : Padded(u)[i] = IF i <= k THEN u[i] ELSE 0
    BY <1>2, PaddedOf
  <2>2. v[k] < Padded(u)[k] /\ \A j \in 1 .. k - 1 : v[j] = Padded(u)[j]
    BY <1>2, <2>1
  <2> QED
    BY <2>2 DEF Before, Less
<1> QED
  BY <1>3, <1>4, <1>5 DEF t, u

-----------------------------------------------------------------------------
(* InitializeVersion.                                                      *)

\* Its column goes to the first field, as the text it is, and it is told apart
\* from the other calls by what the server answers: one banner or none.
LEMMA VersionCall ==
  ASSUME NEW c \in Calls, c.op = "Version"
  PROVE  /\ c.validDest /\ isMappableStruct(c.type)
         /\ DOMAIN c.cols = {1} /\ Claims(c.type, KeyOf(c.type, c.cols[1])) # {}
         /\ Owners(c.type, c.cols[1]) = {1} /\ Fields[c.type][1].via = "value"
         /\ CellType(c.type, 1) = "text"
         /\ \A v : v # Null => Converted("text", v) = [ok |-> TRUE, val |-> v]
         /\ c.rows # <<>> => /\ Len(c.rows) = 1 /\ Len(c.rows[1]) = 1 /\ DOMAIN c.rows[1] = {1}
                             /\ c.rows[1][1] # Null /\ IsSeq(c.rows[1][1])
                             /\ BannerOK(c.truth) /\ c.rows[1][1] = BannerOut(c.truth)
<1> DEFINE name == "versionstring"
<1>1. /\ c.validDest /\ isMappableStruct(c.type)
      /\ c.cols = <<name>> /\ Claims(c.type, name) = {1}
      /\ Fields[c.type][1].via = "value" /\ Fields[c.type][1].type = "text"
      /\ c.rows # <<>> => BannerOK(c.truth) /\ Len(c.rows) = 1
                          /\ c.rows[1][1] = BannerOut(c.truth) /\ c.rows[1][1] # Null
  <2> DEFINE banner == BannerOut(c.truth)
             row    == <<banner>>
  <2>1. /\ c.validDest /\ isMappableStruct(c.type)
        /\ c.cols = <<name>> /\ Claims(c.type, name) = {1}
        /\ Fields[c.type][1].via = "value" /\ Fields[c.type][1].type = "text"
        /\ c.rows # <<>> => BannerOK(c.truth) /\ c.rows = <<row>> /\ banner # Null
    BY VersionAssumption
  <2> HIDE DEF banner
  <2>2. row[1] = banner
    BY SeqOfOne
  <2> HIDE DEF row
  <2>3. Len(<<row>>) = 1 /\ <<row>>[1] = row
    BY SeqOfOne
  <2> QED
    BY <2>1, <2>2, <2>3 DEF banner
<1>11. c.rows # <<>> => IsSeq(c.rows[1][1])
  BY <1>1, ReleaseTold, CompilerTold
<1>2. DOMAIN c.cols = {1} /\ c.cols[1] = name /\ Len(c.cols) = 1
  BY <1>1, SeqOfOne
<1>3. KeyOf(c.type, name) = name
  BY <1>1 DEF KeyOf
<1>4. Owners(c.type, name) = {1}
  <2>1. Fields[c.type][1].depth \in Nat
    BY <1>1, ScanAssumption DEF isMappableStruct, Claims
  <2> QED
    BY <1>1, <1>3, <2>1 DEF Owners
<1>5. CellType(c.type, 1) = "text"
  BY <1>1 DEF CellType
<1>6. ASSUME NEW v, v # Null
      PROVE  Converted("text", v) = [ok |-> TRUE, val |-> v]
  BY <1>6 DEF Converted
<1>7. c.rows # <<>> => Len(c.rows[1]) = 1 /\ DOMAIN c.rows[1] = {1}
  BY <1>1, <1>2, CallFacts
<1> HIDE DEF name
<1> QED
  BY <1>1, <1>11, <1>2, <1>3, <1>4, <1>5, <1>6, <1>7

\* The row of an InitializeVersion is scanned whole into the first field.
LEMMA BannerScanned ==
  ASSUME IInv, call.op = "Version", made > 0, pc = "scan"
  PROVE  ~Unsettable /\ Good = Len(Row) /\ Len(Row) = 1
<1>1. call \in Calls /\ taken = 1 /\ taken \in 1 .. Len(call.rows) /\ call.rows # <<>>
  BY StateFacts, SeqOfNone DEF IInv, TypeOK, CountInv
<1>2. /\ isMappableStruct(call.type) /\ DOMAIN call.cols = {1} /\ Owners(call.type, call.cols[1]) = {1}
      /\ Fields[call.type][1].via = "value" /\ CellType(call.type, 1) = "text"
      /\ Len(Row) = 1 /\ Converted("text", Row[1]).ok
  BY <1>1, VersionCall DEF Row
<1>3. DOMAIN paths = {1} /\ paths[1] = 1
  BY <1>2 DEF IInv, PathInv
<1>4. ~Unsettable
  BY <1>2, <1>3 DEF Unsettable
<1>5. Converted(CellType(call.type, CellOf(1)), Row[1]).ok
  <2>1. paths # <<>>
    BY <1>3, SeqOfNone
  <2> QED
    BY <1>2, <1>3, <2>1 DEF CellOf
<1>6. Good = 1
  <2> DEFINE stop(k) == /\ \A c \in 1 .. k : Converted(CellType(call.type, CellOf(c)), Row[c]).ok
                        /\ k < Len(Row) => ~Converted(CellType(call.type, CellOf(k + 1)), Row[k + 1]).ok
  <2>1. stop(1) /\ ~stop(0) /\ 0 .. Len(Row) = {0, 1}
    BY <1>2, <1>5
  <2>2. Good = CHOOSE k \in 0 .. Len(Row) : stop(k)
    BY DEF Good
  <2> HIDE DEF stop
  <2> QED
    BY <2>1, <2>2
<1> QED
  BY <1>2, <1>4, <1>6

\* Every step keeps what is known of an InitializeVersion.
LEMMA VersionKeeps ==
  ASSUME IInv, VersionInv, [ScanNext]_vars
  PROVE  VersionInv'
<1> DEFINE banner == call.rows[1][1]
           Answer(how, v) ==
             IF call.rows = <<>> THEN how = "norows"
             ELSE v = ParseGPVersion(banner) /\ how = IF ParseGPVersion(banner).ok THEN "nil" ELSE "error"
<1>1. CASE \E c \in IF made = 0 THEN Calls ELSE Again : Begin(c)
  <2>1. PICK c \in IF made = 0 THEN Calls ELSE Again : Begin(c)
    BY <1>1
  <2>2. call' = c /\ (c.op = "Version" => pc' = "next")
    BY <2>1 DEF Begin
  <2> QED
    BY <2>2 DEF VersionInv
<1>2. CASE RowsClosed
  BY <1>2 DEF RowsClosed, VersionInv
<1>3. CASE UNCHANGED vars
  BY <1>3 DEF vars, VersionInv
<1>4. CASE Step
  <2> SUFFICES ASSUME made > 0, call.op = "Version", ~broken, call' = call, broken' = broken
               PROVE  VersionInv'
    BY <1>4 DEF VersionInv, Step, Columns, NextRow, FirstRow, ScanRow, SecondRow
  <2>1. /\ call \in Calls /\ taken \in 0 .. Len(call.rows) /\ Len(call.rows) \in Nat
        /\ call.rows = <<>> => Len(call.rows) = 0
        /\ call.rows # <<>> => Len(call.rows) = 1
    BY StateFacts, VersionCall, SeqOfNone DEF IInv, TypeOK
  <2>2. /\ pc \notin {"next", "idle"} => call.rows # <<>>
        /\ call.op # "Select"
    BY DEF VersionInv
  <2>3. SUFFICES /\ pc' \notin {"next", "idle"} => call.rows # <<>>
                 /\ pc' = "idle" => Answer(err', version')
    BY DEF VersionInv
  <2> HIDE DEF Answer
  <2>4. CASE Columns
    <3>1. DOMAIN call.cols = {1} /\ Claims(call.type, KeyOf(call.type, call.cols[1])) # {}
      BY <2>1, VersionCall
    <3> QED
      BY <2>2, <2>4, <3>1 DEF Columns
  <2>5. CASE NextRow
    BY <2>2, <2>5 DEF NextRow
  <2>6. CASE FirstRow
    <3>1. taken = 0 /\ call.validDest
      BY <2>1, <2>6, VersionCall DEF FirstRow, IInv, CountInv
    <3>2. CASE MoreRows
      BY <2>1, <2>6, <3>1, <3>2 DEF FirstRow, MoreRows
    <3>3. CASE ~MoreRows
      <4>1. call.rows = <<>>
        BY <2>1, <3>1, <3>3 DEF MoreRows
      <4> QED
        BY <2>6, <3>3, <4>1 DEF FirstRow, End, Answer
    <3> QED
      BY <3>2, <3>3
  <2>7. CASE ScanRow
    <3>1. ~Unsettable /\ Good = Len(Row) /\ Len(Row) = 1 /\ pc = "scan"
      BY <2>7, BannerScanned DEF ScanRow
    <3> QED
      BY <2>2, <2>7, <3>1 DEF ScanRow
  <2>8. CASE SecondRow
    <3>1. pc = "second" /\ taken = 1 /\ elem = 1 /\ call.rows # <<>> /\ Len(call.rows) = 1
      BY <2>1, <2>2, <2>8 DEF SecondRow, IInv, ObjectInv, CountInv
    <3>2. objects[1][1] = banner
      <4>1. Holds(call, objects[1], Base, call.rows[1])
        BY <2>2, <3>1 DEF IInv, ElementInv
      <4>2. /\ isMappableStruct(call.type) /\ DOMAIN call.rows[1] = {1} /\ Len(call.rows[1]) = 1
            /\ Owners(call.type, call.cols[1]) = {1} /\ CellType(call.type, 1) = "text"
            /\ Converted("text", banner).val = banner
        BY <2>1, <3>1, VersionCall
      <4>3. 1 + 1 .. 1 = {}
        OBVIOUS
      <4> QED
        BY <4>1, <4>2, <4>3 DEF Holds
    <3>3. ~MoreRows
      BY <3>1 DEF MoreRows
    <3>4. /\ pc' = "idle" /\ version' = ParseGPVersion(banner)
          /\ err' = IF ParseGPVersion(banner).ok THEN "nil" ELSE "error"
      BY <2>8, <3>1, <3>2, <3>3 DEF SecondRow, InitializeVersion, End, EndOfRows
    <3> QED
      BY <3>1, <3>4 DEF Answer
  <2> QED
    BY <1>4, <2>4, <2>5, <2>6, <2>7, <2>8 DEF Step
<1> QED
  BY <1>1, <1>2, <1>3, <1>4 DEF ScanNext

\* What InitializeVersion ends with is the release the server tells.
LEMMA VersionTold ==
  ASSUME IInv, VersionInv
  PROVE  VersionIsDatabases
<1> DEFINE b   == call.truth
           out == BannerOut(b)
           got == ParseGPVersion(out)
           Begins(v, t, k) == /\ Is(v, t)
                              /\ ~Is(v, [t EXCEPT ![k] = @ + 1])
                              /\ Before(v, [t EXCEPT ![k] = @ + 1])
<1> SUFFICES ASSUME Done, call.op = "Version", ~broken
             PROVE  IF call.rows = <<>> THEN err = "norows"
                    ELSE IF Told(b)
                           THEN /\ err = IF b.release.semver THEN "nil" ELSE "error"
                                /\ version.trailer[1] = b.release
                                /\ b.release.semver =>
                                     /\ version.version = b.release.num
                                     /\ \A k \in 1 .. 3 :
                                          Begins(version.version, SubSeq(b.release.num, 1, k), k)
                           ELSE err = "nil" => /\ b.shape = "inside"
                                               /\ \E k \in DOMAIN b.compiler : version.trailer[1] = b.compiler[k]
  BY DEF VersionIsDatabases, Told
<1> HIDE DEF Begins
<1>1. call.rows = <<>> => err = "norows"
  BY DEF VersionInv, Done
<1>2. CASE call.rows # <<>>
  <2>1. call \in Calls
    BY DEF IInv, TypeOK
  <2>2. BannerOK(b) /\ call.rows[1][1] = out
    BY <1>2, <2>1, VersionCall
  <2>3. version = got /\ err = IF got.ok THEN "nil" ELSE "error"
    BY <1>2, <2>2 DEF VersionInv, Done
  <2>4. IsSeq(out)
    BY <2>2, ReleaseTold, CompilerTold
  <2> HIDE DEF got, b, out
  <2>5. CASE Told(b)
    <3>1. PICK i \in DOMAIN out, j \in DOMAIN out : Tells(out, i, j) /\ out[j] = b.release
      BY <2>2, <2>5, ReleaseTold DEF out
    <3>2. /\ got.ok = b.release.semver /\ got.trailer[1] = b.release
          /\ b.release.semver => got.version = b.release.num
      BY <2>4, <3>1, ParsedIsTold DEF got
    <3>3. b.release.num \in [1 .. 3 -> Nat]
      BY <2>2, <2>5 DEF BannerOK, Told
    <3>4. \A k \in 1 .. 3 : Begins(b.release.num, SubSeq(b.release.num, 1, k), k)
      BY <3>3, OwnBeginnings DEF Begins
    <3> QED
      BY <1>2, <2>3, <2>5, <3>2, <3>4
  <2>6. CASE ~Told(b)
    <3>1. ASSUME NEW i \in DOMAIN out, NEW j \in DOMAIN out, Tells(out, i, j)
          PROVE  b.shape = "inside" /\ \E k \in DOMAIN b.compiler : version.trailer[1] = b.compiler[k]
      <4>1. b.shape = "inside" /\ \E k \in DOMAIN b.compiler : out[j] = b.compiler[k]
        BY <2>2, <2>6, <3>1, CompilerTold DEF out
      <4>2. got.trailer[1] = out[j]
        BY <2>4, <3>1, ParsedIsTold DEF got
      <4> QED
        BY <2>3, <4>1, <4>2
    <3>2. (\A i, j \in DOMAIN out : ~Tells(out, i, j)) => ~got.ok
      BY <2>4, UntoldIsRefused DEF got
    <3> QED
      BY <1>2, <2>3, <2>6, <3>1, <3>2
  <2> QED
    BY <2>5, <2>6
<1> QED
  BY <1>1, <1>2

-----------------------------------------------------------------------------
(* The recursive functions of array literals.  What each computes at a     *)
(* place depends only on what it computes at those of a lesser rank, so    *)
(* the function exists: this is shown once, for the three of them.         *)

\* What Quoted computes at k from what it computes at other places.
QuotedStep(body, from, k) ==
  IF k > Len(body) \/ body[k] = "\"" THEN [next |-> k + 1, text |-> <<>>]
  ELSE LET ch   == IF body[k] = "\\" /\ k < Len(body) THEN k + 1 ELSE k
           rest == from[ch + 1]
       IN [rest EXCEPT !.text = <<body[ch]>> \o @]

\* The element at i of an array's body.
ElementAt(body, i) == IF body[i] = "\"" THEN Quoted(body, i + 1) ELSE Unquoted(body, i)

\* What Elements computes at i from what it computes at other places.
ElementsStep(body, from, i) ==
  IF i > Len(body) THEN [ok |-> TRUE, elems |-> <<>>]
  ELSE LET e    == ElementAt(body, i)
           rest == from[e.next + 1]
       IN IF \/ body[i] = "{"
             \/ e.next > Len(body) + 1
             \/ IsNullElement(body, i, e)
             \/ e.next <= Len(body) /\ body[e.next] # ","
             \/ ~rest.ok
            THEN Malformed
            ELSE [rest EXCEPT !.elems = <<e.text>> \o @]

\* What FlattenSeq computes of the first i sequences.
FlattenStep(seqs, flatten, i) == IF i = 1 THEN seqs[i] ELSE flatten[i - 1] \o seqs[i]

\* The step of any of the three.
StepOf(kind, s, f, i) ==
  CASE kind = "quoted"   -> QuotedStep(s, f, i)
    [] kind = "elements" -> ElementsStep(s, f, i)
    [] kind = "flatten"  -> FlattenStep(s, f, i)

\* A step depends only on what f is at places of a lesser rank.
Ranked(kind, s, D, rank) ==
  \A f, g : \A k \in D : (\A j \in D : rank[j] < rank[k] => f[j] = g[j])
                           => StepOf(kind, s, f, k) = StepOf(kind, s, g, k)

\* The recursive function with this step.
Solves(kind, s, D, f) == f = [k \in D |-> StepOf(kind, s, f, k)]

\* The recursive function exists.
LEMMA Recursion ==
  ASSUME NEW kind, NEW s, NEW D, NEW n \in Nat, NEW rank \in [D -> 0 .. n],
         Ranked(kind, s, D, rank)
  PROVE  \E f : Solves(kind, s, D, f)
<1> DEFINE Entry(g, k) == StepOf(kind, s, g, k)
           Upto(g, d) == \A k \in D : rank[k] < d => g[k] = Entry(g, k)
           Missing    == {d \in Nat : \A g : ~Upto(g, d)}
<1>1. \A g, h : \A k \in D : (\A j \in D : rank[j] < rank[k] => g[j] = h[j]) => Entry(g, k) = Entry(h, k)
  BY DEF Ranked
<1>0. \A k \in D : rank[k] \in Nat /\ rank[k] < n + 1
  OBVIOUS
<1> HIDE DEF Entry
<1>2. 0 \notin Missing
  <2>1. Upto(<<>>, 0)
    BY <1>0
  <2> HIDE DEF Upto
  <2> QED
    BY <2>1
<1>3. ASSUME NEW d \in Nat, d \notin Missing
      PROVE  d + 1 \notin Missing
  <2>1. PICK g : Upto(g, d)
    BY <1>3
  <2> DEFINE h == [k \in D |-> IF rank[k] < d THEN g[k] ELSE Entry(g, k)]
  <2>2. \A k \in D : h[k] = IF rank[k] < d THEN g[k] ELSE Entry(g, k)
    OBVIOUS
  <2> HIDE DEF h
  <2>3. Upto(h, d + 1)
    <3> SUFFICES ASSUME NEW k \in D, rank[k] < d + 1
                 PROVE  h[k] = Entry(h, k)
      OBVIOUS
    <3>1. \A j \in D : rank[j] < rank[k] => h[j] = g[j]
      BY <1>0, <2>2
    <3>2. Entry(h, k) = Entry(g, k)
      BY <1>1, <3>1
    <3> QED
      BY <1>0, <2>1, <2>2, <3>2
  <2> HIDE DEF Upto
  <2> QED
    BY <2>3
<1>4. Missing = {}
  <2> SUFFICES ASSUME Missing # {} PROVE FALSE
    OBVIOUS
  <2>1. Missing \subseteq Nat
    OBVIOUS
  <2> HIDE DEF Missing
  <2>2. PICK d \in Missing : \A e \in Missing : d <= e
    BY <2>1, LeastOf
  <2>3. d \in Nat /\ d # 0
    BY <1>2, <2>1, <2>2
  <2>4. d - 1 \in Nat /\ ~(d <= d - 1) /\ d - 1 + 1 = d
    BY ONLY <2>3
  <2>5. d - 1 \notin Missing
    BY <2>2, <2>4
  <2> QED
    BY <1>3, <2>2, <2>4, <2>5
<1>5. PICK g : Upto(g, n + 1)
  <2>1. n + 1 \in Nat
    OBVIOUS
  <2>2. n + 1 \notin Missing
    <3> HIDE DEF Missing
    <3> QED
      BY ONLY <1>4
  <2> HIDE DEF Upto
  <2> QED
    BY ONLY <2>1, <2>2
<1> DEFINE f == [k \in D |-> g[k]]
<1>6. f = [k \in D |-> Entry(f, k)]
  <2>1. \A k \in D : f[k] = g[k]
    OBVIOUS
  <2>2. \A k \in D : g[k] = Entry(g, k)
    BY <1>0, <1>5
  <2>3. \A k \in D : f[k] = Entry(f, k)
    <3> HIDE DEF f
    <3> QED
      BY <1>1, <2>1, <2>2
  <2> QED
    BY <2>1, <2>2, <2>3
<1> HIDE DEF f
<1> QED
  BY <1>6 DEF Entry, Solves

\* The loop over a quoted element.
LEMMA QuotedRecursion ==
  ASSUME NEW body, Len(body) \in Nat
  PROVE  \E from : /\ from = [k \in Nat |-> QuotedStep(body, from, k)]
                   /\ \A i : Quoted(body, i) = from[i]
<1> DEFINE n    == Len(body)
           rank == [k \in Nat |-> IF k > n THEN 0 ELSE n + 1 - k]
<1>1. rank \in [Nat -> 0 .. n + 1] /\ \A k \in Nat : rank[k] = IF k > n THEN 0 ELSE n + 1 - k
  OBVIOUS
<1>2. \A g, k : StepOf("quoted", body, g, k) = QuotedStep(body, g, k)
  BY DEF StepOf
<1>3. ASSUME NEW g, NEW h, NEW k \in Nat, \A j \in Nat : rank[j] < rank[k] => g[j] = h[j]
      PROVE  QuotedStep(body, g, k) = QuotedStep(body, h, k)
  <2>1. CASE k > n
    BY <2>1 DEF QuotedStep
  <2>2. CASE ~(k > n)
    <3> HIDE DEF rank
    <3>1. k + 1 \in Nat /\ k + 1 + 1 \in Nat
      OBVIOUS
    <3>2. rank[k + 1] < rank[k] /\ rank[k + 1 + 1] < rank[k]
      <4>1. /\ rank[k] = n + 1 - k
            /\ rank[k + 1] = IF k + 1 > n THEN 0 ELSE n + 1 - (k + 1)
            /\ rank[k + 1 + 1] = IF k + 1 + 1 > n THEN 0 ELSE n + 1 - (k + 1 + 1)
        BY <1>1, <2>2, <3>1
      <4>2. n \in Nat
        OBVIOUS
      <4> HIDE DEF n
      <4> QED
        BY <2>2, <4>1, <4>2
    <3>3. g[k + 1] = h[k + 1] /\ g[k + 1 + 1] = h[k + 1 + 1]
      BY <1>3, <3>1, <3>2
    <3> DEFINE ch == IF body[k] = "\\" /\ k < Len(body) THEN k + 1 ELSE k
               From(r) == IF k > Len(body) \/ body[k] = "\"" THEN [next |-> k + 1, text |-> <<>>]
                          ELSE [r EXCEPT !.text = <<body[ch]>> \o @]
    <3>4. g[ch + 1] = h[ch + 1]
      BY <3>3
    <3>5. /\ QuotedStep(body, g, k) = From(g[ch + 1])
          /\ QuotedStep(body, h, k) = From(h[ch + 1])
      BY DEF QuotedStep
    <3> HIDE DEF ch, From
    <3> QED
      BY <3>4, <3>5
  <2> QED
    BY <2>1, <2>2
<1> HIDE DEF rank
<1>4. \E f : Solves("quoted", body, Nat, f)
  <2>1. n + 1 \in Nat
    OBVIOUS
  <2>2 Ranked("quoted", body, Nat, rank)
    BY <1>2, <1>3 DEF Ranked
  <2> QED
    BY <1>1, <2>1, <2>2, Recursion
<1>5. \E f : f = [k \in Nat |-> QuotedStep(body, f, k)]
  BY <1>2, <1>4 DEF Solves
<1> DEFINE from == CHOOSE f : f = [k \in Nat |-> QuotedStep(body, f, k)]
<1>6. from = [k \in Nat |-> QuotedStep(body, from, k)]
  BY <1>5
<1>7. \A i : Quoted(body, i) = from[i]
  BY DEF Quoted, QuotedStep
<1> HIDE DEF from
<1> QED
  BY <1>6, <1>7

\* The concatenation of the sequences of a sequence.
LEMMA FlattenRecursion ==
  ASSUME NEW seqs, Len(seqs) \in Nat \ {0}
  PROVE  \E flatten : /\ flatten = [i \in 1 .. Len(seqs) |-> FlattenStep(seqs, flatten, i)]
                      /\ FlattenSeq(seqs) = flatten[Len(seqs)]
<1> DEFINE n    == Len(seqs)
           rank == [k \in 1 .. n |-> k]
<1>1. rank \in [1 .. n -> 0 .. n] /\ \A k \in 1 .. n : rank[k] = k
  OBVIOUS
<1>2. \A g, k : StepOf("flatten", seqs, g, k) = FlattenStep(seqs, g, k)
  BY DEF StepOf
<1>3. ASSUME NEW g, NEW h, NEW k \in 1 .. n, \A j \in 1 .. n : rank[j] < rank[k] => g[j] = h[j]
      PROVE  FlattenStep(seqs, g, k) = FlattenStep(seqs, h, k)
  <2>1. k # 1 => g[k - 1] = h[k - 1]
    <3> HIDE DEF rank
    <3> QED
      BY <1>1, <1>3
  <2> QED
    BY <2>1 DEF FlattenStep
<1> HIDE DEF rank
<1>4. \E f : Solves("flatten", seqs, 1 .. n, f)
  <2>1 Ranked("flatten", seqs, 1 .. n, rank)
    BY <1>2, <1>3 DEF Ranked
  <2>2. n \in Nat
    OBVIOUS
  <2> HIDE DEF n
  <2> QED
    BY <1>1, <2>1, <2>2, Recursion
<1>5. \E f : f = [k \in 1 .. n |-> FlattenStep(seqs, f, k)]
  BY <1>2, <1>4 DEF Solves
<1> DEFINE flatten == CHOOSE f : f = [k \in 1 .. n |-> FlattenStep(seqs, f, k)]
<1>6. flatten = [k \in 1 .. n |-> FlattenStep(seqs, flatten, k)]
  BY <1>5
<1>7. FlattenSeq(seqs) = flatten[n]
  BY DEF FlattenSeq, FlattenStep
<1> HIDE DEF flatten
<1> QED
  BY <1>6, <1>7

\* The loop over a quoted element goes forward.
LEMMA QuotedForward ==
  ASSUME NEW body, Len(body) \in Nat, NEW i \in Nat
  PROVE  Quoted(body, i).next \in Nat /\ Quoted(body, i).next > i
<1> DEFINE n == Len(body)
<1>0. n \in Nat
  OBVIOUS
<1>1. PICK from : /\ from = [k \in Nat |-> QuotedStep(body, from, k)]
                  /\ \A k : Quoted(body, k) = from[k]
  BY QuotedRecursion
<1>2. \A k \in Nat : from[k] = QuotedStep(body, from, k)
  BY <1>1
<1> DEFINE Forward(k) == /\ "next" \in DOMAIN from[k] /\ from[k].next \in Nat
                         /\ from[k].next > k
           Wrong == {d \in Nat : \E k \in Nat : k + d > n /\ ~Forward(k)}
<1>3. ASSUME NEW k \in Nat,
             k <= n => Forward(k + 1) /\ Forward(k + 1 + 1)
      PROVE  Forward(k)
  <2>1. CASE k > n \/ body[k] = "\""
    <3>1. from[k] = [next |-> k + 1, text |-> <<>>]
      BY <1>2, <2>1 DEF QuotedStep
    <3> QED
      BY <3>1
  <2>2. CASE ~(k > n \/ body[k] = "\"")
    <3> DEFINE ch == IF body[k] = "\\" /\ k < Len(body) THEN k + 1 ELSE k
               r  == from[ch + 1]
    <3>1. from[k] = [r EXCEPT !.text = <<body[ch]>> \o @]
      BY <1>2, <2>2 DEF QuotedStep
    <3>2. Forward(ch + 1) /\ ch >= k /\ ch \in Nat
      <4> HIDE DEF Forward
      <4>1. k <= n
        <5>1. ~(k > n)
          BY <2>2
        <5> HIDE DEF n
        <5> QED
          BY <1>0, <5>1
      <4>2. ch = k \/ ch = k + 1
        OBVIOUS
      <4> HIDE DEF ch
      <4> QED
        BY <1>3, <4>1, <4>2
    <3> HIDE DEF ch
    <3>3. "next" \in DOMAIN r /\ r.next \in Nat /\ r.next > k
      BY <3>2
    <3> HIDE DEF r
    <3>4. "next" \in DOMAIN from[k] /\ from[k].next = r.next
      BY <3>1, <3>3
    <3> QED
      BY <3>3, <3>4
  <2> QED
    BY <2>1, <2>2
<1> HIDE DEF Forward
<1>4. Wrong = {}
  <2> SUFFICES ASSUME Wrong # {} PROVE FALSE
    OBVIOUS
  <2>1. PICK d \in Wrong : \A e \in Wrong : d <= e
    <3>1. Wrong \subseteq Nat
      OBVIOUS
    <3> HIDE DEF Wrong
    <3> QED
      BY <3>1, LeastOf
  <2>2. PICK k \in Nat : k + d > n /\ ~Forward(k)
    BY <2>1
  <2>3. d \in Nat
    BY <2>1
  <2>4. k <= n /\ (Forward(k + 1) /\ Forward(k + 1 + 1) => FALSE)
    BY <1>3, <2>2
  <2>5. d - 1 \in Nat /\ ~(d <= d - 1)
    BY <2>2, <2>3, <2>4
  <2>6. d - 1 \notin Wrong
    <3> HIDE DEF Wrong
    <3> QED
      BY <2>1, <2>5
  <2>7. \A j \in Nat : j + (d - 1) > n => Forward(j)
    BY <2>5, <2>6
  <2>8. Forward(k + 1) /\ Forward(k + 1 + 1)
    BY <2>2, <2>3, <2>5, <2>7
  <2> QED
    BY <2>4, <2>8
<1>5. Forward(i)
  <2>1. \A d \in Nat : \A k \in Nat : k + d > n => Forward(k)
    BY <1>4
  <2> HIDE DEF n
  <2>2. n + 1 \in Nat /\ i + (n + 1) > n
    BY <1>0
  <2> QED
    BY <2>1, <2>2
<1> QED
  BY <1>1, <1>5 DEF Forward

\* An unquoted element ends at a comma or at the end, and not before it begins.
LEMMA UnquotedEnds ==
  ASSUME NEW body, Len(body) \in Nat, NEW i \in Nat, i <= Len(body) + 1
  PROVE  LET e == Unquoted(body, i)
         IN /\ e.next \in i .. Len(body) + 1
            /\ e.next = Len(body) + 1 \/ body[e.next] = ","
            /\ \A k \in i .. e.next - 1 : body[k] # ","
            /\ e.text = SubSeq(body, i, e.next - 1)
<1> DEFINE n == Len(body)
           Stop(j) == j = n + 1 \/ body[j] = ","
           Is1(j)  == Stop(j) /\ \A k \in i .. j - 1 : body[k] # ","
           T == {j \in i .. n + 1 : Stop(j)}
           stop == CHOOSE j \in i .. n + 1 : Is1(j)
<1>1. \E j \in i .. n + 1 : Is1(j)
  <2>1. T \subseteq Nat /\ T # {}
    <3>1. n + 1 \in i .. n + 1 /\ i .. n + 1 \subseteq Nat
      OBVIOUS
    <3> HIDE DEF n
    <3> QED
      BY <3>1
  <2>2. PICK j \in T : \A k \in T : j <= k
    <3> HIDE DEF T
    <3> QED
      BY <2>1, LeastOf
  <2>3. ASSUME NEW k \in i .. j - 1, body[k] = ","
        PROVE  FALSE
    <3>1. j \in i .. n + 1 /\ n \in Nat /\ k \in i .. j - 1
      BY <2>2
    <3> HIDE DEF n, T
    <3>2. k \in i .. n + 1 /\ ~(j <= k)
      BY <3>1
    <3>3. k \in T
      BY <2>3, <3>2 DEF T
    <3> QED
      BY <2>2, <3>2, <3>3
  <2> QED
    BY <2>2, <2>3
<1>2. Unquoted(body, i) = [next |-> stop, text |-> SubSeq(body, i, stop - 1)]
  BY DEF Unquoted
<1>3. stop \in i .. n + 1 /\ Is1(stop)
  <2> HIDE DEF Is1
  <2> QED
    BY <1>1
<1> HIDE DEF stop
<1>4. Unquoted(body, i).next = stop /\ Unquoted(body, i).text = SubSeq(body, i, stop - 1)
  <2> DEFINE text == SubSeq(body, i, stop - 1)
  <2>1. Unquoted(body, i) = [next |-> stop, text |-> text]
    BY <1>2
  <2> HIDE DEF text
  <2>2. Unquoted(body, i).next = stop /\ Unquoted(body, i).text = text
    BY <2>1
  <2> QED
    BY <2>2 DEF text
<1> QED
  BY <1>3, <1>4

\* The loop over the elements.
LEMMA ElementsRecursion ==
  ASSUME NEW body, Len(body) \in Nat
  PROVE  \E from : /\ from = [i \in Nat |-> ElementsStep(body, from, i)]
                   /\ Elements(body) = from[1]
<1> DEFINE n    == Len(body)
           rank == [k \in Nat |-> IF k > n THEN 0 ELSE n + 1 - k]
<1>1. rank \in [Nat -> 0 .. n + 1] /\ \A k \in Nat : rank[k] = IF k > n THEN 0 ELSE n + 1 - k
  OBVIOUS
<1>2. \A g, k : StepOf("elements", body, g, k) = ElementsStep(body, g, k)
  BY DEF StepOf
<1> HIDE DEF rank
<1>3. ASSUME NEW g, NEW h, NEW k \in Nat, \A j \in Nat : rank[j] < rank[k] => g[j] = h[j]
      PROVE  ElementsStep(body, g, k) = ElementsStep(body, h, k)
  <2>1. CASE k > n
    BY <2>1 DEF ElementsStep
  <2>2. CASE ~(k > n)
    <3> DEFINE e == ElementAt(body, k)
               j == e.next + 1
               From(r) == IF k > Len(body) THEN [ok |-> TRUE, elems |-> <<>>]
                          ELSE IF \/ body[k] = "{"
                                  \/ e.next > Len(body) + 1
                                  \/ IsNullElement(body, k, e)
                                  \/ e.next <= Len(body) /\ body[e.next] # ","
                                  \/ ~r.ok
                                 THEN Malformed
                                 ELSE [r EXCEPT !.elems = <<e.text>> \o @]
    <3>1. e.next \in Nat /\ e.next >= k
      <4>1. Quoted(body, k + 1).next \in Nat /\ Quoted(body, k + 1).next >= k
        <5>1. k + 1 \in Nat
          OBVIOUS
        <5>2. Quoted(body, k + 1).next \in Nat /\ Quoted(body, k + 1).next > k + 1
          BY <5>1, QuotedForward
        <5> QED
          BY <5>2
      <4>2. Unquoted(body, k).next \in k .. n + 1
        <5>1. k <= n + 1 /\ n \in Nat
          BY <2>2
        <5> QED
          BY <5>1, UnquotedEnds
      <4>3. e = Quoted(body, k + 1) \/ e = Unquoted(body, k)
        BY DEF ElementAt
      <4> HIDE DEF e
      <4>4. CASE e = Quoted(body, k + 1)
        BY <4>1, <4>4
      <4>5. CASE e = Unquoted(body, k)
        BY <4>2, <4>5
      <4> QED
        BY <4>3, <4>4, <4>5
    <3>2. j \in Nat /\ j > k
      BY <3>1
    <3>3. ElementsStep(body, g, k) = From(g[j]) /\ ElementsStep(body, h, k) = From(h[j])
      BY DEF ElementsStep
    <3> HIDE DEF From, j
    <3>4. rank[j] < rank[k]
      <4>1. /\ rank[k] = n + 1 - k
            /\ rank[j] = IF j > n THEN 0 ELSE n + 1 - j
        BY <1>1, <2>2, <3>2
      <4>2. n \in Nat
        OBVIOUS
      <4> HIDE DEF n
      <4> QED
        BY <2>2, <3>2, <4>1, <4>2
    <3>5. g[j] = h[j]
      BY <1>3, <3>2, <3>4
    <3> QED
      BY <3>3, <3>5
  <2> QED
    BY <2>1, <2>2
<1>4. \E f : Solves("elements", body, Nat, f)
  <2>1. n + 1 \in Nat
    OBVIOUS
  <2>2. Ranked("elements", body, Nat, rank)
    BY <1>2, <1>3 DEF Ranked
  <2> QED
    BY <1>1, <2>1, <2>2, Recursion
<1>5. \E f : f = [k \in Nat |-> ElementsStep(body, f, k)]
  BY <1>2, <1>4 DEF Solves
<1> DEFINE from == CHOOSE f : f = [k \in Nat |-> ElementsStep(body, f, k)]
<1>6. from = [k \in Nat |-> ElementsStep(body, from, k)]
  BY <1>5
<1>7. Elements(body) = from[1]
  BY DEF Elements, ElementsStep, ElementAt
<1> HIDE DEF from
<1> QED
  BY <1>6, <1>7

-----------------------------------------------------------------------------
(* Texts inside texts.                                                     *)

\* The text has the part after its first p characters.
At(text, p, part) ==
  /\ p + Len(part) <= Len(text)
  /\ \A k \in 1 .. Len(part) : text[p + k] = part[k]

\* The parts of a concatenation are in it one after the other.
LEMMA FlattenParts ==
  ASSUME NEW seqs, IsSeq(seqs), \A i \in 1 .. Len(seqs) : IsSeq(seqs[i])
  PROVE  /\ IsSeq(FlattenSeq(seqs))
         /\ \E at \in [1 .. Len(seqs) + 1 -> Nat] :
              /\ at[1] = 0 /\ at[Len(seqs) + 1] = Len(FlattenSeq(seqs))
              /\ \A i \in 1 .. Len(seqs) : /\ at[i + 1] = at[i] + Len(seqs[i])
                                           /\ At(FlattenSeq(seqs), at[i], seqs[i])
<1> DEFINE n == Len(seqs)
<1>1. n \in Nat
  BY SeqFacts
<1>2. CASE n = 0
  <2>1. seqs = <<>> /\ FlattenSeq(seqs) = <<>> /\ Len(<<>>) = 0 /\ IsSeq(<<>>)
    BY <1>2, SeqOfNone DEF FlattenSeq
  <2> DEFINE at == [i \in 1 .. n + 1 |-> 0]
  <2>2. at \in [1 .. n + 1 -> Nat] /\ at[1] = 0 /\ at[n + 1] = 0 /\ 1 .. n = {}
    BY <1>1, <1>2
  <2> HIDE DEF at
  <2> QED
    BY <2>1, <2>2
<1>3. CASE n # 0
  <2>1. PICK f : /\ f = [i \in 1 .. n |-> FlattenStep(seqs, f, i)]
                 /\ FlattenSeq(seqs) = f[n]
    <3>1. Len(seqs) \in Nat \ {0}
      BY <1>1, <1>3
    <3> QED
      BY <3>1, FlattenRecursion
  <2>2. \A i \in 1 .. n : f[i] = IF i = 1 THEN seqs[i] ELSE f[i - 1] \o seqs[i]
    BY <2>1 DEF FlattenStep
  <2> DEFINE at == [i \in 1 .. n + 1 |-> IF i = 1 THEN 0 ELSE Len(f[i - 1])]
  <2> HIDE DEF n
  <2>3. at[1] = 0 /\ \A i \in 1 .. n : at[i + 1] = Len(f[i])
    <3>1. 1 \in 1 .. n + 1
      BY <1>1
    <3>2. \A i \in 1 .. n : i + 1 \in 1 .. n + 1 /\ i + 1 # 1 /\ i + 1 - 1 = i
      BY <1>1
    <3> QED
      BY <3>1, <3>2
  <2> DEFINE Ok(i) == /\ IsSeq(f[i]) /\ Len(f[i]) = at[i] + Len(seqs[i])
                      /\ \A j \in 1 .. i : at[j] \in Nat /\ At(f[i], at[j], seqs[j])
             Wrong == {i \in 1 .. n : ~Ok(i)}
  <2>4. \A i \in 1 .. n : IsSeq(seqs[i]) /\ Len(seqs[i]) \in Nat
    BY SeqFacts DEF n
  <2>5. Ok(1)
    <3>1. f[1] = seqs[1] /\ 1 \in 1 .. n
      BY <1>1, <1>3, <2>2
    <3> HIDE DEF at
    <3>2. At(f[1], 0, seqs[1])
      BY <2>4, <3>1 DEF At
    <3>3. \A j \in 1 .. 1 : j = 1
      OBVIOUS
    <3> QED
      BY <2>3, <2>4, <3>1, <3>2, <3>3
  <2>6. ASSUME NEW i \in 1 .. n, i # 1, Ok(i - 1)
        PROVE  Ok(i)
    <3> HIDE DEF at
    <3> DEFINE g == f[i - 1]
               s == seqs[i]
    <3>1. i - 1 \in 1 .. n /\ i - 1 + 1 = i
      BY <1>1, <2>6
    <3>2. f[i] = g \o s /\ at[i] = Len(g)
      BY <2>2, <2>3, <2>6, <3>1
    <3>3. /\ IsSeq(g) /\ IsSeq(s) /\ Len(g) \in Nat /\ Len(s) \in Nat
          /\ \A j \in 1 .. i - 1 : at[j] \in Nat /\ At(g, at[j], seqs[j])
      BY <2>4, <2>6, SeqFacts
    <3> HIDE DEF g, s
    <3>4. /\ IsSeq(f[i]) /\ Len(f[i]) = Len(g) + Len(s)
          /\ \A k \in 1 .. Len(g) : f[i][k] = g[k]
          /\ \A k \in 1 .. Len(s) : f[i][Len(g) + k] = s[k]
      BY <3>2, <3>3, ConcatSeq
    <3>5. ASSUME NEW j \in 1 .. i - 1
          PROVE  at[j] \in Nat /\ At(f[i], at[j], seqs[j])
      <4> DEFINE p == at[j]
                 l == Len(seqs[j])
      <4>1. p \in Nat /\ l \in Nat /\ p + l <= Len(g) /\ \A k \in 1 .. l : g[p + k] = seqs[j][k]
        <5>1. j \in 1 .. n
          <6>1. j \in 1 .. i - 1 /\ i \in 1 .. n
            OBVIOUS
          <6> QED
            BY ONLY <1>1, <6>1
        <5> QED
          BY <2>4, <3>3, <5>1 DEF At
      <4> HIDE DEF p, l
      <4>2. p + l <= Len(f[i])
        BY <3>3, <3>4, <4>1
      <4>3. \A k \in 1 .. l : p + k \in 1 .. Len(g)
        BY <3>3, <4>1
      <4>4. \A k \in 1 .. l : f[i][p + k] = seqs[j][k]
        BY <3>4, <4>1, <4>3
      <4> QED
        BY <4>1, <4>2, <4>4 DEF At, p, l
    <3>6. at[i] \in Nat /\ At(f[i], at[i], seqs[i])
      BY <3>2, <3>3, <3>4 DEF At, s
    <3>7. \A j \in 1 .. i : j \in 1 .. i - 1 \/ j = i
      BY <3>1
    <3>8. Len(f[i]) = at[i] + Len(seqs[i])
      BY <3>2, <3>4 DEF s
    <3> QED
      BY <3>4, <3>5, <3>6, <3>7, <3>8
  <2> HIDE DEF Ok, at
  <2>7. Wrong = {}
    <3> SUFFICES ASSUME Wrong # {} PROVE FALSE
      OBVIOUS
    <3>1. PICK i \in Wrong : \A j \in Wrong : i <= j
      <4>1. Wrong \subseteq Nat
        OBVIOUS
      <4> HIDE DEF Wrong
      <4> QED
        BY <4>1, LeastOf
    <3>2. i \in 1 .. n /\ ~Ok(i) /\ i # 1
      BY <2>5, <3>1
    <3>3. i - 1 \in 1 .. n /\ ~(i <= i - 1)
      BY <1>1, <3>2
    <3>4. i - 1 \notin Wrong
      <4> HIDE DEF Wrong
      <4> QED
        BY <3>1, <3>3
    <3>5. Ok(i - 1)
      BY <3>3, <3>4
    <3> QED
      BY <2>6, <3>2, <3>5
  <2>8. \A i \in 1 .. n : Ok(i)
    BY <2>7
  <2> DEFINE flat == FlattenSeq(seqs)
  <2>9. flat = f[n] /\ n \in 1 .. n
    BY <1>1, <1>3, <2>1
  <2>10. IsSeq(flat) /\ Len(flat) \in Nat /\ at[n + 1] = Len(flat)
    BY <2>3, <2>8, <2>9, SeqFacts DEF Ok
  <2>11. \A i \in 1 .. n : at[i] \in Nat /\ At(flat, at[i], seqs[i]) /\ at[i + 1] = at[i] + Len(seqs[i])
    BY <2>3, <2>8, <2>9 DEF Ok
  <2>12. at \in [1 .. n + 1 -> Nat]
    <3>1. \A i \in 1 .. n + 1 : i \in 1 .. n \/ i = n + 1
      BY <1>1
    <3>2. \A i \in 1 .. n + 1 : at[i] \in Nat
      BY <2>10, <2>11, <3>1
    <3>3. at = [i \in 1 .. n + 1 |-> at[i]]
      BY DEF at
    <3> QED
      BY <3>2, <3>3
  <2> HIDE DEF flat
  <2> QED
    BY <2>3, <2>10, <2>11, <2>12 DEF flat, n
<1> QED
  BY <1>2, <1>3

-----------------------------------------------------------------------------
(* Array literals between quotes.                                          *)

\* What holds at the end and, wherever it holds, one place before, holds at
\* the first place.
LEMMA Backwards ==
  ASSUME NEW m \in Nat, NEW S, m + 1 \in S, \A i \in 1 .. m : i + 1 \in S => i \in S
  PROVE  1 \in S
<1> DEFINE Wrong == {d \in 0 .. m : m + 1 - d \notin S}
<1>1. Wrong = {}
  <2> SUFFICES ASSUME Wrong # {} PROVE FALSE
    OBVIOUS
  <2>1. PICK d \in Wrong : \A c \in Wrong : d <= c
    <3>1. Wrong \subseteq Nat
      OBVIOUS
    <3> HIDE DEF Wrong
    <3> QED
      BY <3>1, LeastOf
  <2>2. d \in 0 .. m /\ m + 1 - d \notin S
    BY <2>1
  <2>3. d # 0
    <3>1. m + 1 - 0 = m + 1
      OBVIOUS
    <3> QED
      BY <2>2, <3>1
  <2>4. d - 1 \in 0 .. m /\ ~(d <= d - 1) /\ m + 1 - d \in 1 .. m /\ m + 1 - d + 1 = m + 1 - (d - 1)
    BY <2>2, <2>3
  <2>5. d - 1 \notin Wrong
    <3> HIDE DEF Wrong
    <3> QED
      BY <2>1, <2>4
  <2>6. m + 1 - d + 1 \in S
    BY <2>4, <2>5
  <2> QED
    BY <2>2, <2>4, <2>6
<1>2. m \in 0 .. m /\ m + 1 - m = 1
  OBVIOUS
<1> QED
  BY <1>1, <1>2

\* A suffix is its first entry and the rest.
LEMMA SuffixCons ==
  ASSUME NEW s, IsSeq(s), NEW i \in 1 .. Len(s)
  PROVE  SubSeq(s, i, Len(s)) = <<s[i]>> \o SubSeq(s, i + 1, Len(s))
<1> DEFINE n == Len(s)
           a == SubSeq(s, i, n)
           b == SubSeq(s, i + 1, n)
           c == <<s[i]>> \o b
<1>1. n \in Nat /\ i \in Nat /\ 1 <= i /\ i <= n
  BY SeqFacts
<1>2. /\ IsSeq(a) /\ Len(a) = n - i + 1
      /\ \A k \in 1 .. n - i + 1 : a[k] = s[i + k - 1]
  <2>1. i \in 1 .. Len(s) + 1 /\ n \in i - 1 .. Len(s)
    BY <1>1
  <2> QED
    BY <2>1, SubSeqOf
<1>3. /\ IsSeq(b) /\ Len(b) = n - i
      /\ \A k \in 1 .. n - i : b[k] = s[i + k]
  <2>1. i + 1 \in 1 .. Len(s) + 1 /\ n \in (i + 1) - 1 .. Len(s) /\ n - (i + 1) + 1 = n - i
    BY <1>1
  <2>2. /\ IsSeq(b) /\ Len(b) = n - (i + 1) + 1
        /\ \A k \in 1 .. n - (i + 1) + 1 : b[k] = s[(i + 1) + k - 1]
    BY <2>1, SubSeqOf
  <2>3. \A k \in 1 .. n - i : (i + 1) + k - 1 = i + k
    BY <1>1
  <2> HIDE DEF b, n
  <2> QED
    BY <2>1, <2>2, <2>3
<1> HIDE DEF a, b, n
<1>4. /\ IsSeq(<<s[i]>>) /\ Len(<<s[i]>>) = 1 /\ <<s[i]>>[1] = s[i]
  BY SeqOfOne
<1>5. /\ IsSeq(c) /\ Len(c) = 1 + Len(b) /\ c[1] = s[i]
      /\ \A k \in 1 .. Len(b) : c[1 + k] = b[k]
  <2>1. 1 \in 1 .. 1
    OBVIOUS
  <2> QED
    BY <1>3, <1>4, <2>1, ConcatSeq
<1> HIDE DEF c
<1>6. Len(a) = Len(c)
  BY <1>1, <1>2, <1>3, <1>5
<1>7. ASSUME NEW k \in 1 .. Len(a)
      PROVE  a[k] = c[k]
  <2>1. k \in 1 .. n - i + 1 /\ a[k] = s[i + k - 1]
    BY <1>2
  <2>2. CASE k = 1
    <3>1. i + 1 - 1 = i
      BY <1>1
    <3> QED
      BY <1>5, <2>1, <2>2, <3>1
  <2>3. CASE k # 1
    <3>1. k - 1 \in 1 .. n - i /\ 1 + (k - 1) = k /\ i + (k - 1) = i + k - 1
      BY <1>1, <2>1, <2>3
    <3>2. c[1 + (k - 1)] = b[k - 1] /\ b[k - 1] = s[i + (k - 1)]
      BY <1>3, <1>5, <3>1
    <3> QED
      BY <2>1, <3>1, <3>2
  <2> QED
    BY <2>2, <2>3
<1>8. a = c
  BY <1>2, <1>5, <1>6, <1>7, SeqsEqual
<1> QED
  BY <1>8 DEF a, b, c, n

\* The empty suffix, and the whole.
LEMMA SuffixEnds ==
  ASSUME NEW s, IsSeq(s)
  PROVE  SubSeq(s, Len(s) + 1, Len(s)) = <<>> /\ SubSeq(s, 1, Len(s)) = s
<1> DEFINE n == Len(s)
<1>1. n \in Nat
  BY SeqFacts
<1>2. IsSeq(SubSeq(s, n + 1, n)) /\ Len(SubSeq(s, n + 1, n)) = 0
  <2>1. n + 1 \in 1 .. Len(s) + 1 /\ n \in (n + 1) - 1 .. Len(s) /\ n - (n + 1) + 1 = 0
    BY <1>1
  <2> HIDE DEF n
  <2> QED
    BY <2>1, SubSeqOf DEF n
<1>3. /\ IsSeq(SubSeq(s, 1, n)) /\ Len(SubSeq(s, 1, n)) = n
      /\ \A k \in 1 .. n : SubSeq(s, 1, n)[k] = s[k]
  <2>1. 1 \in 1 .. Len(s) + 1 /\ n \in 1 - 1 .. Len(s) /\ n - 1 + 1 = n
        /\ \A k \in 1 .. n : 1 + k - 1 = k
    BY <1>1
  <2>2. /\ IsSeq(SubSeq(s, 1, n)) /\ Len(SubSeq(s, 1, n)) = n - 1 + 1
        /\ \A k \in 1 .. n - 1 + 1 : SubSeq(s, 1, n)[k] = s[1 + k - 1]
    BY <2>1, SubSeqOf
  <2> HIDE DEF n
  <2> QED
    BY <2>1, <2>2
<1>4. SubSeq(s, 1, n) = s
  BY <1>3, SeqsEqual
<1> QED
  BY <1>2, <1>4, SeqOfNone

\* A character and its backslash.
LEMMA EscapedIs ==
  ASSUME NEW ch
  PROVE  /\ IsSeq(Escaped(ch)) /\ Len(Escaped(ch)) \in {1, 2}
         /\ ch \in {"\"", "\\"} => /\ Len(Escaped(ch)) = 2
                                   /\ Escaped(ch)[1] = "\\" /\ Escaped(ch)[2] = ch
         /\ ch \notin {"\"", "\\"} => Len(Escaped(ch)) = 1 /\ Escaped(ch)[1] = ch
<1>1. \A x, y : LET s == <<x, y>> IN s = [i \in 1 .. 2 |-> s[i]] /\ s[1] = x /\ s[2] = y
  OBVIOUS
<1>2. CASE ch \in {"\"", "\\"}
  <2>1. Escaped(ch) = <<"\\", ch>>
    BY <1>2 DEF Escaped
  <2> DEFINE s == <<"\\", ch>>
  <2>2. s = [i \in 1 .. 2 |-> s[i]] /\ s[1] = "\\" /\ s[2] = ch
    BY <1>1
  <2> HIDE DEF s
  <2>3. IsSeq(s) /\ Len(s) = 2
    BY <2>2, IsSeqOf
  <2> QED
    BY <1>2, <2>1, <2>2, <2>3 DEF s
<1>3. CASE ch \notin {"\"", "\\"}
  <2>1. Escaped(ch) = <<ch>>
    BY <1>3 DEF Escaped
  <2> QED
    BY <1>3, <2>1, SeqOfOne
<1> QED
  BY <1>2, <1>3

\* The body has, after its first p characters, the text e as array_out quotes
\* it, with its i-th character after at[i] more, and the closing quote.
Spelled(body, p, e, at) ==
  /\ IsSeq(body) /\ IsSeq(e) /\ p \in Nat /\ at \in [1 .. Len(e) + 1 -> Nat]
  /\ \A i \in 1 .. Len(e) : /\ at[i + 1] = at[i] + Len(Escaped(e[i]))
                            /\ At(body, p + at[i], Escaped(e[i]))
  /\ p + at[Len(e) + 1] + 1 <= Len(body)
  /\ body[p + at[Len(e) + 1] + 1] = "\""

\* What from gives at the i-th character: the rest of the text, and its end.
ReadFrom(from, p, e, at, i) ==
  from[p + at[i] + 1] = [next |-> p + at[Len(e) + 1] + 2, text |-> SubSeq(e, i, Len(e))]

\* from is the function that Quoted defines.
QuotedLoop(body, from) == \A k \in Nat : from[k] = QuotedStep(body, from, k)

\* The characters x before the text of r.
TextAfter(x, r) == [r EXCEPT !.text = x \o @]

\* The step at a backslash, and at another character.
LEMMA QuotedStepIs ==
  ASSUME NEW body, Len(body) \in Nat, NEW from, NEW k \in Nat, k <= Len(body)
  PROVE  /\ body[k] = "\\" /\ k < Len(body) =>
              QuotedStep(body, from, k) = TextAfter(<<body[k + 1]>>, from[k + 1 + 1])
         /\ body[k] \notin {"\"", "\\"} =>
              QuotedStep(body, from, k) = TextAfter(<<body[k]>>, from[k + 1])
<1> DEFINE n == Len(body)
<1>1. ~(k > n)
  <2>1. n \in Nat /\ k <= n
    OBVIOUS
  <2> HIDE DEF n
  <2> QED
    BY <2>1
<1>2. CASE body[k] = "\\" /\ k < Len(body)
  <2>1. body[k] # "\""
    BY <1>2
  <2> QED
    BY <1>1, <1>2, <2>1 DEF QuotedStep, TextAfter
<1>3. CASE body[k] \notin {"\"", "\\"}
  <2>1. body[k] # "\"" /\ body[k] # "\\"
    BY <1>3
  <2> QED
    BY <1>1, <1>3, <2>1 DEF QuotedStep, TextAfter
<1> QED
  BY <1>2, <1>3

\* A character before the text of a record.
LEMMA TextBefore ==
  ASSUME NEW stop, NEW text, NEW x
  PROVE  TextAfter(x, [next |-> stop, text |-> text]) = [next |-> stop, text |-> x \o text]
<1> DEFINE r == [next |-> stop, text |-> text]
           y == x \o r.text
<1>1. r = [next |-> stop, text |-> text] /\ r.text = text
  OBVIOUS
<1> HIDE DEF r, y
<1>2. [r EXCEPT !.text = y] = [next |-> stop, text |-> y]
  BY <1>1
<1>3. TextAfter(x, r) = [next |-> stop, text |-> y]
  BY <1>2 DEF TextAfter, y
<1> QED
  BY <1>1, <1>3 DEF r, y

\* At the closing quote the text is at its end.
LEMMA QuoteCloses ==
  ASSUME NEW body, NEW p, NEW e, NEW at, Spelled(body, p, e, at),
         NEW from, QuotedLoop(body, from)
  PROVE  ReadFrom(from, p, e, at, Len(e) + 1)
<1> DEFINE m == Len(e)
           k == p + at[m + 1] + 1
<1>1. m \in Nat /\ m + 1 \in 1 .. m + 1
  <2>1. m \in Nat
    BY SeqFacts DEF Spelled
  <2> QED
    BY <2>1
<1>2. p \in Nat /\ at[m + 1] \in Nat
  BY <1>1 DEF Spelled
<1>3. body[k] = "\"" /\ k \in Nat /\ k + 1 = p + at[m + 1] + 2
  <2>1. body[k] = "\""
    BY DEF Spelled
  <2> DEFINE a == at[m + 1]
  <2>2. p + a + 1 \in Nat /\ p + a + 1 + 1 = p + a + 2
    <3>1. p \in Nat /\ a \in Nat
      BY <1>2
    <3> HIDE DEF a
    <3> QED
      BY <3>1
  <2> QED
    BY <2>1, <2>2
<1> HIDE DEF k
<1>4. from[k] = [next |-> k + 1, text |-> <<>>]
  BY <1>3 DEF QuotedLoop, QuotedStep
<1>5. SubSeq(e, m + 1, m) = <<>>
  BY SuffixEnds DEF Spelled
<1> QED
  BY <1>3, <1>4, <1>5 DEF ReadFrom, k

\* The loop takes a character, with its backslash if it has one.
LEMMA QuoteGoesOn ==
  ASSUME NEW body, NEW p, NEW e, NEW at, Spelled(body, p, e, at),
         NEW from, QuotedLoop(body, from),
         NEW i \in 1 .. Len(e), ReadFrom(from, p, e, at, i + 1)
  PROVE  ReadFrom(from, p, e, at, i)
<1> DEFINE m == Len(e)
           w == Escaped(e[i])
           l == Len(w)
           k == p + at[i] + 1
           stop == p + at[m + 1] + 2
           tail == SubSeq(e, i + 1, m)
<1>1. m \in Nat /\ Len(body) \in Nat /\ p \in Nat
  BY SeqFacts DEF Spelled
<1>2. i \in 1 .. m + 1
  BY <1>1
<1>3. /\ at[i] \in Nat /\ at[i + 1] = at[i] + l /\ At(body, p + at[i], w)
      /\ IsSeq(e)
  BY <1>2 DEF Spelled
<1>4. l \in {1, 2}
  BY EscapedIs
<1>5. ReadFrom(from, p, e, at, i + 1)
  OBVIOUS
<1>6. from[p + at[i + 1] + 1] = [next |-> stop, text |-> tail]
  BY <1>5 DEF ReadFrom
<1> HIDE DEF m, w, l, stop, tail
<1>7. k \in Nat /\ k + l = p + at[i + 1] + 1
  <2> DEFINE b == at[i]
  <2>1. b \in Nat /\ at[i + 1] = b + l
    BY <1>3
  <2>2. p \in Nat /\ b \in Nat /\ l \in {1, 2}
    BY <1>1, <1>4, <2>1
  <2> HIDE DEF b
  <2>3. p + b + 1 \in Nat /\ p + b + 1 + l = p + (b + l) + 1
    BY ONLY <2>2
  <2> QED
    BY ONLY <2>1, <2>3 DEF b
<1>8. /\ p + at[i] + l <= Len(body)
      /\ \A j \in 1 .. l : body[p + at[i] + j] = w[j]
  BY <1>3 DEF At, l
<1>9. from[k + l] = [next |-> stop, text |-> tail]
  BY <1>6, <1>7
<1> DEFINE a == p + at[i]
           n == Len(body)
<1>10. k = a + 1 /\ a \in Nat
  BY <1>1, <1>3
<1>11. a + l <= n /\ \A j \in 1 .. l : body[a + j] = w[j]
  BY <1>8
<1>111. a + l <= n /\ n \in Nat
  BY <1>1, <1>8
<1> HIDE DEF k, a, n
<1>112. k \in Nat /\ a \in Nat /\ k = a + 1 /\ a + l <= n /\ n \in Nat
  BY ONLY <1>7, <1>10, <1>111
<1>113. Len(body) = n
  BY DEF n
<1>12. from[k] = [next |-> stop, text |-> <<e[i]>> \o tail]
  <2>1. CASE e[i] \in {"\"", "\\"}
    <3>1. l = 2 /\ w[1] = "\\" /\ w[2] = e[i]
      BY <2>1, EscapedIs DEF l, w
    <3>11. l = 2
      BY <3>1
    <3>2. k = a + 1 /\ k + 1 = a + 2 /\ k < n /\ k <= n /\ 1 \in 1 .. l /\ 2 \in 1 .. l /\ k + 1 + 1 = k + l
      BY ONLY <1>112, <3>11
    <3>21. body[a + 1] = w[1] /\ body[a + 2] = w[2]
      BY ONLY <1>11, <3>2
    <3>3. body[k] = "\\" /\ body[k + 1] = e[i]
      BY ONLY <3>1, <3>2, <3>21
    <3>31. k \in Nat /\ Len(body) \in Nat /\ k < Len(body) /\ k <= Len(body)
      BY ONLY <1>112, <1>113, <3>2
    <3>4. QuotedStep(body, from, k) = TextAfter(<<body[k + 1]>>, from[k + 1 + 1])
      BY <3>3, <3>31, QuotedStepIs
    <3>41. from[k] = QuotedStep(body, from, k)
      BY <3>31 DEF QuotedLoop
    <3>42. from[k + 1 + 1] = [next |-> stop, text |-> tail]
      BY ONLY <1>9, <3>2
    <3>5. from[k] = TextAfter(<<e[i]>>, [next |-> stop, text |-> tail])
      BY ONLY <3>3, <3>4, <3>41, <3>42
    <3> QED
      BY <3>5, TextBefore
  <2>2. CASE e[i] \notin {"\"", "\\"}
    <3>1. l = 1 /\ w[1] = e[i]
      BY <2>2, EscapedIs DEF l, w
    <3>11. l = 1
      BY <3>1
    <3>2. k = a + 1 /\ k <= n /\ 1 \in 1 .. l /\ k + 1 = k + l
      BY ONLY <1>112, <3>11
    <3>21. body[a + 1] = w[1]
      BY ONLY <1>11, <3>2
    <3>3. body[k] = e[i]
      BY ONLY <3>1, <3>2, <3>21
    <3>31. k \in Nat /\ Len(body) \in Nat /\ k <= Len(body)
      BY ONLY <1>112, <1>113, <3>2
    <3>32. body[k] \notin {"\"", "\\"}
      BY ONLY <2>2, <3>3
    <3>4. QuotedStep(body, from, k) = TextAfter(<<body[k]>>, from[k + 1])
      BY <3>31, <3>32, QuotedStepIs
    <3>41. from[k] = QuotedStep(body, from, k)
      BY <3>31 DEF QuotedLoop
    <3>42. from[k + 1] = [next |-> stop, text |-> tail]
      BY ONLY <1>9, <3>2
    <3>5. from[k] = TextAfter(<<e[i]>>, [next |-> stop, text |-> tail])
      BY ONLY <3>3, <3>4, <3>41, <3>42
    <3> QED
      BY <3>5, TextBefore
  <2> QED
    BY <2>1, <2>2
<1>13. SubSeq(e, i, m) = <<e[i]>> \o tail
  BY <1>3, SuffixCons DEF m, tail
<1> QED
  BY <1>12, <1>13 DEF ReadFrom, k, m, stop

\* A quoted element is read to its closing quote, as the text it was.
LEMMA QuotedReads ==
  ASSUME NEW body, NEW p, NEW e, NEW at, Spelled(body, p, e, at), at[1] = 0
  PROVE  Quoted(body, p + 1) = [next |-> p + at[Len(e) + 1] + 2, text |-> e]
<1> DEFINE m == Len(e)
<1>1. m \in Nat /\ Len(body) \in Nat /\ p \in Nat
  BY SeqFacts DEF Spelled
<1>2. PICK from : /\ QuotedLoop(body, from)
                  /\ \A i : Quoted(body, i) = from[i]
  <2>1. PICK from : /\ from = [k \in Nat |-> QuotedStep(body, from, k)]
                    /\ \A i : Quoted(body, i) = from[i]
    BY <1>1, QuotedRecursion
  <2>2. QuotedLoop(body, from)
    BY <2>1 DEF QuotedLoop
  <2> QED
    BY <2>1, <2>2
<1> DEFINE S == {i \in Nat : ReadFrom(from, p, e, at, i)}
<1>3. m + 1 \in S
  <2>1. m + 1 \in Nat
    BY <1>1
  <2> QED
    BY <1>2, <2>1, QuoteCloses
<1>4. ASSUME NEW i \in 1 .. m, i + 1 \in S
      PROVE  i \in S
  <2>1. i \in Nat
    BY <1>1
  <2> QED
    BY <1>2, <1>4, <2>1, QuoteGoesOn
<1>5. 1 \in S
  <2> HIDE DEF S, m
  <2> QED
    BY ONLY <1>1, <1>3, <1>4, Backwards
<1>6. ReadFrom(from, p, e, at, 1)
  BY <1>5
<1>7. p + at[1] + 1 = p + 1 /\ SubSeq(e, 1, m) = e
  <2>1. p + 0 + 1 = p + 1
    BY <1>1
  <2>2. SubSeq(e, 1, m) = e
    BY SuffixEnds DEF Spelled, m
  <2> QED
    BY <2>1, <2>2
<1>8. Quoted(body, p + 1) = from[p + at[1] + 1]
  BY <1>2, <1>7
<1> QED
  BY <1>6, <1>7, <1>8 DEF ReadFrom, m

-----------------------------------------------------------------------------
(* Elements of an array, with quotes and without.                          *)

\* A comma is where the text before it, which has none, ends.
LEMMA CommaPlace ==
  ASSUME NEW n \in Nat, NEW p \in Nat, NEW l \in Nat, p + l <= n,
         NEW C, NEW stop \in p + 1 .. n + 1,
         stop = n + 1 \/ stop \in C, \A k \in p + 1 .. stop - 1 : k \notin C,
         p + l = n \/ p + l + 1 \in C, \A i \in 1 .. l : p + i \notin C
  PROVE  stop = p + l + 1
<1>1. ~(stop < p + l + 1)
  <2> SUFFICES ASSUME stop < p + l + 1 PROVE FALSE
    OBVIOUS
  <2>1. stop - p \in 1 .. l /\ stop = p + (stop - p) /\ stop # n + 1
    OBVIOUS
  <2>2. p + (stop - p) \notin C
    BY <2>1
  <2> QED
    BY <2>1, <2>2
<1>2. ~(stop > p + l + 1)
  <2> SUFFICES ASSUME stop > p + l + 1 PROVE FALSE
    OBVIOUS
  <2>1. p + l + 1 \in p + 1 .. stop - 1 /\ p + l # n
    OBVIOUS
  <2> QED
    BY <2>1
<1> QED
  BY <1>1, <1>2

\* The body has, after its first p characters, the text w as array_out writes
\* it without quotes, and then a comma or its end.
Plain(body, p, w) ==
  /\ IsSeq(body) /\ IsSeq(w) /\ p \in Nat /\ At(body, p, w)
  /\ \A i \in 1 .. Len(w) : w[i] # ","
  /\ p + Len(w) = Len(body) \/ body[p + Len(w) + 1] = ","

\* An unquoted element is read to the comma after it, or to the end.
LEMMA UnquotedReads ==
  ASSUME NEW body, NEW p, NEW w, Plain(body, p, w)
  PROVE  Unquoted(body, p + 1) = [next |-> p + Len(w) + 1, text |-> w]
<1> DEFINE n == Len(body)
           l == Len(w)
           r == Unquoted(body, p + 1)
           stop == r.next
<1>0. IsSeq(w) /\ IsSeq(body)
  BY DEF Plain
<1>1. n \in Nat /\ l \in Nat /\ p \in Nat
  BY SeqFacts DEF Plain
<1>2. p + l <= n /\ \A i \in 1 .. l : body[p + i] = w[i]
  BY DEF Plain, At
<1>3. \A i \in 1 .. l : body[p + i] # ","
  BY <1>2 DEF Plain
<1>4. p + l = n \/ body[p + l + 1] = ","
  BY DEF Plain
<1>5. r = [next |-> stop, text |-> r.text]
  BY DEF Unquoted
<1> HIDE DEF n, l
<1>6. p + 1 \in Nat /\ p + 1 <= n + 1
  BY <1>1, <1>2
<1> HIDE DEF r, stop
<1>7. /\ stop \in p + 1 .. n + 1
      /\ stop = n + 1 \/ body[stop] = ","
      /\ \A k \in p + 1 .. stop - 1 : body[k] # ","
  BY ONLY <1>1, <1>6, UnquotedEnds DEF n, r, stop
<1>71. r.text = SubSeq(body, p + 1, stop - 1)
  BY ONLY <1>1, <1>6, UnquotedEnds DEF n, r, stop
<1>72. stop \in p + 1 .. n + 1
  BY ONLY <1>7
<1>8. stop = p + l + 1
  <2> DEFINE C == {k \in Nat : body[k] = ","}
  <2>0. \A k \in Nat : k \in C <=> body[k] = ","
    OBVIOUS
  <2> HIDE DEF C
  <2>1. stop \in Nat
    BY ONLY <1>1, <1>72
  <2>11. p + l + 1 \in Nat
    BY ONLY <1>1
  <2>12. \A k \in p + 1 .. stop - 1 : k \in Nat
    BY ONLY <1>1, <2>1
  <2>13. \A i \in 1 .. l : p + i \in Nat
    BY ONLY <1>1
  <2>2. stop = n + 1 \/ stop \in C
    BY ONLY <1>7, <2>0, <2>1
  <2>3. \A k \in p + 1 .. stop - 1 : k \notin C
    BY ONLY <1>7, <2>0, <2>12
  <2>4. p + l = n \/ p + l + 1 \in C
    BY ONLY <1>4, <2>0, <2>11
  <2>5. \A i \in 1 .. l : p + i \notin C
    BY ONLY <1>3, <2>0, <2>13
  <2>6. p + l <= n
    BY ONLY <1>2
  <2> QED
    BY ONLY <1>1, <1>72, <2>2, <2>3, <2>4, <2>5, <2>6, CommaPlace
<1>9. SubSeq(body, p + 1, p + l) = w
  <2> DEFINE a == p + 1
             b == p + l
             t == SubSeq(body, a, b)
  <2>1. a \in 1 .. n + 1 /\ b \in a - 1 .. n
    BY ONLY <1>1, <1>2
  <2>2. b - a + 1 = l /\ \A k \in 1 .. l : a + k - 1 = p + k
    BY ONLY <1>1
  <2> HIDE DEF a, b
  <2>3. IsSeq(t) /\ Len(t) = b - a + 1 /\ \A k \in 1 .. b - a + 1 : t[k] = body[a + k - 1]
    BY <1>0, <2>1, SubSeqOf DEF n
  <2> HIDE DEF t
  <2>4. Len(t) = l /\ \A k \in 1 .. l : t[k] = body[a + k - 1]
    BY ONLY <2>2, <2>3
  <2>5. \A k \in 1 .. l : t[k] = w[k]
    BY ONLY <1>2, <2>2, <2>4
  <2>6. t = w
    BY ONLY <1>0, <2>3, <2>4, <2>5, SeqsEqual DEF l
  <2> QED
    BY <2>6 DEF t, a, b
<1>10. r.text = w
  <2>1. stop - 1 = p + l
    BY ONLY <1>1, <1>8
  <2> QED
    BY <1>71, <1>9, <2>1
<1> QED
  BY <1>5, <1>8, <1>10 DEF r, l

\* A text between two characters.
Between(x, q, y) == <<x>> \o q \o <<y>>

\* It has the two and, between them, its own characters.
LEMMA Enclosed ==
  ASSUME NEW x, NEW y, NEW q, IsSeq(q)
  PROVE  /\ IsSeq(Between(x, q, y)) /\ Len(Between(x, q, y)) = Len(q) + 2 /\ Len(q) \in Nat
         /\ Between(x, q, y)[1] = x /\ Between(x, q, y)[Len(q) + 2] = y
         /\ \A k \in 1 .. Len(q) : Between(x, q, y)[k + 1] = q[k]
<1> DEFINE b == <<x>>
           c == <<y>>
           d == b \o q
           o == d \o c
           n == Len(q)
<1>1. n \in Nat
  BY SeqFacts
<1>2. /\ IsSeq(b) /\ Len(b) = 1 /\ b[1] = x
      /\ IsSeq(c) /\ Len(c) = 1 /\ c[1] = y
  BY SeqOfOne
<1> HIDE DEF b, c, n, d, o
<1>3. IsSeq(b) /\ IsSeq(c)
  BY <1>2
<1>4. /\ IsSeq(d) /\ Len(d) = Len(b) + Len(q) /\ \A k \in 1 .. Len(b) : d[k] = b[k]
      /\ \A k \in 1 .. Len(q) : d[Len(b) + k] = q[k]
  BY <1>3, ConcatSeq DEF d
<1>5. /\ IsSeq(d) /\ Len(d) = 1 + n /\ \A k \in 1 .. 1 : d[k] = b[k]
      /\ \A k \in 1 .. n : d[1 + k] = q[k]
  BY ONLY <1>2, <1>4 DEF n
<1>6. IsSeq(d)
  BY <1>5
<1>7. /\ IsSeq(o) /\ Len(o) = Len(d) + Len(c)
      /\ \A k \in 1 .. Len(d) : o[k] = d[k]
      /\ \A k \in 1 .. Len(c) : o[Len(d) + k] = c[k]
  BY <1>3, <1>6, ConcatSeq DEF o
<1>8. /\ IsSeq(o) /\ Len(o) = 1 + n + 1
      /\ \A k \in 1 .. 1 + n : o[k] = d[k]
      /\ \A k \in 1 .. 1 : o[1 + n + k] = c[k]
  BY ONLY <1>2, <1>5, <1>7
<1>9. 1 \in 1 .. 1 /\ 1 \in 1 .. 1 + n /\ 1 + n + 1 = n + 2
  BY ONLY <1>1
<1>10. Len(o) = n + 2 /\ o[1] = x /\ o[n + 2] = y
  BY ONLY <1>2, <1>5, <1>8, <1>9
<1>11. ASSUME NEW k \in 1 .. n
       PROVE  o[k + 1] = q[k]
  <2>1. 1 + k \in 1 .. 1 + n /\ 1 + k = k + 1
    BY ONLY <1>1, <1>11
  <2>2. o[1 + k] = d[1 + k] /\ d[1 + k] = q[k]
    BY ONLY <1>5, <1>8, <1>11, <2>1
  <2> QED
    BY <2>1, <2>2
<1>12. /\ IsSeq(o) /\ Len(o) = n + 2 /\ n \in Nat
       /\ o[1] = x /\ o[n + 2] = y
       /\ \A k \in 1 .. n : o[k + 1] = q[k]
  BY ONLY <1>1, <1>8, <1>10, <1>11
<1> QED
  BY ONLY <1>12 DEF Between, o, d, b, c, n

\* What is between them.
LEMMA Inside ==
  ASSUME NEW x, NEW y, NEW q, IsSeq(q)
  PROVE  SubSeq(Between(x, q, y), 2, Len(Between(x, q, y)) - 1) = q
<1> DEFINE o == Between(x, q, y)
           n == Len(q)
           l == Len(o)
           h == l - 1
           t == SubSeq(o, 2, h)
<1>1. IsSeq(o) /\ l = n + 2 /\ n \in Nat /\ \A k \in 1 .. n : o[k + 1] = q[k]
  BY Enclosed
<1> HIDE DEF o, n, l
<1>2. n \in Nat /\ l = n + 2
  BY <1>1
<1>3. 2 \in 1 .. l + 1 /\ h \in 2 - 1 .. l /\ h - 2 + 1 = n /\ \A k \in 1 .. n : 2 + k - 1 = k + 1
  BY ONLY <1>2
<1> HIDE DEF h
<1>4. IsSeq(t) /\ Len(t) = h - 2 + 1 /\ \A k \in 1 .. h - 2 + 1 : t[k] = o[2 + k - 1]
  BY <1>1, <1>3, SubSeqOf DEF l
<1> HIDE DEF t
<1>5. Len(t) = n /\ \A k \in 1 .. n : t[k] = q[k]
  <2>1. Len(t) = n /\ \A k \in 1 .. n : t[k] = o[2 + k - 1]
    BY ONLY <1>3, <1>4
  <2> QED
    BY ONLY <1>1, <1>3, <2>1
<1>6. t = q
  BY <1>4, <1>5, SeqsEqual DEF n
<1> QED
  BY <1>6 DEF t, h, l, o

\* The characters of a text as they stand between quotes.
EscapedAll(e) == FlattenSeq([i \in DOMAIN e |-> Escaped(e[i])])

\* Offsets at of the characters of e in the text q in which they are escaped.
Offsets(q, e, at) ==
  /\ at \in [1 .. Len(e) + 1 -> Nat] /\ at[1] = 0 /\ at[Len(e) + 1] = Len(q)
  /\ \A i \in 1 .. Len(e) : at[i + 1] = at[i] + Len(Escaped(e[i])) /\ At(q, at[i], Escaped(e[i]))

\* Every character has its place.
LEMMA EscapedAllIs ==
  ASSUME NEW e, IsSeq(e)
  PROVE  IsSeq(EscapedAll(e)) /\ Len(EscapedAll(e)) \in Nat /\ \E at : Offsets(EscapedAll(e), e, at)
<1> DEFINE seqs == [i \in DOMAIN e |-> Escaped(e[i])]
           q    == EscapedAll(e)
<1>1. Len(e) \in Nat /\ DOMAIN e = 1 .. Len(e)
  BY SeqFacts
<1>2. \A i \in 1 .. Len(e) : seqs[i] = Escaped(e[i])
  BY <1>1
<1>3. IsSeq(seqs) /\ Len(seqs) = Len(e)
  <2>1. seqs = [i \in 1 .. Len(e) |-> seqs[i]]
    BY <1>1
  <2> HIDE DEF seqs
  <2> QED
    BY ONLY <1>1, <2>1, IsSeqOf
<1>4. q = FlattenSeq(seqs)
  BY DEF EscapedAll
<1> HIDE DEF seqs, q
<1>5. \A i \in 1 .. Len(seqs) : IsSeq(seqs[i])
  <2> SUFFICES ASSUME NEW i \in 1 .. Len(e) PROVE IsSeq(Escaped(e[i]))
    BY <1>2, <1>3
  <2> QED
    BY EscapedIs
<1>6. /\ IsSeq(q)
      /\ \E at \in [1 .. Len(seqs) + 1 -> Nat] :
           /\ at[1] = 0 /\ at[Len(seqs) + 1] = Len(q)
           /\ \A i \in 1 .. Len(seqs) : at[i + 1] = at[i] + Len(seqs[i]) /\ At(q, at[i], seqs[i])
  BY ONLY <1>3, <1>4, <1>5, FlattenParts
<1>7. Len(q) \in Nat
  BY ONLY <1>6, SeqFacts
<1>8. PICK at \in [1 .. Len(e) + 1 -> Nat] :
           /\ at[1] = 0 /\ at[Len(e) + 1] = Len(q)
           /\ \A i \in 1 .. Len(e) : at[i + 1] = at[i] + Len(seqs[i]) /\ At(q, at[i], seqs[i])
  BY ONLY <1>3, <1>6
<1>9. Offsets(q, e, at)
  BY ONLY <1>2, <1>8 DEF Offsets
<1> QED
  BY <1>6, <1>7, <1>9 DEF q

\* A part of a part is a part.
LEMMA AtWithin ==
  ASSUME NEW text, NEW part, NEW sub, NEW p \in Nat, NEW q \in Nat,
         Len(text) \in Nat, Len(part) \in Nat, Len(sub) \in Nat,
         At(text, p, part), At(part, q, sub)
  PROVE  At(text, p + q, sub)
<1> DEFINE n == Len(text)
           m == Len(part)
           l == Len(sub)
<1>1. p + m <= n /\ \A k \in 1 .. m : text[p + k] = part[k]
  BY DEF At
<1>2. q + l <= m /\ \A k \in 1 .. l : part[q + k] = sub[k]
  BY DEF At
<1>3. n \in Nat /\ m \in Nat /\ l \in Nat
  OBVIOUS
<1> HIDE DEF n, m, l
<1>4. p + m <= n /\ q + l <= m
  BY ONLY <1>1, <1>2
<1>5. p + q + l <= n
  BY <1>3, <1>4
<1>6. \A k \in 1 .. l : q + k \in 1 .. m /\ p + (q + k) = p + q + k
  BY <1>3, <1>4
<1>7. \A k \in 1 .. l : text[p + q + k] = sub[k]
  BY ONLY <1>1, <1>2, <1>6
<1> QED
  BY <1>5, <1>7 DEF At, n, l

\* The body has, after its first p characters, the element e as array_out
\* writes it, and then a comma or its end.
ElementHere(body, p, e) ==
  /\ IsSeq(body) /\ p \in Nat
  /\ e = Null \/ IsSeq(e)
  /\ At(body, p, ElementOut(e))
  /\ p + Len(ElementOut(e)) = Len(body) \/ body[p + Len(ElementOut(e)) + 1] = ","

\* What the loop reads there: the element, or that it is NULL.
ReadAs(body, p, e) ==
  LET r == ElementAt(body, p + 1)
      l == Len(ElementOut(e))
  IN /\ l \in Nat \ {0} /\ IsSeq(ElementOut(e))
     /\ body[p + 1] # "{"
     /\ r.next = p + l + 1
     /\ IsNullElement(body, p + 1, r) <=> e = Null
     /\ e # Null => r.text = e

\* A NULL is read as NULL.
LEMMA NullReads ==
  ASSUME NEW body, NEW p, NEW e, ElementHere(body, p, e), e = Null
  PROVE  ReadAs(body, p, e)
<1> DEFINE w == <<"NULL">>
<1>1. ElementOut(e) = w
  BY DEF ElementOut
<1>2. IsSeq(w) /\ Len(w) = 1 /\ w[1] = "NULL"
  BY SeqOfOne
<1>3. p \in Nat /\ IsSeq(body) /\ At(body, p, w) /\ (p + Len(w) = Len(body) \/ body[p + Len(w) + 1] = ",")
  BY <1>1 DEF ElementHere
<1>4. \A i \in 1 .. Len(w) : w[i] # ","
  <2>1. \A i \in 1 .. 1 : i = 1
    OBVIOUS
  <2> QED
    BY <1>2, <2>1
<1> HIDE DEF w
<1>5. Plain(body, p, w)
  BY <1>2, <1>3, <1>4 DEF Plain
<1>6. body[p + 1] = "NULL"
  <2>1. 1 \in 1 .. 1
    OBVIOUS
  <2> QED
    BY <1>2, <1>3, <2>1 DEF At
<1>7. ElementAt(body, p + 1) = [next |-> p + Len(w) + 1, text |-> w]
  <2>1. body[p + 1] # "\""
    BY <1>6
  <2> QED
    BY <1>5, <2>1, UnquotedReads DEF ElementAt
<1>8. IsNullElement(body, p + 1, ElementAt(body, p + 1))
  BY <1>6, <1>7 DEF IsNullElement, w
<1>9. body[p + 1] # "{"
  BY <1>6
<1>10. Len(w) \in Nat \ {0}
  BY <1>2
<1>11. ElementAt(body, p + 1).next = p + Len(w) + 1
  BY <1>7
<1> QED
  BY <1>1, <1>2, <1>8, <1>9, <1>10, <1>11 DEF ReadAs

\* An element without quotes is read as it is, and never as NULL.
LEMMA PlainReads ==
  ASSUME NEW body, NEW p, NEW e, ElementHere(body, p, e), e # Null, ~NeedsQuotes(e)
  PROVE  ReadAs(body, p, e)
<1>1. ElementOut(e) = e
  BY DEF ElementOut
<1>2. /\ IsSeq(e) /\ p \in Nat /\ IsSeq(body) /\ At(body, p, e)
      /\ p + Len(e) = Len(body) \/ body[p + Len(e) + 1] = ","
  BY <1>1 DEF ElementHere
<1>3. Len(e) \in Nat /\ DOMAIN e = 1 .. Len(e)
  BY <1>2, SeqFacts
<1>4. e # <<>> /\ e # <<"NULL">> /\ \A i \in 1 .. Len(e) : e[i] \notin Special
  BY <1>3 DEF NeedsQuotes
<1>5. Len(e) # 0
  BY <1>2, <1>4, SeqOfNone
<1>6. 1 \in 1 .. Len(e) /\ Len(e) \in Nat \ {0}
  BY <1>3, <1>5
<1>7. body[p + 1] = e[1]
  BY <1>2, <1>6 DEF At
<1>8. body[p + 1] # "{" /\ body[p + 1] # "\""
  <2>1. e[1] \notin Special
    BY <1>4, <1>6
  <2> QED
    BY <1>7, <2>1 DEF Special
<1>9. \A i \in 1 .. Len(e) : e[i] # ","
  BY <1>4 DEF Special
<1>10. Plain(body, p, e)
  BY <1>2, <1>9 DEF Plain
<1>11. ElementAt(body, p + 1) = [next |-> p + Len(e) + 1, text |-> e]
  BY <1>8, <1>10, UnquotedReads DEF ElementAt
<1>12. ElementAt(body, p + 1).next = p + Len(e) + 1 /\ ElementAt(body, p + 1).text = e
  BY <1>11
<1>13. ~IsNullElement(body, p + 1, ElementAt(body, p + 1))
  BY <1>4, <1>12 DEF IsNullElement
<1> QED
  BY <1>1, <1>2, <1>6, <1>8, <1>12, <1>13 DEF ReadAs

\* An element in quotes is read as it was, and never as NULL.
LEMMA QuotedElementReads ==
  ASSUME NEW body, NEW p, NEW e, ElementHere(body, p, e), e # Null, NeedsQuotes(e)
  PROVE  ReadAs(body, p, e)
<1> DEFINE q == EscapedAll(e)
           c == "\""
           o == Between(c, q, c)
           n == Len(q)
           m == Len(e)
           l == Len(o)
<1>1. ElementOut(e) = o
  BY DEF ElementOut, EscapedAll, Between
<1>2. IsSeq(e) /\ p \in Nat /\ IsSeq(body) /\ At(body, p, o)
  BY <1>1 DEF ElementHere
<1>3. IsSeq(q) /\ \E at : Offsets(q, e, at)
  BY <1>2, EscapedAllIs
<1>4. PICK at : Offsets(q, e, at)
  BY <1>3
<1> HIDE DEF q
<1>5. /\ IsSeq(o) /\ l = n + 2 /\ n \in Nat
      /\ o[1] = "\"" /\ o[n + 2] = "\"" /\ \A k \in 1 .. n : o[k + 1] = q[k]
  <2>1. IsSeq(q)
    BY <1>3
  <2> HIDE DEF c
  <2>2. /\ IsSeq(o) /\ l = n + 2 /\ n \in Nat
        /\ o[1] = c /\ o[n + 2] = c /\ \A k \in 1 .. n : o[k + 1] = q[k]
    BY ONLY <2>1, Enclosed
  <2> QED
    BY ONLY <2>2 DEF c
<1> HIDE DEF o, n, m, l
<1>6. m \in Nat /\ Len(body) \in Nat
  BY <1>2, SeqFacts DEF m
<1>61. n \in Nat
  BY <1>5
<1>62. l = n + 2
  BY <1>5
<1>64. l \in Nat \ {0}
  BY ONLY <1>61, <1>62
<1>63. p + (n + 2) <= Len(body) /\ \A k \in 1 .. n + 2 : body[p + k] = o[k]
  BY ONLY <1>2, <1>62 DEF At, l
<1>7. at \in [1 .. m + 1 -> Nat] /\ at[1] = 0 /\ at[m + 1] = n
      /\ \A i \in 1 .. m : at[i + 1] = at[i] + Len(Escaped(e[i])) /\ At(q, at[i], Escaped(e[i]))
  BY ONLY <1>4 DEF Offsets, m, n
<1>8. At(o, 1, q)
  <2>1. 1 + n <= n + 2 /\ \A k \in 1 .. n : 1 + k = k + 1
    BY ONLY <1>61
  <2>2. \A k \in 1 .. n : o[1 + k] = q[k]
    BY ONLY <1>5, <2>1
  <2>3. 1 + n <= l
    BY ONLY <1>62, <2>1
  <2> QED
    BY ONLY <2>2, <2>3 DEF At, n, l
<1>9. Spelled(body, p + 1, e, at)
  <2>1. At(body, p + 1, q)
    <3>1. p \in Nat /\ 1 \in Nat /\ At(body, p, o)
      BY <1>2
    <3>2. Len(o) \in Nat
      BY ONLY <1>64 DEF l
    <3> QED
      BY ONLY <1>6, <1>61, <1>8, <3>1, <3>2, AtWithin DEF n
  <2>2. ASSUME NEW i \in 1 .. m
        PROVE  At(body, p + 1 + at[i], Escaped(e[i]))
    <3>1. at[i] \in Nat
      <4>1. i \in 1 .. m + 1
        BY <1>6
      <4> QED
        BY <1>7, <4>1
    <3>2. Len(Escaped(e[i])) \in Nat
      <4>1. Len(Escaped(e[i])) \in {1, 2}
        BY EscapedIs
      <4> QED
        BY ONLY <4>1
    <3>3. At(q, at[i], Escaped(e[i]))
      BY <1>7
    <3>4. p + 1 \in Nat
      BY <1>2
    <3> QED
      BY ONLY <1>6, <1>61, <2>1, <3>1, <3>2, <3>3, <3>4, AtWithin DEF n
  <2>3. p + 1 \in Nat /\ p + 1 + n + 1 <= Len(body) /\ n + 2 \in 1 .. n + 2 /\ p + 1 + n + 1 = p + (n + 2)
    <3>1. p \in Nat /\ p + (n + 2) <= Len(body)
      BY <1>2, <1>63
    <3> QED
      BY ONLY <1>6, <1>61, <3>1
  <2>4. body[p + 1 + n + 1] = "\""
    BY ONLY <1>5, <1>63, <2>3
  <2> QED
    BY ONLY <1>2, <1>7, <2>2, <2>3, <2>4 DEF Spelled, m
<1>10. Quoted(body, p + 1 + 1) = [next |-> p + 1 + n + 2, text |-> e]
  BY ONLY <1>7, <1>9, QuotedReads DEF m
<1>11. body[p + 1] = "\""
  <2>1. 1 \in 1 .. n + 2
    BY ONLY <1>61
  <2> QED
    BY ONLY <1>5, <1>63, <2>1
<1>12. p + 1 + n + 2 = p + l + 1
  <2>1. p + 1 + n + 2 = p + (n + 2) + 1
    BY ONLY <1>2, <1>61
  <2> QED
    BY ONLY <1>62, <2>1
<1>13. ElementAt(body, p + 1) = [next |-> p + l + 1, text |-> e]
  BY ONLY <1>10, <1>11, <1>12 DEF ElementAt
<1>14. ElementAt(body, p + 1).next = p + l + 1 /\ ElementAt(body, p + 1).text = e
  BY ONLY <1>13
<1>15. ~IsNullElement(body, p + 1, ElementAt(body, p + 1))
  BY ONLY <1>11 DEF IsNullElement
<1>16. body[p + 1] # "{"
  BY ONLY <1>11
<1>17. IsSeq(o) /\ e # Null
  BY <1>5
<1> QED
  BY ONLY <1>1, <1>64, <1>14, <1>15, <1>16, <1>17 DEF ReadAs, l

\* The element that is written is the element that is read.
LEMMA ElementReads ==
  ASSUME NEW body, NEW p, NEW e, ElementHere(body, p, e)
  PROVE  ReadAs(body, p, e)
BY NullReads, PlainReads, QuotedElementReads

-----------------------------------------------------------------------------
(* The loop over the elements, and the whole array.                        *)

\* from is the function that Elements defines.
ElementsLoop(body, from) == \A k \in Nat : from[k] = ElementsStep(body, from, k)

\* The elements x before those of r.
ElementBefore(x, r) == [r EXCEPT !.elems = x \o @]

\* What the loop gives for the elements of a list.
ListOf(elems) == [ok |-> TRUE, elems |-> elems]

\* An element before the rest of the list.
LEMMA ListBefore ==
  ASSUME NEW x, NEW elems
  PROVE  ElementBefore(x, ListOf(elems)) = ListOf(x \o elems)
<1> DEFINE r == ListOf(elems)
           y == x \o r.elems
<1>1. r = [ok |-> TRUE, elems |-> elems]
  BY DEF ListOf
<1>2. r.elems = elems
  BY <1>1
<1> HIDE DEF r, y
<1>3. [r EXCEPT !.elems = y] = [ok |-> TRUE, elems |-> y]
  <2> DEFINE o == TRUE
  <2>1. r = [ok |-> o, elems |-> elems]
    BY <1>1
  <2> HIDE DEF o
  <2>2. [r EXCEPT !.elems = y] = [ok |-> o, elems |-> y]
    BY <2>1
  <2> QED
    BY <2>2 DEF o
<1>4. ElementBefore(x, r) = ListOf(y)
  BY <1>3 DEF ElementBefore, ListOf, y
<1> QED
  BY <1>2, <1>4 DEF r, y

\* The element r at k is neither an array nor unterminated.
EndsWell(body, k, r) ==
  /\ Len(body) \in Nat /\ k \in Nat /\ k <= Len(body)
  /\ r = ElementAt(body, k) /\ body[k] # "{"
  /\ r.next \in Nat /\ r.next <= Len(body) + 1
  /\ r.next = Len(body) + 1 \/ body[r.next] = ","

\* What the step at k makes of the element r and of the rest.
Took(body, from, k, r, rest) ==
  /\ IsNullElement(body, k, r) \/ ~rest.ok => ElementsStep(body, from, k) = Malformed
  /\ ~IsNullElement(body, k, r) /\ rest.ok =>
       ElementsStep(body, from, k) = ElementBefore(<<r.text>>, rest)

\* The step at such an element.
LEMMA ElementsStepIs ==
  ASSUME NEW body, NEW from, NEW k, NEW r, EndsWell(body, k, r)
  PROVE  Took(body, from, k, r, from[r.next + 1])
<1> DEFINE n == Len(body)
           stop == r.next
<1>1. ~(k > n) /\ ~(stop > n + 1) /\ (stop <= n => stop # n + 1)
  <2>1. n \in Nat /\ k \in Nat /\ k <= n /\ stop \in Nat /\ stop <= n + 1
    BY DEF EndsWell
  <2> HIDE DEF n, stop
  <2> QED
    BY ONLY <2>1
<1>2. stop = n + 1 \/ body[stop] = ","
  BY DEF EndsWell
<1>3. body[k] # "{" /\ r = ElementAt(body, k)
  BY DEF EndsWell
<1> HIDE DEF n, stop
<1>4. ~(stop <= n /\ body[stop] # ",")
  BY ONLY <1>1, <1>2
<1>5. ElementsStep(body, from, k) =
        IF IsNullElement(body, k, r) \/ ~from[stop + 1].ok THEN Malformed
        ELSE ElementBefore(<<r.text>>, from[stop + 1])
  BY ONLY <1>1, <1>3, <1>4 DEF ElementsStep, ElementBefore, n, stop
<1> QED
  BY ONLY <1>5 DEF Took, stop

\* At an element with a brace the text is malformed.
LEMMA BraceIsMalformed ==
  ASSUME NEW body, Len(body) \in Nat \ {0}, body[1] = "{"
  PROVE  Elements(body) = Malformed
<1> DEFINE n == Len(body)
<1>1. ~(1 > n) /\ n \in Nat
  <2>1. n \in Nat \ {0}
    OBVIOUS
  <2> HIDE DEF n
  <2> QED
    BY ONLY <2>1
<1>2. PICK from : /\ from = [i \in Nat |-> ElementsStep(body, from, i)]
                  /\ Elements(body) = from[1]
  BY <1>1, ElementsRecursion
<1>3. from[1] = ElementsStep(body, from, 1)
  BY <1>2
<1>4. ElementsStep(body, from, 1) = Malformed
  BY <1>1 DEF ElementsStep
<1> QED
  BY <1>2, <1>3, <1>4

\* The body is the elements in their order with a comma after each but the
\* last: the i-th after the first pos[i] characters.
Listed(body, elems, pos) ==
  /\ IsSeq(body) /\ IsSeq(elems) /\ pos \in [1 .. Len(elems) + 1 -> Nat]
  /\ pos[Len(elems) + 1] = Len(body) + 1
  /\ \A i \in 1 .. Len(elems) : /\ ElementHere(body, pos[i], elems[i])
                                /\ pos[i + 1] = pos[i] + Len(ElementOut(elems[i])) + 1

\* One of the elements from the i-th on is NULL.
HasNull(elems, i) == \E j \in i .. Len(elems) : elems[j] = Null

\* What the loop gives at the i-th element: the elements from there on, or an
\* error if one of them is NULL.
ListFrom(from, elems, pos, i) ==
  /\ HasNull(elems, i) => from[pos[i] + 1] = Malformed
  /\ ~HasNull(elems, i) => from[pos[i] + 1] = ListOf(SubSeq(elems, i, Len(elems)))

\* After the last element the list is empty.
LEMMA ListEnds ==
  ASSUME NEW body, NEW elems, NEW pos, Listed(body, elems, pos),
         NEW from, ElementsLoop(body, from)
  PROVE  ListFrom(from, elems, pos, Len(elems) + 1)
<1> DEFINE m == Len(elems)
           n == Len(body)
           k == pos[m + 1] + 1
<1>1. IsSeq(body) /\ IsSeq(elems) /\ pos[m + 1] = n + 1
  BY DEF Listed
<1>2. m \in Nat /\ n \in Nat
  BY <1>1, SeqFacts
<1>3. SubSeq(elems, m + 1, m) = <<>>
  BY <1>1, SuffixEnds
<1> HIDE DEF m, n
<1>4. k \in Nat /\ k > n
  <2>1. n + 1 + 1 \in Nat /\ n + 1 + 1 > n
    BY ONLY <1>2
  <2> QED
    BY <1>1, <2>1
<1> HIDE DEF k
<1>5. from[k] = ListOf(<<>>)
  <2>1. from[k] = ElementsStep(body, from, k)
    BY <1>4 DEF ElementsLoop
  <2>2. k > Len(body)
    BY <1>4 DEF n
  <2> QED
    BY <2>1, <2>2 DEF ElementsStep, ListOf
<1>6. ~HasNull(elems, m + 1)
  <2>1. \A j \in m + 1 .. m : FALSE
    BY ONLY <1>2
  <2> QED
    BY <2>1 DEF HasNull, m
<1> QED
  BY <1>3, <1>5, <1>6 DEF ListFrom, k, m

\* An element is put before what the loop gives for those after it.
LEMMA ListGoesOn ==
  ASSUME NEW body, NEW elems, NEW pos, Listed(body, elems, pos),
         NEW from, ElementsLoop(body, from),
         NEW i \in 1 .. Len(elems), ListFrom(from, elems, pos, i + 1)
  PROVE  ListFrom(from, elems, pos, i)
<1> DEFINE m == Len(elems)
           n == Len(body)
           e == elems[i]
           l == Len(ElementOut(e))
           p == pos[i]
           k == p + 1
           r == ElementAt(body, k)
           stop == r.next
           rest == from[stop + 1]
           tail == SubSeq(elems, i + 1, m)
<1>1. IsSeq(body) /\ IsSeq(elems)
  BY DEF Listed
<1>2. m \in Nat /\ n \in Nat
  BY <1>1, SeqFacts
<1>3. i \in 1 .. m
  OBVIOUS
<1>4. ElementHere(body, p, e) /\ pos[i + 1] = p + l + 1
  BY DEF Listed
<1>5. ReadAs(body, p, e)
  BY <1>4, ElementReads
<1>6. p \in Nat /\ At(body, p, ElementOut(e)) /\ (p + l = n \/ body[p + l + 1] = ",")
  BY <1>4 DEF ElementHere
<1>61. p \in Nat
  BY <1>6
<1>62. p + l = n \/ body[p + l + 1] = ","
  BY <1>6
<1>63. p + l <= n
  BY <1>6 DEF At
<1>7. /\ stop = p + l + 1 /\ body[k] # "{"
      /\ IsNullElement(body, k, r) <=> e = Null
      /\ e # Null => r.text = e
  BY <1>5 DEF ReadAs
<1>71. l \in Nat \ {0}
  BY <1>5 DEF ReadAs
<1>72. stop = p + l + 1
  BY <1>7
<1>8. ListFrom(from, elems, pos, i + 1)
  OBVIOUS
<1>9. pos[i + 1] = stop
  BY <1>4, <1>7
<1>10. /\ HasNull(elems, i + 1) => rest = Malformed
       /\ ~HasNull(elems, i + 1) => rest = ListOf(tail)
  BY <1>8, <1>9 DEF ListFrom
<1>11. HasNull(elems, i) <=> (e = Null \/ HasNull(elems, i + 1))
  <2>1. \A j : j \in i .. m <=> j = i \/ j \in i + 1 .. m
    <3> HIDE DEF m
    <3> QED
      BY ONLY <1>2, <1>3
  <2> QED
    BY <2>1 DEF HasNull
<1>12. from[k] = ElementsStep(body, from, k)
  <2>1. k \in Nat
    BY <1>61
  <2> QED
    BY <2>1 DEF ElementsLoop
<1>13. SubSeq(elems, i, m) = <<e>> \o tail
  BY <1>1, SuffixCons
<1>131. /\ HasNull(elems, i) => from[k] = Malformed
        /\ ~HasNull(elems, i) => from[k] = ListOf(SubSeq(elems, i, m))
        <=> ListFrom(from, elems, pos, i)
  BY DEF ListFrom
<1> HIDE DEF m, n, e, l, p, k, r, stop, rest, tail
<1>14. k \in Nat /\ k <= n /\ stop \in Nat /\ stop <= n + 1 /\ (p + l = n => stop = n + 1)
  BY ONLY <1>2, <1>61, <1>63, <1>71, <1>72 DEF k
<1>15. stop = n + 1 \/ body[stop] = ","
  BY ONLY <1>14, <1>62, <1>72
<1>16. Took(body, from, k, r, rest)
  <2>1. r = ElementAt(body, k) /\ body[k] # "{"
    BY <1>7 DEF r
  <2>2. r.next \in Nat /\ r.next <= Len(body) + 1 /\ (r.next = Len(body) + 1 \/ body[r.next] = ",")
    BY ONLY <1>14, <1>15 DEF stop, n
  <2>3. Len(body) \in Nat /\ k \in Nat /\ k <= Len(body)
    BY ONLY <1>2, <1>14 DEF n
  <2>4. EndsWell(body, k, r)
    BY ONLY <2>1, <2>2, <2>3 DEF EndsWell
  <2>5. Took(body, from, k, r, from[r.next + 1])
    BY ONLY <2>4, ElementsStepIs
  <2> QED
    BY ONLY <2>5 DEF rest, stop
<1>17. CASE HasNull(elems, i)
  <2>1. IsNullElement(body, k, r) \/ ~rest.ok
    <3>1. Malformed.ok = FALSE
      BY DEF Malformed
    <3> QED
      BY <1>7, <1>10, <1>11, <1>17, <3>1
  <2> QED
    BY <1>12, <1>16, <1>17, <1>131, <2>1 DEF Took
<1>18. CASE ~HasNull(elems, i)
  <2>1. e # Null /\ rest = ListOf(tail)
    BY <1>10, <1>11, <1>18
  <2>2. rest.ok
    BY <2>1 DEF ListOf
  <2>3. from[k] = ElementBefore(<<e>>, ListOf(tail))
    BY <1>7, <1>12, <1>16, <2>1, <2>2 DEF Took
  <2>4. ElementBefore(<<e>>, ListOf(tail)) = ListOf(<<e>> \o tail)
    BY ListBefore
  <2> QED
    BY <1>13, <1>18, <1>131, <2>3, <2>4
<1> QED
  BY <1>17, <1>18

\* The loop over a list of elements.
LEMMA ListRead ==
  ASSUME NEW body, NEW elems, NEW pos, Listed(body, elems, pos), pos[1] = 0
  PROVE  /\ HasNull(elems, 1) => Elements(body) = Malformed
         /\ ~HasNull(elems, 1) => Elements(body) = ListOf(elems)
<1> DEFINE m == Len(elems)
<1>1. IsSeq(body) /\ IsSeq(elems)
  BY DEF Listed
<1>2. m \in Nat /\ Len(body) \in Nat
  BY <1>1, SeqFacts
<1>3. PICK from : ElementsLoop(body, from) /\ Elements(body) = from[1]
  <2>1. PICK from : /\ from = [i \in Nat |-> ElementsStep(body, from, i)]
                    /\ Elements(body) = from[1]
    BY <1>2, ElementsRecursion
  <2>2. ElementsLoop(body, from)
    BY <2>1 DEF ElementsLoop
  <2> QED
    BY <2>1, <2>2
<1> DEFINE S == {i \in Nat : ListFrom(from, elems, pos, i)}
<1>4. m + 1 \in S
  <2>1. m + 1 \in Nat
    BY <1>2
  <2> QED
    BY <1>3, <2>1, ListEnds
<1>5. ASSUME NEW i \in 1 .. m, i + 1 \in S
      PROVE  i \in S
  <2>1. i \in Nat
    BY <1>2
  <2> QED
    BY <1>3, <1>5, <2>1, ListGoesOn
<1>6. 1 \in S
  <2>1. m \in Nat
    BY <1>2
  <2> HIDE DEF S, m
  <2> QED
    BY ONLY <2>1, <1>4, <1>5, Backwards
<1>7. ListFrom(from, elems, pos, 1)
  BY <1>6
<1>8. SubSeq(elems, 1, m) = elems /\ pos[1] + 1 = 1
  BY <1>1, SuffixEnds
<1> QED
  BY <1>3, <1>7, <1>8 DEF ListFrom

\* No element is written as nothing.
LEMMA ElementOutIs ==
  ASSUME NEW e, e = Null \/ IsSeq(e)
  PROVE  IsSeq(ElementOut(e)) /\ Len(ElementOut(e)) \in Nat
<1>1. CASE e = Null
  <2>1. ElementOut(e) = <<"NULL">>
    BY <1>1 DEF ElementOut
  <2>2. IsSeq(<<"NULL">>)
    BY SeqOfOne
  <2> QED
    BY <2>1, <2>2, SeqFacts
<1>2. CASE e # Null /\ ~NeedsQuotes(e)
  <2>1. ElementOut(e) = e /\ IsSeq(e)
    BY <1>2 DEF ElementOut
  <2> QED
    BY <2>1, SeqFacts
<1>3. CASE e # Null /\ NeedsQuotes(e)
  <2> DEFINE c == "\""
             q == EscapedAll(e)
  <2>1. ElementOut(e) = Between(c, q, c)
    BY <1>3 DEF ElementOut, EscapedAll, Between
  <2>2. IsSeq(q)
    BY <1>3, EscapedAllIs
  <2> HIDE DEF c, q
  <2>3. IsSeq(Between(c, q, c))
    BY ONLY <2>2, Enclosed
  <2> QED
    BY <2>1, <2>3, SeqFacts
<1> QED
  BY <1>1, <1>2, <1>3

\* The comma before an element of a row.
Comma(i) == IF i = 1 THEN <<>> ELSE <<",">>
\* The element and its comma.
Part(elems, i) == Comma(i) \o ElementOut(elems[i])

\* The length of the comma.
CommaLen(i) == IF i = 1 THEN 0 ELSE 1

\* Where the element is in its part.
LEMMA PartIs ==
  ASSUME NEW elems, AllTexts(elems), NEW i \in 1 .. Len(elems)
  PROVE  /\ IsSeq(Part(elems, i)) /\ Len(Part(elems, i)) \in Nat
         /\ Len(Part(elems, i)) = CommaLen(i) + Len(ElementOut(elems[i]))
         /\ At(Part(elems, i), CommaLen(i), ElementOut(elems[i]))
         /\ i # 1 => Part(elems, i)[1] = ","
<1> DEFINE c == Comma(i)
           o == ElementOut(elems[i])
           p == Part(elems, i)
           d == CommaLen(i)
           l == Len(o)
<1>1. IsSeq(c) /\ Len(c) = d /\ d \in Nat
  <2>1. CASE i = 1
    BY <2>1, SeqOfNone DEF Comma, CommaLen
  <2>2. CASE i # 1
    <3>1. c = <<",">> /\ d = 1
      BY <2>2 DEF Comma, CommaLen
    <3> HIDE DEF c, d
    <3> QED
      BY <3>1, SeqOfOne
  <2> QED
    BY <2>1, <2>2
<1>2. i # 1 => c[1] = "," /\ 1 \in 1 .. d
  <2> SUFFICES ASSUME i # 1 PROVE c[1] = "," /\ 1 \in 1 .. d
    OBVIOUS
  <2> DEFINE v == ","
  <2>1. c = <<v>> /\ d = 1
    BY DEF Comma, CommaLen
  <2>2. 1 \in 1 .. 1
    OBVIOUS
  <2> HIDE DEF c, d, v
  <2>3. c[1] = v
    BY ONLY <2>1, SeqOfOne
  <2> QED
    BY <2>1, <2>2, <2>3 DEF v
<1>3. IsSeq(o) /\ l \in Nat
  BY ElementOutIs DEF AllTexts
<1>4. p = c \o o
  BY DEF Part
<1> HIDE DEF c, o, p, d, l
<1>5. /\ IsSeq(p) /\ Len(p) = Len(c) + Len(o)
      /\ \A k \in 1 .. Len(c) : p[k] = c[k]
      /\ \A k \in 1 .. Len(o) : p[Len(c) + k] = o[k]
  <2>1. IsSeq(c) /\ IsSeq(o)
    BY <1>1, <1>3
  <2> QED
    BY ONLY <2>1, <1>4, ConcatSeq
<1>6. /\ Len(p) = d + l
      /\ \A k \in 1 .. d : p[k] = c[k]
      /\ \A k \in 1 .. l : p[d + k] = o[k]
  BY ONLY <1>1, <1>5 DEF l
<1>7. d + l \in Nat /\ d + l <= d + l
  BY ONLY <1>1, <1>3
<1>8. At(p, d, o)
  BY ONLY <1>6, <1>7 DEF At, l
<1>9. i # 1 => p[1] = ","
  BY ONLY <1>2, <1>6
<1>10. Len(p) \in Nat
  BY ONLY <1>6, <1>7
<1> QED
  BY ONLY <1>5, <1>6, <1>8, <1>9, <1>10 DEF p, d, o, l

\* A row without its braces.
RowText(elems) == FlattenSeq([i \in DOMAIN elems |-> Part(elems, i)])

\* The ends at of the parts of a row.
Parted(text, elems, at) ==
  /\ at \in [1 .. Len(elems) + 1 -> Nat] /\ at[1] = 0 /\ at[Len(elems) + 1] = Len(text)
  /\ \A i \in 1 .. Len(elems) : at[i + 1] = at[i] + Len(Part(elems, i)) /\ At(text, at[i], Part(elems, i))

\* A row has such ends.
LEMMA RowParted ==
  ASSUME NEW elems, AllTexts(elems)
  PROVE  IsSeq(RowText(elems)) /\ \E at : Parted(RowText(elems), elems, at)
<1> DEFINE seqs == [i \in DOMAIN elems |-> Part(elems, i)]
           text == RowText(elems)
<1>1. IsSeq(elems)
  BY DEF AllTexts
<1>2. Len(elems) \in Nat /\ DOMAIN elems = 1 .. Len(elems)
  BY <1>1, SeqFacts
<1>3. \A i \in 1 .. Len(elems) : seqs[i] = Part(elems, i)
  BY <1>2
<1>4. IsSeq(seqs) /\ Len(seqs) = Len(elems)
  <2>1. seqs = [i \in 1 .. Len(elems) |-> seqs[i]]
    BY <1>2
  <2> HIDE DEF seqs
  <2> QED
    BY ONLY <1>2, <2>1, IsSeqOf
<1>5. text = FlattenSeq(seqs)
  BY DEF RowText
<1> HIDE DEF seqs, text
<1>6. \A i \in 1 .. Len(seqs) : IsSeq(seqs[i])
  BY <1>3, <1>4, PartIs
<1>7. /\ IsSeq(text)
      /\ \E at \in [1 .. Len(seqs) + 1 -> Nat] :
           /\ at[1] = 0 /\ at[Len(seqs) + 1] = Len(text)
           /\ \A i \in 1 .. Len(seqs) : at[i + 1] = at[i] + Len(seqs[i]) /\ At(text, at[i], seqs[i])
  BY ONLY <1>4, <1>5, <1>6, FlattenParts
<1>8. PICK at \in [1 .. Len(elems) + 1 -> Nat] :
           /\ at[1] = 0 /\ at[Len(elems) + 1] = Len(text)
           /\ \A i \in 1 .. Len(elems) : at[i + 1] = at[i] + Len(seqs[i]) /\ At(text, at[i], seqs[i])
  BY ONLY <1>4, <1>7
<1>9. Parted(text, elems, at)
  BY ONLY <1>3, <1>8 DEF Parted
<1> QED
  BY <1>7, <1>9 DEF text

\* The places of the elements of a row, each after its comma.
Places(elems, at) == [i \in 1 .. Len(elems) + 1 |-> at[i] + CommaLen(i)]

\* A row lists its elements at these places.
LEMMA RowListed ==
  ASSUME NEW elems, AllTexts(elems), elems # <<>>,
         NEW text, IsSeq(text), NEW at, Parted(text, elems, at)
  PROVE  Listed(text, elems, Places(elems, at)) /\ Places(elems, at)[1] = 0
<1> DEFINE m == Len(elems)
           n == Len(text)
           pos == Places(elems, at)
           l(i) == Len(ElementOut(elems[i]))
<1>1. IsSeq(elems) /\ IsSeq(text)
  BY DEF AllTexts
<1>2. m \in Nat /\ m # 0 /\ n \in Nat
  BY <1>1, SeqFacts, SeqOfNone
<1>3. \A i \in 1 .. m + 1 : pos[i] = at[i] + CommaLen(i)
  BY DEF Places
<1>31. pos = [i \in 1 .. m + 1 |-> pos[i]]
  BY DEF Places
<1>4. /\ at \in [1 .. m + 1 -> Nat] /\ at[1] = 0 /\ at[m + 1] = n
      /\ \A i \in 1 .. m : at[i + 1] = at[i] + Len(Part(elems, i)) /\ At(text, at[i], Part(elems, i))
  BY DEF Parted
<1>41. \A i \in 1 .. m + 1 : at[i] \in Nat
  BY <1>4
<1>5. CommaLen(1) = 0 /\ \A i : i # 1 => CommaLen(i) = 1
  BY DEF CommaLen
<1>51. \A i : CommaLen(i) \in Nat
  BY DEF CommaLen
<1>6. \A i \in 1 .. m : /\ Len(Part(elems, i)) = CommaLen(i) + l(i)
                        /\ At(Part(elems, i), CommaLen(i), ElementOut(elems[i]))
  BY PartIs
<1>61. \A i \in 1 .. m : i # 1 => Part(elems, i)[1] = ","
  BY PartIs
<1>62. \A i \in 1 .. m : IsSeq(elems[i]) \/ elems[i] = Null
  BY DEF AllTexts
<1>63. \A i \in 1 .. m : l(i) \in Nat
  BY <1>62, ElementOutIs
<1>64. \A i \in 1 .. m : Len(Part(elems, i)) \in Nat
  BY PartIs
<1> HIDE DEF m, n, pos, l
<1>7. m + 1 \in 1 .. m + 1 /\ m + 1 # 1 /\ 1 \in 1 .. m + 1
      /\ \A i \in 1 .. m : i \in 1 .. m + 1 /\ i + 1 \in 1 .. m + 1 /\ i + 1 # 1
  BY ONLY <1>2
<1>8. pos[1] = 0
  <2>1. pos[1] = at[1] + CommaLen(1)
    BY ONLY <1>3, <1>7
  <2>2. at[1] = 0 /\ CommaLen(1) = 0
    BY ONLY <1>4, <1>5
  <2> QED
    BY ONLY <2>1, <2>2
<1>9. pos[m + 1] = n + 1
  <2>1. pos[m + 1] = at[m + 1] + CommaLen(m + 1)
    BY ONLY <1>3, <1>7
  <2>2. at[m + 1] = n /\ CommaLen(m + 1) = 1
    BY ONLY <1>4, <1>5, <1>7
  <2> QED
    BY ONLY <2>1, <2>2
<1>10. \A i \in 1 .. m + 1 : pos[i] \in Nat
  BY ONLY <1>3, <1>41, <1>51
<1>11. ASSUME NEW i \in 1 .. m
       PROVE  pos[i] + l(i) = at[i + 1] /\ pos[i + 1] = pos[i] + l(i) + 1
  <2> DEFINE a == at[i]
             b == at[i + 1]
             c == CommaLen(i)
             k == l(i)
  <2>1. a \in Nat /\ b \in Nat /\ c \in Nat /\ k \in Nat
    BY <1>7, <1>41, <1>51, <1>63
  <2>2. b = a + (c + k)
    BY <1>4, <1>6
  <2>3. pos[i] = a + c /\ pos[i + 1] = b + 1
    BY <1>3, <1>5, <1>7
  <2> HIDE DEF a, b, c, k
  <2>4. a + c + k = b /\ b + 1 = a + c + k + 1
    BY ONLY <2>1, <2>2
  <2> QED
    BY ONLY <2>3, <2>4 DEF k, b
<1>12. ASSUME NEW i \in 1 .. m
       PROVE  ElementHere(text, pos[i], elems[i])
  <2> DEFINE part == Part(elems, i)
             o == ElementOut(elems[i])
             c == CommaLen(i)
  <2>1. At(text, at[i], part) /\ At(part, c, o)
    BY <1>4, <1>6
  <2>2. at[i] \in Nat /\ c \in Nat /\ Len(part) \in Nat
    BY <1>7, <1>41, <1>51, <1>64
  <2>3. Len(text) \in Nat /\ Len(o) \in Nat
    BY <1>2, <1>63 DEF n, l
  <2> HIDE DEF part, o, c
  <2>4. At(text, at[i] + c, o)
    BY ONLY <2>1, <2>2, <2>3, AtWithin
  <2>5. At(text, pos[i], o)
    BY <1>3, <1>7, <2>4 DEF c
  <2>6. pos[i] + l(i) = n \/ text[pos[i] + l(i) + 1] = ","
    <3>1. CASE i = m
      BY <1>4, <1>11, <3>1
    <3>2. CASE i # m
      <4>1. i + 1 \in 1 .. m /\ i + 1 # 1
        BY ONLY <1>2, <3>2
      <4> DEFINE next == Part(elems, i + 1)
      <4>2. At(text, at[i + 1], next) /\ next[1] = ","
        BY <1>4, <1>61, <4>1
      <4>3. Len(next) = 1 + l(i + 1)
        BY <1>5, <1>6, <4>1
      <4>4. l(i + 1) \in Nat
        BY <1>63, <4>1
      <4>5. 1 \in 1 .. 1 + l(i + 1)
        BY ONLY <4>4
      <4> HIDE DEF next
      <4>6. text[at[i + 1] + 1] = ","
        BY ONLY <4>2, <4>3, <4>5 DEF At
      <4> QED
        BY <1>11, <4>6
    <3> QED
      BY <3>1, <3>2
  <2>7. pos[i] \in Nat /\ (elems[i] = Null \/ IsSeq(elems[i]))
    BY <1>7, <1>10, <1>62
  <2> QED
    BY <1>1, <2>5, <2>6, <2>7 DEF ElementHere, o, l, n
<1>13. pos \in [1 .. m + 1 -> Nat]
  BY ONLY <1>10, <1>31
<1>14. \A i \in 1 .. m : ElementHere(text, pos[i], elems[i]) /\ pos[i + 1] = pos[i] + l(i) + 1
  BY ONLY <1>11, <1>12
<1>15. Listed(text, elems, pos)
  BY ONLY <1>1, <1>9, <1>13, <1>14 DEF Listed, m, n, l
<1> QED
  BY <1>8, <1>15 DEF pos

\* A text between braces is read as its elements.
LEMMA Braced ==
  ASSUME NEW text, IsSeq(text)
  PROVE  /\ IsSeq(Between("{", text, "}")) /\ Between("{", text, "}")[1] = "{"
         /\ Len(Between("{", text, "}")) \in Nat \ {0}
         /\ scanBytes(Between("{", text, "}")) = Elements(text)
<1> DEFINE x == "{"
           y == "}"
           o == Between(x, text, y)
           n == Len(text)
           l == Len(o)
<1>1. x = "{" /\ y = "}"
  OBVIOUS
<1> HIDE DEF x, y
<1>2. /\ IsSeq(o) /\ l = n + 2 /\ n \in Nat /\ o[1] = x /\ o[n + 2] = y
  BY ONLY IsSeq(text), Enclosed
<1>3. SubSeq(o, 2, l - 1) = text
  BY ONLY IsSeq(text), Inside
<1> HIDE DEF o, n, l
<1>4. l \in Nat \ {0} /\ ~(l < 2)
  BY ONLY <1>2
<1>5. scanBytes(o) = Elements(text)
  BY ONLY <1>1, <1>2, <1>3, <1>4 DEF scanBytes, l
<1> QED
  BY <1>1, <1>2, <1>4, <1>5 DEF o, l

\* A row of elements is read as they are, unless one is NULL.
LEMMA RowRead ==
  ASSUME NEW elems, AllTexts(elems)
  PROVE  /\ HasNull(elems, 1) => Elements(RowText(elems)) = Malformed
         /\ ~HasNull(elems, 1) => Elements(RowText(elems)) = ListOf(elems)
<1>1. IsSeq(RowText(elems)) /\ \E at : Parted(RowText(elems), elems, at)
  BY RowParted
<1>2. PICK at : Parted(RowText(elems), elems, at)
  BY <1>1
<1> DEFINE text == RowText(elems)
<1> HIDE DEF text
<1>3. IsSeq(text) /\ Parted(text, elems, at)
  BY <1>1, <1>2 DEF text
<1>4. CASE elems # <<>>
  <2>1. Listed(text, elems, Places(elems, at)) /\ Places(elems, at)[1] = 0
    BY <1>3, <1>4, RowListed
  <2> QED
    BY <2>1, ListRead DEF text
<1>5. CASE elems = <<>>
  <2>1. Len(elems) = 0 /\ at[Len(elems) + 1] = Len(text) /\ at[1] = 0
    BY <1>3, <1>5 DEF Parted
  <2>2. Len(text) = 0
    BY <2>1
  <2>3. ~HasNull(elems, 1)
    BY <2>1 DEF HasNull
  <2>4. PICK from : /\ from = [i \in Nat |-> ElementsStep(text, from, i)]
                    /\ Elements(text) = from[1]
    BY <2>2, ElementsRecursion
  <2>5. from[1] = ElementsStep(text, from, 1)
    BY <2>4
  <2>6. ElementsStep(text, from, 1) = ListOf(<<>>)
    BY <2>2 DEF ElementsStep, ListOf
  <2> QED
    BY <1>5, <2>3, <2>4, <2>5, <2>6 DEF text
<1> QED
  BY <1>4, <1>5

\* A row is written between braces.
LEMMA RowOutIs ==
  ASSUME NEW elems
  PROVE  RowOut(elems) = Between("{", RowText(elems), "}")
BY DEF RowOut, RowText, Part, Comma, Between

\* The array is a list of texts, with the subscripts it has by default.
Flat(a) == \/ a.elems = <<>>
           \/ a.depth = 1 /\ a.lower = 1 /\ \A i \in DOMAIN a.elems : a.elems[i] # Null

\* The text the server writes for an array is read as its elements, whatever
\* their characters, and refused if one is NULL, it has a second dimension or
\* its subscripts are written before it (array.go:35-93).
THEOREM ArrayRead ==
  ASSUME NEW a, AllTexts(a.elems), a.depth \in {1, 2}
  PROVE  /\ Flat(a) => scanBytes(ArrayOut(a)) = ListOf(a.elems)
         /\ ~Flat(a) => scanBytes(ArrayOut(a)) = Malformed
<1> DEFINE elems == a.elems
           row == RowOut(elems)
<1>1. IsSeq(elems)
  BY DEF AllTexts
<1>2. Len(elems) \in Nat /\ DOMAIN elems = 1 .. Len(elems)
  BY <1>1, SeqFacts
<1>3. HasNull(elems, 1) <=> \E i \in DOMAIN elems : elems[i] = Null
  BY <1>2 DEF HasNull
<1>4. IsSeq(RowText(elems))
  BY RowParted
<1>5. /\ HasNull(elems, 1) => Elements(RowText(elems)) = Malformed
      /\ ~HasNull(elems, 1) => Elements(RowText(elems)) = ListOf(elems)
  BY RowRead
<1>6. IsSeq(row) /\ row[1] = "{" /\ Len(row) \in Nat \ {0} /\ scanBytes(row) = Elements(RowText(elems))
  BY <1>4, Braced, RowOutIs
<1> DEFINE rest == IF a.depth = 2 THEN Between("{", row, "}") ELSE row
<1>7. ArrayOut(a) = IF elems = <<>> THEN row ELSE Subscripts(a) \o rest
  BY DEF ArrayOut, Between
<1>8. IsSeq(rest)
  BY <1>6, Braced
<1>9. CASE elems # <<>> /\ a.lower # 1
  <2> DEFINE subscripts == "[:]="
             brace == "{"
  <2>1. subscripts # brace
    OBVIOUS
  <2>2. ArrayOut(a) = <<subscripts>> \o rest
    BY <1>7, <1>9 DEF Subscripts
  <2> HIDE DEF subscripts, rest, elems
  <2>3. (<<subscripts>> \o rest)[1] = subscripts
    <3>1. IsSeq(<<subscripts>>) /\ 1 \in 1 .. Len(<<subscripts>>) /\ <<subscripts>>[1] = subscripts
      BY SeqOfOne
    <3> QED
      BY ONLY <1>8, <3>1, ConcatSeq
  <2>4. scanBytes(ArrayOut(a)) = Malformed
    BY <2>1, <2>2, <2>3 DEF scanBytes, brace
  <2>5. ~Flat(a)
    BY <1>9 DEF Flat, elems
  <2> QED
    BY <2>4, <2>5
<1>10. CASE elems # <<>> /\ a.lower = 1
  <2>1. ArrayOut(a) = rest
    <3>1. ArrayOut(a) = <<>> \o rest
      BY <1>7, <1>10 DEF Subscripts
    <3> HIDE DEF rest
    <3> QED
      BY <1>8, <3>1, NothingBefore
  <2>2. CASE a.depth = 2
    <3>1. scanBytes(ArrayOut(a)) = Elements(row)
      BY <1>6, <2>1, <2>2, Braced
    <3>2. Elements(row) = Malformed
      BY <1>6, BraceIsMalformed
    <3>3. ~Flat(a)
      BY <1>10, <2>2 DEF Flat
    <3> QED
      BY <3>1, <3>2, <3>3
  <2>3. CASE a.depth = 1
    <3>1. ArrayOut(a) = row
      BY <2>1, <2>3
    <3>2. Flat(a) <=> ~HasNull(elems, 1)
      BY <1>3, <1>10, <2>3 DEF Flat
    <3> QED
      BY <1>5, <1>6, <3>1, <3>2
  <2> QED
    BY <2>2, <2>3
<1>11. CASE elems = <<>>
  <2>1. ArrayOut(a) = row
    BY <1>7, <1>11
  <2>2. DOMAIN elems = {} /\ Flat(a)
    BY <1>11 DEF Flat
  <2>3. ~HasNull(elems, 1)
    BY <1>3, <2>2
  <2> QED
    BY <1>5, <1>6, <2>1, <2>2, <2>3
<1> QED
  BY <1>9, <1>10, <1>11

-----------------------------------------------------------------------------
(* Get of an array.                                                        *)

\* What is known of a Get of an array.
LEMMA ArrayCall ==
  ASSUME NEW c \in Calls, c.op = "Get", c.type = "array"
  PROVE  /\ c.validDest /\ ~isMappableStruct(c.type) /\ CellType(c.type, 1) = "array"
         /\ Len(c.rows) = 1 /\ c.rows # <<>> /\ Len(c.rows[1]) = 1
         /\ c.rows[1][1] = ArrayOut(c.truth) /\ c.rows[1][1] # Null
         /\ AllTexts(c.truth.elems) /\ c.truth.depth \in {1, 2}
<1> DEFINE v == ArrayOut(c.truth)
           row == <<v>>
<1>1. /\ c.validDest /\ "array" \notin StructTypes
      /\ AllTexts(c.truth.elems) /\ c.truth.depth \in {1, 2}
      /\ c.rows = <<row>> /\ v # Null
  BY ArrayAssumption
<1>2. ~isMappableStruct(c.type) /\ CellType(c.type, 1) = "array"
  BY <1>1 DEF isMappableStruct, CellType
<1> HIDE DEF v
<1>3. Len(row) = 1 /\ row[1] = v
  BY SeqOfOne
<1> HIDE DEF row
<1>4. Len(c.rows) = 1 /\ c.rows[1] = row
  BY <1>1, SeqOfOne
<1>5. c.rows # <<>>
  BY <1>4, SeqOfNone
<1> QED
  BY <1>1, <1>2, <1>3, <1>4, <1>5 DEF v

\* The array is scanned whole, if it can be read.
LEMMA ArrayScanned ==
  ASSUME IInv, call.op = "Get", call.type = "array", made > 0, pc = "scan"
  PROVE  /\ ~Unsettable /\ Len(Row) = 1
         /\ Good = IF Converted("array", call.rows[1][1]).ok THEN 1 ELSE 0
<1>1. call \in Calls /\ taken = 1
  BY DEF IInv, TypeOK, CountInv
<1>2. ~isMappableStruct(call.type) /\ CellType(call.type, 1) = "array" /\ Len(Row) = 1 /\ Row = call.rows[1]
  BY <1>1, ArrayCall DEF Row
<1>3. paths = <<>>
  BY <1>2 DEF IInv, PathInv
<1>4. ~Unsettable
  BY <1>2 DEF Unsettable
<1>5. CellOf(1) = 1
  BY <1>3 DEF CellOf
<1> DEFINE ok == Converted("array", call.rows[1][1]).ok
           stop(k) == /\ \A c \in 1 .. k : Converted(CellType(call.type, CellOf(c)), Row[c]).ok
                      /\ k < Len(Row) => ~Converted(CellType(call.type, CellOf(k + 1)), Row[k + 1]).ok
<1>6. Converted(CellType(call.type, CellOf(1)), Row[1]).ok <=> ok
  BY <1>2, <1>5
<1>7. (stop(1) <=> ok) /\ (stop(0) <=> ~ok) /\ 0 .. Len(Row) = {0, 1}
  BY <1>2, <1>6
<1>8. Good = CHOOSE k \in 0 .. Len(Row) : stop(k)
  BY DEF Good
<1> HIDE DEF stop, ok
<1>9. Good = IF ok THEN 1 ELSE 0
  BY <1>7, <1>8
<1> QED
  BY <1>2, <1>4, <1>9 DEF ok

\* Every step keeps what is known of a Get of an array.
LEMMA ArrayKeeps ==
  ASSUME IInv, ArrayInv, [ScanNext]_vars
  PROVE  ArrayInv'
<1> DEFINE read == Converted("array", call.rows[1][1])
           Answer(how, os) == IF read.ok THEN how = "nil" /\ os[1][1] = read.val ELSE how = "error"
<1>1. CASE \E c \in IF made = 0 THEN Calls ELSE Again : Begin(c)
  <2>1. PICK c \in IF made = 0 THEN Calls ELSE Again : Begin(c)
    BY <1>1
  <2>2. call' = c /\ (c.op = "Get" => pc' = "next")
    BY <2>1 DEF Begin
  <2> QED
    BY <2>2 DEF ArrayInv
<1>2. CASE RowsClosed
  BY <1>2 DEF RowsClosed, ArrayInv
<1>3. CASE UNCHANGED vars
  BY <1>3 DEF vars, ArrayInv
<1>4. CASE Step
  <2> SUFFICES ASSUME made > 0, call.op = "Get", call.type = "array", ~broken,
                      call' = call, broken' = broken
               PROVE  ArrayInv'
    BY <1>4 DEF ArrayInv, Step, Columns, NextRow, FirstRow, ScanRow, SecondRow
  <2>1. /\ call \in Calls /\ call.validDest /\ ~isMappableStruct(call.type)
        /\ CellType(call.type, 1) = "array" /\ Len(call.rows) = 1 /\ call.op # "Select"
    BY ArrayCall DEF IInv, TypeOK
  <2>2. pc = "second" => read.ok
    BY DEF ArrayInv
  <2>3. SUFFICES /\ pc' = "second" => read.ok
                 /\ pc' = "idle" => Answer(err', objects')
    BY DEF ArrayInv
  <2> HIDE DEF Answer, read
  <2>4. CASE Columns
    BY <2>1, <2>4 DEF Columns, IInv, PathInv
  <2>5. CASE NextRow
    BY <2>1, <2>5 DEF NextRow
  <2>6. CASE FirstRow
    <3>1. taken = 0
      BY <2>1, <2>6 DEF FirstRow, IInv, CountInv
    <3>2. MoreRows
      BY <2>1, <3>1 DEF MoreRows
    <3> QED
      BY <2>1, <2>6, <3>2 DEF FirstRow
  <2>7. CASE ScanRow
    <3>1. ~Unsettable /\ Len(Row) = 1 /\ Good = IF read.ok THEN 1 ELSE 0
      BY <2>7, ArrayScanned DEF ScanRow, read
    <3>2. CASE read.ok
      <4>1. ~(Good < Len(Row))
        BY <3>1, <3>2
      <4> QED
        BY <2>1, <2>7, <3>1, <3>2, <4>1 DEF ScanRow
    <3>3. CASE ~read.ok
      <4>1. Good < Len(Row)
        BY <3>1, <3>3
      <4> QED
        BY <2>1, <2>7, <3>1, <3>3, <4>1 DEF ScanRow, End, Answer
    <3> QED
      BY <3>2, <3>3
  <2>8. CASE SecondRow
    <3>1. pc = "second" /\ taken = 1
      BY <2>1, <2>8 DEF SecondRow, IInv, CountInv
    <3>2. objects[1][1] = read.val
      <4>1. Holds(call, objects[1], Base, call.rows[1])
        BY <2>1, <3>1 DEF IInv, ElementInv
      <4> QED
        BY <2>1, <4>1 DEF Holds, read
    <3>3. ~MoreRows
      BY <2>1, <3>1 DEF MoreRows
    <3>4. pc' = "idle" /\ err' = "nil" /\ objects' = objects
      BY <2>8, <3>3 DEF SecondRow, End, EndOfRows
    <3> QED
      BY <2>2, <3>1, <3>2, <3>4 DEF Answer
  <2> QED
    BY <1>4, <2>4, <2>5, <2>6, <2>7, <2>8 DEF Step
<1> QED
  BY <1>1, <1>2, <1>3, <1>4 DEF ScanNext

\* What a Get of an array ends with is the array of the server, or an error.
LEMMA ArrayTold ==
  ASSUME IInv, ArrayInv
  PROVE  ArrayArrives
<1> SUFFICES ASSUME Done, call.op = "Get", call.type = "array", ~broken
             PROVE  IF Flat(call.truth) THEN err = "nil" /\ objects[1][1] = call.truth.elems
                    ELSE err = "error"
  BY DEF ArrayArrives, Flat
<1> DEFINE a == call.truth
           v == call.rows[1][1]
           read == Converted("array", v)
<1>1. call \in Calls
  BY DEF IInv, TypeOK
<1>2. v = ArrayOut(a) /\ v # Null /\ AllTexts(a.elems) /\ a.depth \in {1, 2}
  BY <1>1, ArrayCall
<1>3. IF read.ok THEN err = "nil" /\ objects[1][1] = read.val ELSE err = "error"
  BY DEF ArrayInv, Done
<1> HIDE DEF a, v
<1>4. /\ Flat(a) => scanBytes(v) = ListOf(a.elems)
      /\ ~Flat(a) => scanBytes(v) = Malformed
  BY <1>2, ArrayRead
<1>5. read.ok = scanBytes(v).ok /\ read.val = scanBytes(v).elems
  BY <1>2 DEF Converted
<1> HIDE DEF read
<1>6. CASE Flat(a)
  <2>1. read.ok /\ read.val = a.elems
    BY <1>4, <1>5, <1>6 DEF ListOf
  <2> QED
    BY <1>3, <1>6, <2>1 DEF a
<1>7. CASE ~Flat(a)
  <2>1. ~read.ok
    BY <1>4, <1>5, <1>7 DEF Malformed
  <2> QED
    BY <1>3, <1>7, <2>1 DEF a
<1> QED
  BY <1>6, <1>7

-----------------------------------------------------------------------------
(* The theorems.                                                           *)

\* The destination begins empty.
LEMMA Initially ==
  ASSUME Init
  PROVE  IInv
<1>1. call \in Calls
  <2>1. \E c \in Calls : TRUE
    BY ScanAssumption
  <2> QED
    BY <2>1 DEF Init
<1>2. Len(call.rows) \in Nat /\ MaxCalls \in Nat
  BY <1>1, CallFacts, ScanAssumption
<1> QED
  <2>1. TypeOK /\ ObjectInv
    <3>1. 0 \in 0 .. MaxCalls /\ 0 \in 0 .. Len(call.rows) /\ 0 \in 0 .. Len(<<>>)
      BY <1>2, SeqOfNone
    <3>2. TypeOK
      BY <1>1, <3>1, SeqOfNone DEF Init, TypeOK
    <3>3. ObjectInv
      BY SeqOfNone DEF Init, ObjectInv
    <3> QED
      BY <3>2, <3>3
  <2>2. PathInv /\ CountInv /\ ErrorsSurface /\ RowsArrive
    BY DEF Init, PathInv, CountInv, ErrorsSurface, RowsArrive, Done
  <2>3. ElementInv
    BY DEF Init, ElementInv
  <2> QED
    BY <2>1, <2>2, <2>3 DEF IInv

\* Every step keeps the invariant.
LEMMA Inductive ==
  ASSUME IInv, [ScanNext]_vars
  PROVE  IInv'
<1>1. CASE \E c \in IF made = 0 THEN Calls ELSE Again : Begin(c)
  BY <1>1, BeginKeeps
<1>2. CASE RowsClosed
  BY <1>2, RowsClosedKeeps
<1>3. CASE Columns
  BY <1>3, ColumnsKeeps
<1>4. CASE NextRow
  BY <1>4, NextRowKeeps
<1>5. CASE FirstRow
  BY <1>5, FirstRowKeeps
<1>6. CASE ScanRow
  BY <1>6, ScanRowKeeps
<1>7. CASE SecondRow
  BY <1>7, SecondRowKeeps
<1>8. CASE UNCHANGED vars
  BY <1>8, Unmoved DEF vars, IInv, TypeOK
<1> QED
  BY <1>1, <1>2, <1>3, <1>4, <1>5, <1>6, <1>7, <1>8 DEF ScanNext, Step

\* The inductive invariant holds in every reachable state, for every set of
\* struct types and of calls, and any number of calls with one destination.
THEOREM Invariant == Spec => []IInv
<1>1. Init => IInv
  BY Initially
<1>2. IInv /\ [ScanNext]_vars => IInv'
  BY Inductive
<1> QED
  BY <1>1, <1>2, PTL DEF Spec

\* The variables of Get, Select and InitializeVersion keep their types.
THEOREM TypeCorrect == Spec => []TypeOK
<1>1. IInv => TypeOK
  BY DEF IInv
<1> QED
  BY <1>1, Invariant, PTL

\* A nil error means all the rows (scan.go:48, 91, 115).
THEOREM NoRowIsLost == Spec => []ErrorsSurface
<1>1. IInv => ErrorsSurface
  BY DEF IInv
<1> QED
  BY <1>1, Invariant, PTL

\* Every element has its own row, in the fields that own the columns, and an
\* element once appended does not change (scan.go:80-90, 104-114).
THEOREM RowsKeepTheirPlace == Spec => []RowsArrive
<1>1. IInv => RowsArrive
  BY DEF IInv
<1> QED
  BY <1>1, Invariant, PTL

\* The version InitializeVersion finds is the release of a server that tells it,
\* whatever versions its banner has beside it, whatever the destination held and
\* however the comparison is asked; the rest is refused, but for a compiler after
\* the marker of a server without a release (version.go:37-123).
THEOREM VersionFound == Spec => []VersionIsDatabases
<1>1. Init => VersionInv
  BY DEF Init, VersionInv
<1>2. IInv /\ VersionInv /\ [ScanNext]_vars => VersionInv'
  BY VersionKeeps
<1>3. IInv /\ VersionInv => VersionIsDatabases
  BY VersionTold
<1> QED
  BY <1>1, <1>2, <1>3, Invariant, PTL DEF Spec

\* A text[] of any length, of texts of any characters, arrives as the server
\* holds it; with a NULL, a second dimension, or subscripts that do not begin
\* with 1, it is refused (array.go:35-93).
THEOREM ArraysArrive == Spec => []ArrayArrives
<1>1. Init => ArrayInv
  BY DEF Init, ArrayInv
<1>2. IInv /\ ArrayInv /\ [ScanNext]_vars => ArrayInv'
  BY ArrayKeeps
<1>3. IInv /\ ArrayInv => ArrayArrives
  BY ArrayTold
<1> QED
  BY <1>1, <1>2, <1>3, Invariant, PTL DEF Spec
=============================================================================
