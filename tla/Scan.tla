-------------------------------- MODULE Scan --------------------------------
(***************************************************************************)
(* Get and Select of dbconn: scanOne and scanAll of dbconn/scan.go over    *)
(* the rows of one query, into a destination that the caller may use again *)
(* for the next call, and InitializeVersion, which is a Get and a parse.   *)
(*                                                                         *)
(* A struct type is the sequence of its visible fields.  An object is what *)
(* reflect.New makes: a cell for every field, or one cell for a type that  *)
(* is scanned whole.  The rows come from database/sql, which may close     *)
(* them at any moment because the context ends or the session is lost.     *)
(***************************************************************************)
EXTENDS Integers, Sequences, FiniteSets, StringArray, Version

CONSTANTS Fields,      \* the visible fields of every struct type
          LowerCase,   \* strings.ToLower on the names of columns
          Calls,       \* the calls a caller may make
          MaxCalls,    \* bound: calls made with one destination
          Again,       \* bound: the calls made with a destination already used
          Zero         \* the zero value of a cell

\* name: the field's name in lower case; tag: its db tag, or "";
\* depth: the length of its index path;
\* via: "value", or the kind of pointer on its path, of a type whose name is
\*      exported ("pointer") or not ("hiddenPointer");
\* container: it is itself an embedded struct;  exported;
\* type: "text", "nullable" or "array", what a column is converted to.
StructTypes == DOMAIN Fields
CellTypes   == {"text", "nullable", "array"}

IsSeq(s) == Len(s) \in Nat /\ s = [i \in 1 .. Len(s) |-> s[i]]

\* Every row has a value for every column.
ASSUME ScanAssumption ==
  /\ MaxCalls \in Nat
  /\ Calls # {} /\ Again \subseteq Calls
  /\ \A t \in StructTypes : \A i \in DOMAIN Fields[t] : i \in Nat /\ Fields[t][i].depth \in Nat
  /\ \A c \in Calls :
       /\ c.op \in {"Get", "Select", "Version"} /\ c.type \in StructTypes \cup CellTypes
       /\ IsSeq(c.cols) /\ IsSeq(c.rows)
       /\ \A k \in DOMAIN c.rows : IsSeq(c.rows[k]) /\ Len(c.rows[k]) = Len(c.cols)

VARIABLES
  call,       \* the current call
  made,       \* calls begun
  pc,         \* "idle", "next", "columns", "scan" or "second"
  broken,     \* the rows have been closed before their end
  taken,      \* rows that Next has stepped to
  paths,      \* the field of every column
  objects,    \* the objects made so far
  elem,       \* the object the next row goes to
  dest,       \* the elements of the caller's slice
  err,        \* how the call ended: "none" while it runs
  version,    \* the GPDBVersion of InitializeVersion
  kept        \* history: what the elements were when the call began

vars == <<call, made, pc, broken, taken, paths, objects, elem, dest, err, version, kept>>

-----------------------------------------------------------------------------
(* The mapping of columns to fields.                                       *)

\* The fields that may take a column, and the column's name for each.
Target(f)     == ~f.container /\ f.exported /\ f.tag # "-"
ColumnName(f) == IF f.tag = "" THEN f.name ELSE f.tag
Claims(type, name) ==
  {i \in DOMAIN Fields[type] : Target(Fields[type][i]) /\ ColumnName(Fields[type][i]) = name}

\* mutant: the first field that claims a name keeps it
FirstField(type, name) == CHOOSE i \in Claims(type, name) : \A j \in Claims(type, name) : i <= j

\* buildFieldMap: the first of the shallowest fields that claim a name.
FieldMap(type, name) ==
  LET depth(i) == Fields[type][i].depth
  IN CHOOSE i \in Claims(type, name) :
       \A j \in Claims(type, name) : depth(i) < depth(j) \/ (depth(i) = depth(j) /\ i <= j)

\* A struct without a field that may take a column is scanned whole, as a text.
isMappableStruct(type) == type \in StructTypes /\ \E i \in DOMAIN Fields[type] : Target(Fields[type][i])

\* The name under which a column is in the field map, as it is or in lower case.
KeyOf(type, col) == IF Claims(type, col) # {} THEN col ELSE LowerCase[col]

Cells(type) == IF isMappableStruct(type) THEN DOMAIN Fields[type] ELSE {1}
CellType(type, i) == IF isMappableStruct(type) THEN Fields[type][i].type
                     ELSE IF type \in StructTypes THEN "text" ELSE type

Blank(type) == [i \in Cells(type) |-> Zero]

\* An element of a slice of pointers is read through its pointer.
Value(e) == IF e.ptr THEN objects[e.obj] ELSE e.val

TypeOK ==
  /\ call \in Calls
  /\ made \in 0 .. MaxCalls
  /\ pc \in {"idle", "next", "columns", "scan", "second"}
  /\ broken \in BOOLEAN
  /\ taken \in 0 .. Len(call.rows)
  /\ \A c \in DOMAIN paths : paths[c] \in Cells(call.type)
  /\ elem \in 0 .. Len(objects)
  /\ \A i \in DOMAIN dest : dest[i].obj \in DOMAIN objects
  /\ err \in {"none", "nil", "norows", "multiple", "error", "panic"}
  /\ pc \in {"columns", "scan"} => call.op = "Select" \/ taken = 1

Init ==
  /\ call = CHOOSE c \in Calls : TRUE
  /\ made = 0
  /\ pc = "idle"
  /\ broken = FALSE
  /\ taken = 0
  /\ paths = <<>>
  /\ objects = <<>>
  /\ elem = 0
  /\ dest = <<>>
  /\ err = "none"
  /\ version = NoVersion
  /\ kept = <<>>

-----------------------------------------------------------------------------
(* Steps of a call.                                                        *)

End(how) == pc' = "idle" /\ err' = how

NewObject == Blank(call'.type)

\* The first call gets a new destination; a later one gets the same again.
Begin(c) ==
  /\ pc = "idle" /\ made < MaxCalls /\ err # "panic"
  /\ made' = made + 1
  /\ call' = c
  /\ broken' = FALSE /\ taken' = 0 /\ paths' = <<>>
  /\ version' = NoVersion
  /\ IF made = 0
       THEN /\ UNCHANGED <<dest, kept>>
            /\ IF c.op = "Select" THEN UNCHANGED <<objects, elem>>
                                  ELSE objects' = <<NewObject>> /\ elem' = 1
       ELSE /\ c.op = call.op /\ c.type = call.type
            /\ c.isPtr = call.isPtr /\ c.validDest = call.validDest
            /\ kept' = IF c.op = "Select" THEN [i \in DOMAIN dest |-> Value(dest[i])] ELSE objects
            /\ UNCHANGED <<dest, objects, elem>>
  /\ IF c.op = "Select" /\ ~c.validDest
       THEN End("error")
       ELSE /\ err' = "none"
            /\ pc' = IF c.op = "Select" /\ isMappableStruct(c.type) THEN "columns" ELSE "next"

\* The context of the call ends, or the session is lost.
RowsClosed ==
  /\ pc # "idle" /\ ~broken
  /\ broken' = TRUE
  /\ UNCHANGED <<call, made, pc, taken, paths, objects, elem, dest, err, version, kept>>

\* columnPaths
Columns ==
  /\ pc = "columns"
  /\ IF broken \/ \E c \in DOMAIN call.cols : Claims(call.type, KeyOf(call.type, call.cols[c])) = {}
       THEN End("error") /\ UNCHANGED paths
       ELSE /\ paths' = [c \in DOMAIN call.cols |->
                           FieldMap(call.type, KeyOf(call.type, call.cols[c]))]
            /\ pc' = IF call.op = "Select" THEN "next" ELSE "scan"
            /\ UNCHANGED err
  /\ UNCHANGED <<call, made, broken, taken, objects, elem, dest, version, kept>>

MoreRows == ~broken /\ taken < Len(call.rows)

\* mutant: rows.Err is not asked
EndUnchecked == End("nil")
\* Next has returned false: the rows are at their end, or were closed.
EndOfRows == End(IF broken THEN "error" ELSE "nil")

\* mutant: one element is made for all rows
OldElem == IF elem = 0 THEN objects' = Append(objects, NewObject) /\ elem' = Len(objects')
                       ELSE UNCHANGED <<objects, elem>>
NewElem == objects' = Append(objects, NewObject) /\ elem' = Len(objects')

\* The loop of scanAll.
NextRow ==
  /\ pc = "next" /\ call.op = "Select"
  /\ IF MoreRows
       THEN /\ taken' = taken + 1
            /\ pc' = "scan"
            /\ UNCHANGED <<call, err>>
            /\ NewElem
       ELSE EndOfRows /\ UNCHANGED <<call, taken, objects, elem>>
  /\ UNCHANGED <<made, broken, paths, dest, version, kept>>

\* mutant: a query without rows is scanned all the same
FirstRowTaken ==
  /\ pc = "next" /\ call.op # "Select"
  /\ taken' = (IF MoreRows THEN 1 ELSE 0)
  /\ IF ~call.validDest
       THEN End("error")
       ELSE /\ pc' = IF isMappableStruct(call.type) THEN "columns" ELSE "scan"
            /\ UNCHANGED err
  /\ UNCHANGED <<call, made, broken, paths, objects, elem, dest, version, kept>>

\* The first Next of scanOne; the destination is looked at after it.
FirstRow ==
  /\ pc = "next" /\ call.op # "Select"
  /\ IF MoreRows
       THEN /\ taken' = 1
            /\ IF ~call.validDest
                 THEN End("error")
                 ELSE /\ pc' = IF isMappableStruct(call.type) THEN "columns" ELSE "scan"
                      /\ UNCHANGED err
       ELSE End(IF broken THEN "error" ELSE "norows") /\ UNCHANGED taken
  /\ UNCHANGED <<call, made, broken, paths, objects, elem, dest, version, kept>>

-----------------------------------------------------------------------------
(* rows.Scan, external but for StringArray: it converts the columns one    *)
(* after the other, and stops at the first that fails.                     *)

\* The value of a cell of a type, or a failure.
Converted(type, v) ==
  CASE type = "array" /\ v # Null -> LET a == scanBytes(v) IN [ok |-> a.ok, val |-> a.elems]
    [] type = "text" /\ v = Null  -> [ok |-> FALSE, val |-> Zero]
    [] OTHER                      -> [ok |-> TRUE, val |-> v]

\* The cell of every column: its field, or the one cell of a type scanned whole.
CellOf(c) == IF paths # <<>> THEN paths[c] ELSE c

Row == call.rows[taken]

\* The columns before the first one that cannot be converted.
Good == CHOOSE k \in 0 .. Len(Row) :
          /\ \A c \in 1 .. k : Converted(CellType(call.type, CellOf(c)), Row[c]).ok
          /\ k < Len(Row) => ~Converted(CellType(call.type, CellOf(k + 1)), Row[k + 1]).ok

\* The cells of object o once the columns 1 .. k have been written, in order.
Filled(o, k) ==
  [i \in DOMAIN o |->
     LET cs == {c \in 1 .. k : CellOf(c) = i}
     IN IF cs = {} THEN o[i]
        ELSE Converted(CellType(call.type, i), Row[CHOOSE c \in cs : \A d \in cs : d <= c]).val]

\* fieldByIndexAlloc cannot set an embedded pointer of an unexported type.
Unsettable == isMappableStruct(call.type) /\ \E c \in DOMAIN paths :
                Fields[call.type][paths[c]].via = "hiddenPointer"

\* scanRowIntoStruct, or rows.Scan of the whole element, and, in scanAll, the
\* append of the element or of its pointer.
ScanRow ==
  /\ pc = "scan"
  /\ LET fits == isMappableStruct(call.type) \/ Len(Row) = 1 IN
     \/ /\ Unsettable
        /\ End("panic")
        /\ UNCHANGED <<objects, dest>>
     \/ /\ ~Unsettable /\ (broken \/ ~fits)
        /\ End("error")
        /\ UNCHANGED <<objects, dest>>
     \/ /\ ~Unsettable /\ ~broken /\ fits
        /\ objects' = [objects EXCEPT ![elem] = Filled(@, Good)]
        /\ IF Good < Len(Row)
             THEN End("error") /\ UNCHANGED dest
             ELSE /\ dest' = IF call.op # "Select" THEN dest
                             ELSE Append(dest, [ptr |-> call.isPtr, obj |-> elem, val |-> objects'[elem]])
                  /\ pc' = IF call.op = "Select" THEN "next" ELSE "second"
                  /\ UNCHANGED err
  /\ UNCHANGED <<call, made, broken, taken, paths, elem, version, kept>>

\* What InitializeVersion does with the row that Get has scanned.
InitializeVersion ==
  IF call.op = "Version" THEN ParseGPVersion(objects[elem][1]) ELSE NoVersion

\* The second Next of scanOne, after which InitializeVersion goes on.
SecondRow ==
  /\ pc = "second"
  /\ IF MoreRows
       THEN taken' = taken + 1 /\ End("multiple") /\ UNCHANGED version
       ELSE /\ version' = IF broken THEN version ELSE InitializeVersion
            /\ IF call.op = "Version" /\ ~broken /\ ~InitializeVersion.ok THEN End("error") ELSE EndOfRows
            /\ UNCHANGED taken
  /\ UNCHANGED <<call, made, broken, paths, objects, elem, dest, kept>>

Step == Columns \/ NextRow \/ FirstRow \/ ScanRow \/ SecondRow

ScanNext == \/ \E c \in IF made = 0 THEN Calls ELSE Again : Begin(c)
            \/ RowsClosed
            \/ Step

Spec == Init /\ [][ScanNext]_vars

-----------------------------------------------------------------------------
(* Properties.                                                             *)

Done == pc = "idle" /\ made > 0

\* No error means all the rows: a Select that returns nil has added one element
\* for each of them (scan.go:91, 115), a Get that does has found exactly one
\* (scan.go:48), and only a query without rows is told to have none, even if the
\* rows end early (scan.go:27).
ErrorsSurface ==
  Done => /\ err = "nil" => IF call.op = "Select"
                              THEN Len(dest) = Len(kept) + Len(call.rows)
                              ELSE Len(call.rows) = 1
          /\ err = "norows" => call.rows = <<>>
          /\ err = "multiple" => Len(call.rows) > 1

\* The fields that no field of the struct shadows for a column.
Owners(type, col) ==
  LET claims == Claims(type, KeyOf(type, col))
  IN {i \in claims : \A j \in claims : Fields[type][i].depth <= Fields[type][j].depth}

\* The object o is the object base with the row in it: every column is in a
\* field that owns it, unless a later column went to the same field, and all
\* other fields are as they were.
Holds(query, o, base, row) ==
  IF ~isMappableStruct(query.type)
    THEN o[1] = Converted(CellType(query.type, 1), row[1]).val
    ELSE LET owned(c) == Owners(query.type, query.cols[c])
             last(c)  == \A d \in c + 1 .. Len(row) : owned(d) \cap owned(c) = {}
         IN /\ \A c \in DOMAIN row : last(c) =>
                 \E i \in owned(c) : o[i] = Converted(CellType(query.type, i), row[c]).val
            /\ \A i \in DOMAIN o : (\A c \in DOMAIN row : i \notin owned(c)) => o[i] = base[i]

\* Elements keep their own rows: what an earlier call put into the slice stays,
\* after it come the rows of this call in order, whether it fails or not
\* (scan.go:80-90, 104-114), and no element changes when a later row is scanned
\* through the same scanArgs.
RowsArrive ==
  made > 0 =>
    /\ call.op = "Select" =>
         /\ Len(dest) >= Len(kept)
         /\ \A i \in DOMAIN kept : Value(dest[i]) = kept[i]
         /\ \A i \in Len(kept) + 1 .. Len(dest) :
              Holds(call, Value(dest[i]), Blank(call.type), call.rows[i - Len(kept)])
    /\ call.op = "Get" /\ Done /\ err = "nil" =>
         Holds(call, objects[1], IF kept = <<>> THEN Blank(call.type) ELSE kept[1], call.rows[1])

\* A text[] arrives as the server holds it: every list of texts does, whatever
\* characters they contain, and one that is not a list of texts, with a NULL or
\* with a second dimension, is refused and never shredded (array.go:46-88).
\* So is a list that does not begin with the subscript 1: the server writes its
\* subscripts before the brace, which array.go:36 does not read, although a
\* []string could hold the elements.
ArrayArrives ==
  Done /\ call.op = "Get" /\ call.type = "array" /\ ~broken =>
    LET a    == call.truth
        flat == \/ a.elems = <<>>
                \/ a.depth = 1 /\ a.lower = 1 /\ \A i \in DOMAIN a.elems : a.elems[i] # Null
    IN IF flat THEN err = "nil" /\ objects[1][1] = a.elems ELSE err = "error"

\* A server that tells its release has it found, whatever the versions of
\* PostgreSQL and of the compiler beside it; it is also at the head of
\* VersionString, from which callers derive the major version again
\* (version.go:70-77), and Is(t) holds for the targets that are a beginning of it
\* (version.go:105-123).  A release that semver refuses is an error.  Of a
\* server that tells none the answer is an error too, but for one case: if the
\* compiler stands after the marker, the first number of the compiler is taken
\* for the release (version.go:94).
VersionIsDatabases ==
  Done /\ call.op = "Version" /\ ~broken =>
    IF call.rows = <<>> THEN err = "norows"
    ELSE LET b == call.truth IN
         IF b.shape # "plain" /\ IsNumber(b.release)
           THEN /\ err = IF b.release.semver THEN "nil" ELSE "error"
                /\ version.trailer[1] = b.release
                /\ b.release.semver =>
                     /\ version.version = b.release.num
                     /\ \A k \in 1 .. 3 : LET t == SubSeq(b.release.num, 1, k) IN
                          /\ Is(version.version, t)
                          /\ ~Is(version.version, [t EXCEPT ![k] = @ + 1])
                          /\ Before(version.version, [t EXCEPT ![k] = @ + 1])
           ELSE err = "nil" => /\ b.shape = "inside"
                               /\ \E k \in DOMAIN b.compiler : version.trailer[1] = b.compiler[k]

\* A banner has one marker at most, and its release, if it is a number, has the
\* three components of a version.
Unmarked(t) == t # Markers[1] /\ t # Markers[2]
BannerOK(b) ==
  /\ b.shape \in {"inside", "after", "plain"}
  /\ b.marker \in {Markers[1], Markers[2]}
  /\ Unmarked(b.release) /\ (IsNumber(b.release) => b.release.num \in [1 .. 3 -> Nat])
  /\ IsSeq(b.postgres) /\ \A i \in DOMAIN b.postgres : Unmarked(b.postgres[i])
  /\ IsSeq(b.compiler) /\ \A i \in DOMAIN b.compiler : Unmarked(b.compiler[i])

\* The destination of InitializeVersion has one field that takes its column, and
\* the server answers with its banner, or with no row.
ASSUME VersionAssumption ==
  \A c \in Calls : c.op = "Version" =>
    /\ c.validDest /\ isMappableStruct(c.type)
    /\ c.cols = <<"versionstring">> /\ Claims(c.type, "versionstring") = {1}
    /\ Fields[c.type][1].via = "value" /\ Fields[c.type][1].type = "text"
    /\ \/ c.rows = <<>>
       \/ /\ BannerOK(c.truth)
          /\ c.rows = << <<BannerOut(c.truth)>> >> /\ BannerOut(c.truth) # Null

\* A list of texts, any of which may be NULL.
AllTexts(elems) == IsSeq(elems) /\ \A i \in 1 .. Len(elems) : elems[i] = Null \/ IsSeq(elems[i])

\* A Get of an array has one row and one column, with what the server writes
\* for the array truth.
ASSUME ArrayAssumption ==
  \A c \in Calls : c.op = "Get" /\ c.type = "array" =>
    /\ c.validDest /\ "array" \notin StructTypes
    /\ AllTexts(c.truth.elems) /\ c.truth.depth \in {1, 2} /\ c.truth.lower \in Int
    /\ c.rows = << <<ArrayOut(c.truth)>> >> /\ ArrayOut(c.truth) # Null

\* The comment on fieldByIndexAlloc: nil embedded struct pointers are allocated
\* instead of panicking on them.
NoPanic == err # "panic"

-----------------------------------------------------------------------------
(* The inductive invariant.                                                *)

\* The destination of a scanOne is the one object it has.
ObjectInv ==
  /\ IsSeq(objects) /\ IsSeq(dest) /\ IsSeq(kept)
  /\ \A o \in DOMAIN objects : DOMAIN objects[o] = Cells(call.type)
  /\ IF made = 0 THEN objects = <<>> /\ dest = <<>> /\ kept = <<>> /\ pc = "idle"
     ELSE call.op # "Select" => Len(objects) = 1 /\ elem = 1

\* Rows are scanned through fields that own the columns.
PathInv ==
  /\ pc = "columns" => isMappableStruct(call.type)
  /\ ~isMappableStruct(call.type) => paths = <<>>
  /\ isMappableStruct(call.type) /\ (pc = "scan" \/ (pc = "next" /\ call.op = "Select")) =>
       /\ DOMAIN paths = DOMAIN call.cols
       /\ \A c \in DOMAIN paths : paths[c] \in Owners(call.type, call.cols[c])

\* The elements of this call are those of the rows scanned so far.
CountInv ==
  made > 0 =>
    IF call.op = "Select"
      THEN /\ pc # "second"
           /\ pc = "columns" => taken = 0
           /\ pc = "scan" => taken > 0
           /\ pc \in {"columns", "next", "scan"} =>
                Len(dest) = Len(kept) + (IF pc = "scan" THEN taken - 1 ELSE taken)
           /\ Len(dest) \in Len(kept) .. Len(kept) + Len(call.rows)
      ELSE taken = IF pc \in {"columns", "scan", "second"} THEN 1 ELSE IF pc = "next" THEN 0 ELSE taken

\* What the row is scanned into: an object nobody has seen, or what the
\* destination held before the call.
Base == IF kept = <<>> THEN Blank(call.type) ELSE kept[1]

ElementInv ==
  IF call.op = "Select"
    THEN pc = "scan" => /\ elem \in DOMAIN objects /\ objects[elem] = Blank(call.type)
                        /\ \A i \in DOMAIN dest : dest[i].obj # elem
    ELSE /\ pc \in {"next", "columns", "scan"} => objects[1] = Base
         /\ pc = "second" => Holds(call, objects[1], Base, call.rows[1])

\* InitializeVersion parses the banner of the one row, whatever the destination
\* held, unless the rows are closed before their end.
VersionInv ==
  made > 0 /\ call.op = "Version" /\ ~broken =>
    /\ pc \notin {"next", "idle"} => call.rows # <<>>
    /\ pc = "idle" =>
         IF call.rows = <<>> THEN err = "norows"
         ELSE LET got == ParseGPVersion(call.rows[1][1])
              IN version = got /\ err = IF got.ok THEN "nil" ELSE "error"

\* A Get of an array goes on only if the array could be read, and ends with
\* what was read, unless the rows are closed before their end.
ArrayInv ==
  made > 0 /\ call.op = "Get" /\ call.type = "array" /\ ~broken =>
    LET read == Converted("array", call.rows[1][1])
    IN /\ pc = "second" => read.ok
       /\ pc = "idle" => IF read.ok THEN err = "nil" /\ objects[1][1] = read.val ELSE err = "error"

IInv == /\ TypeOK /\ ObjectInv /\ PathInv /\ CountInv /\ ElementInv
        /\ ErrorsSurface /\ RowsArrive
=============================================================================
