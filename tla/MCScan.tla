------------------------------- MODULE MCScan -------------------------------
(***************************************************************************)
(* Small instances of Scan: struct types that meet every rule of           *)
(* buildFieldMap, every array of at most two short texts, and banners of   *)
(* every shape version.go:51-78 describes.                                 *)
(***************************************************************************)
EXTENDS Scan

Field(name, type) == [name |-> name, tag |-> "", depth |-> 1, via |-> "value",
                      container |-> FALSE, exported |-> TRUE, type |-> type]
Embedded(via) == [Field("inner", "text") EXCEPT !.container = TRUE, !.exported = (via # "hiddenPointer")]
Promoted(name, tag, via) == [Field(name, "text") EXCEPT !.tag = tag, !.depth = 2, !.via = via]

MCFields ==
  [Plain   |-> << Field("id", "text"), Field("name", "nullable") >>,
   Tagged  |-> << Embedded("value"), Promoted("other", "name", "value"),
                  [Field("id", "text") EXCEPT !.tag = "-"],
                  [Field("secret", "text") EXCEPT !.exported = FALSE],
                  [Field("label", "text") EXCEPT !.tag = "name"],
                  [Field("key", "text") EXCEPT !.tag = "id"],
                  [Field("key2", "text") EXCEPT !.tag = "id"] >>,
   Pointer |-> << Embedded("pointer"), Promoted("id", "", "pointer"), Field("name", "nullable") >>,
   Hidden  |-> << Embedded("hiddenPointer"), Promoted("id", "", "hiddenPointer"), Field("name", "nullable") >>,
   GPDBVersion |-> << Field("versionstring", "text"), Field("semver", "text") >>,
   Time    |-> << [Field("wall", "text") EXCEPT !.exported = FALSE] >>]

MCLowerCase == [c \in {"id", "name", "ID", "extra", "versionstring"} |-> IF c = "ID" THEN "id" ELSE c]

Call(op, type, cols, rows) ==
  [op |-> op, type |-> type, isPtr |-> FALSE, validDest |-> TRUE,
   cols |-> cols, rows |-> rows, truth |-> <<>>]

Rows(row, values) == {<<>>} \cup {<<r>> : r \in row} \cup {<<r, s>> : r \in row, s \in values}

PairRows == Rows({<<"a", "b">>, <<"a", Null>>}, {<<"c", "d">>, <<Null, "d">>})
LoneRows == Rows({<<"a">>, <<Null>>}, {<<"c">>})

RowCalls ==
  LET pairs == {Call(op, type, cols, rows) :
                  op \in {"Get", "Select"}, type \in {"Plain", "Tagged", "Pointer", "Hidden", "text"},
                  cols \in {<<"id", "name">>, <<"ID", "name">>, <<"name", "name">>, <<"id", "extra">>},
                  rows \in PairRows}
      lone  == {Call(op, type, cols, rows) :
                  op \in {"Get", "Select"}, type \in {"Plain", "Tagged", "text", "nullable", "Time"},
                  cols \in {<<"id">>, <<"name">>}, rows \in LoneRows}
      valid == pairs \cup lone
  IN valid \cup {[c EXCEPT !.isPtr = TRUE] : c \in {d \in valid : d.op = "Select"}}
           \cup {[c EXCEPT !.validDest = FALSE] : c \in lone}

Char  == Special \cup {"a", "NULL"}
Texts == UNION {[1 .. k -> Char] : k \in 0 .. 2}
Short == {<<>>, <<"a">>, <<"NULL">>, <<"}">>, <<"\"">>, <<"\\">>, <<",">>, <<"{">>, Null}

Lists == {<<>>} \cup {<<x>> : x \in Texts \cup {Null}}
               \cup {<<x, y>> : x \in Texts, y \in Short} \cup {<<x, y>> : x \in Short, y \in Texts}
Arrays == {[depth |-> d, lower |-> 1, elems |-> e] : d \in {1, 2}, e \in Lists}
    \cup {[depth |-> d, lower |-> 0, elems |-> e] :
             d \in {1, 2}, e \in {<<>>} \cup {<<x, y>> : x, y \in Short}}

ArrayCalls == {[Call("Get", "array", <<"name">>, << <<ArrayOut(a)>> >>) EXCEPT !.truth = a] : a \in Arrays}

\* Banners of every shape and marker, with a release, with one that semver
\* refuses or without one, of a compiler with a version or without one.
Banners ==
  {[shape |-> shape, marker |-> m, release |-> release,
    postgres |-> <<Word("PostgreSQL"), Number(<<9, 4, 26>>)>>, compiler |-> <<Word("gcc"), gcc>>] :
     shape \in {"inside", "after", "plain"}, m \in {Markers[1], Markers[2]},
     release \in {Number(<<6, 28, 9>>), Number(<<19, 0, 0>>), Misspelt(<<6, 8, 1>>), Word("dev")},
     gcc \in {Number(<<11, 5, 0>>), Misspelt(<<11, 5, 1>>), Word("(GCC)")}}

VersionCalls ==
  {[Call("Version", "GPDBVersion", <<"versionstring">>, << <<BannerOut(b)>> >>) EXCEPT !.truth = b] : b \in Banners}
    \cup {Call("Version", "GPDBVersion", <<"versionstring">>, <<>>)}

FirstCalls   == RowCalls \cup ArrayCalls \cup VersionCalls
FurtherCalls == RowCalls \cup VersionCalls

MCCalls == FirstCalls
MCAgain == FurtherCalls
=============================================================================
