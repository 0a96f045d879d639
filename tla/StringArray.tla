----------------------------- MODULE StringArray -----------------------------
(***************************************************************************)
(* StringArray.Scan of dbconn/array.go, which reads the text the server    *)
(* writes for a text[], and, external to this code, array_out, which       *)
(* writes it.                                                              *)
(*                                                                         *)
(* Text is a sequence of characters.  A character is one of the five that  *)
(* have a meaning in an array literal, a space, the character "NULL" that  *)
(* stands for that word, or any other; "[:]=" stands for the subscripts    *)
(* that may come before a literal.                                         *)
(***************************************************************************)
EXTENDS Integers, Sequences, SequencesExt

CONSTANT Null      \* the SQL NULL

\* The characters for which an element is quoted.
Special == {",", "{", "}", "\"", "\\", " "}

-----------------------------------------------------------------------------
(* array_out.  An array is a record of its elements, each a text or Null,  *)
(* of its depth, which is 1, or 2 for an array with one row of elements,   *)
(* and of the subscript its first dimension begins with, by default 1.     *)

NeedsQuotes(text) == text = <<>> \/ text = <<"NULL">> \/ \E i \in DOMAIN text : text[i] \in Special

Escaped(ch) == IF ch \in {"\"", "\\"} THEN <<"\\", ch>> ELSE <<ch>>

ElementOut(e) ==
  IF e = Null THEN <<"NULL">>
  ELSE IF NeedsQuotes(e) THEN <<"\"">> \o FlattenSeq([i \in DOMAIN e |-> Escaped(e[i])]) \o <<"\"">>
  ELSE e

RowOut(elems) ==
  <<"{">> \o FlattenSeq([i \in DOMAIN elems |->
                           (IF i = 1 THEN <<>> ELSE <<",">>) \o ElementOut(elems[i])])
          \o <<"}">>

\* The subscripts are written if they are not those an array has by default.
Subscripts(a) == IF a.lower = 1 THEN <<>> ELSE <<"[:]=">>

\* An array without elements has no dimensions, whatever they were.
ArrayOut(a) == IF a.elems = <<>> THEN RowOut(a.elems)
               ELSE Subscripts(a) \o (IF a.depth = 2 THEN <<"{">> \o RowOut(a.elems) \o <<"}">>
                                                     ELSE RowOut(a.elems))

-----------------------------------------------------------------------------
(* StringArray.Scan.                                                       *)

Malformed == [ok |-> FALSE, elems |-> <<>>]

\* The loop over a quoted element that begins at i: its text, and the index
\* after the closing quote, which is beyond the body if there is none.
Quoted(body, i) ==
  LET from[k \in Nat] ==
        IF k > Len(body) \/ body[k] = "\"" THEN [next |-> k + 1, text |-> <<>>]
        ELSE LET ch   == IF body[k] = "\\" /\ k < Len(body) THEN k + 1 ELSE k
                 rest == from[ch + 1]
             IN [rest EXCEPT !.text = <<body[ch]>> \o @]
  IN from[i]

\* An unquoted element ends before the next comma.
Unquoted(body, i) ==
  LET stop == CHOOSE j \in i .. Len(body) + 1 :
                /\ j = Len(body) + 1 \/ body[j] = ","
                /\ \A k \in i .. j - 1 : body[k] # ","
  IN [next |-> stop, text |-> SubSeq(body, i, stop - 1)]

AnyNull(body, i, e)       == e.text = <<"NULL">>      \* mutant
IsNullElement(body, i, e) == body[i] # "\"" /\ e.text = <<"NULL">>

\* The loop of scanBytes over the elements; one that is malformed is the end.
Elements(body) ==
  LET from[i \in Nat] ==
        IF i > Len(body) THEN [ok |-> TRUE, elems |-> <<>>]
        ELSE LET e    == IF body[i] = "\"" THEN Quoted(body, i + 1) ELSE Unquoted(body, i)
                 rest == from[e.next + 1]
             IN IF \/ body[i] = "{"
                   \/ e.next > Len(body) + 1                    \* unterminated
                   \/ IsNullElement(body, i, e)
                   \/ e.next <= Len(body) /\ body[e.next] # ","
                   \/ ~rest.ok
                  THEN Malformed
                  ELSE [rest EXCEPT !.elems = <<e.text>> \o @]
  IN from[1]

scanBytes(src) ==
  IF Len(src) < 2 \/ src[1] # "{" \/ src[Len(src)] # "}" THEN Malformed
  ELSE Elements(SubSeq(src, 2, Len(src) - 1))
=============================================================================
