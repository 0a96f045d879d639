------------------------------ MODULE ConvFloat ------------------------------
(***************************************************************************)
(* Float64ToBytes and Float64ToString of conv/float.go beside the integer  *)
(* conversions, whose loop f64Dig repeats for the integer part.            *)
(*                                                                         *)
(* A float64 is a numerator over Den, a power of two, or NaN.  The values  *)
(* and precisions are such that the products of f64Dig are exact in a      *)
(* float64; a product that is itself rounded may move a value that lies    *)
(* within an ulp of a tie, and is not modelled, nor is negative zero.      *)
(***************************************************************************)
EXTENDS Conv

CONSTANTS Den,           \* the denominator of the values
          ExactPrec,     \* decimals that write every value exactly
          Floats,        \* the numerators a caller passes
          NaN,
          Precisions,    \* the precisions a caller passes
          MaxEligible    \* maxEligbleInt64; beyond it FormatFloat is called

\* The integer part of an eligible value has at most 19 digits.  MaxDigits bounds
\* the decimals and the text of any value as well.
ASSUME FloatAssumption ==
  /\ Den \in Nat \ {0}
  /\ ExactPrec \in 1 .. MaxDigits /\ Weight[ExactPrec] % Den = 0
  /\ MaxEligible \in Nat /\ \E k \in 0 .. MaxDigits : k <= 19 /\ MaxEligible + 1 < Weight[k]
  /\ Floats \subseteq Int /\ NaN \notin Int
  /\ \A x \in Floats : x < Den * (Weight[MaxDigits] - 1) /\ -x < Den * (Weight[MaxDigits] - 1)
  /\ Precisions \subseteq Int
  /\ \A p \in Precisions : p \in 0 .. 17 => p <= MaxDigits

Point == 20     \* index of the decimal point in the buffer
Last  == 38     \* its last index
N     == 36     \* the letter of "NaN", whose a is digits[10]

VARIABLES prec,
          ul,     \* the decimals that are still to be written
          ed      \* where the next of them go

fvars == <<prec, ul, ed>>

FloatTypeOK ==
  /\ prec \in Precisions \cup {0}
  /\ ul \in Nat
  /\ ed \in 0 .. Last
  /\ IF kind # "float64"
       THEN TypeOK
       ELSE /\ n \in Floats \cup {NaN}
            /\ pc \in {"start", "loop", "sign", "return", "decimals", "done"}
            /\ u \in Nat
            /\ pos \in 0 .. Point
            /\ buf \in [0 .. Last -> Byte]
            /\ result \in Seq(Byte \cup {N})

FloatInit ==
  /\ ul = 0 /\ ed = 0
  /\ \/ Init /\ prec = 0
     \/ /\ kind = "float64"
        /\ n \in Floats \cup {NaN}
        /\ prec \in Precisions
        /\ pc = "start"
        /\ u = 0
        /\ neg = FALSE
        /\ pos = Point
        /\ buf = [i \in 0 .. Last |-> Stale]
        /\ result = <<>>

-----------------------------------------------------------------------------
(* Decimal text, and what strconv.FormatFloat does: it rounds the exact    *)
(* value, a tie to the even digit, and without a precision writes as few   *)
(* decimals as identify the value.                                         *)

Abs(x) == IF x < 0 THEN -x ELSE x

IntText(m) == LET len == CHOOSE k \in 1 .. MaxDigits : m < Weight[k] /\ (k > 1 => m >= Weight[k - 1])
              IN [i \in 1 .. len |-> Digit(m, len - i)]

\* The number q over 10^p, as text with p decimals.
Text(isNeg, q, p) ==
  (IF isNeg THEN <<Minus>> ELSE <<>>)
    \o IntText(q \div Weight[p])
    \o (IF p = 0 THEN <<>> ELSE <<Dot>> \o [i \in 1 .. p |-> Digit(q % Weight[p], p - i)])

HalfEven(a) == LET q == a \div Den
                   r == a % Den
               IN IF 2 * r < Den \/ (2 * r = Den /\ q % 2 = 0) THEN q ELSE q + 1

HalfAway(a) == (2 * a + Den) \div (2 * Den)

Shortest(x) == CHOOSE p \in 0 .. ExactPrec :
                 /\ (Abs(x) * Weight[p]) % Den = 0
                 /\ \A p2 \in 0 .. p - 1 : (Abs(x) * Weight[p2]) % Den # 0

FormatFloat(x, p) ==
  LET shown == IF p < 0 THEN Shortest(x) ELSE IF p > ExactPrec THEN ExactPrec ELSE p
  IN Text(x < 0, HalfEven(Abs(x) * Weight[shown]), shown)
       \o [i \in 1 .. p - shown |-> 0]

-----------------------------------------------------------------------------
Eligible == n \in -MaxEligible * Den .. MaxEligible * Den

\* float0[prec]: a zero with that many decimals.
float0(p) == <<0>> \o (IF p = 0 THEN <<>> ELSE <<Dot>> \o [i \in 1 .. p |-> 0])

\* NaN, zero, and what is left to strconv.
FloatAtOnce ==
  /\ pc = "start"
  /\ kind = "float64"
  /\ \/ n = NaN /\ result' = <<N, 10, N>>
     \/ n = 0 /\ prec < 18 /\ result' = float0(IF prec > 0 THEN prec ELSE 0)
     \/ /\ IF n = 0 THEN prec >= 18 ELSE n # NaN /\ ~(Eligible /\ prec \in 0 .. 17)
        /\ result' = FormatFloat(n, prec)
  /\ pc' = "done"
  /\ UNCHANGED <<kind, n, u, neg, pos, buf, fvars>>

\* The value is cut into its integer part u, and its fraction l over Den,
\* which is rounded to ul over 10^prec unless it rounds up to one.
CarryInto(l, p) == 2 * Weight[p] * l > 2 * Weight[p] * Den - Den      \* mutant
Carries(l, p)   == 2 * Weight[p] * l + Den >= 2 * Weight[p] * Den

Split ==
  /\ pc = "start"
  /\ kind = "float64"
  /\ n \notin {NaN, 0} /\ Eligible /\ prec \in 0 .. 17
  /\ neg' = (n < 0)
  /\ LET l == Abs(n) % Den IN
     IF Carries(l, prec)
       THEN u' = Abs(n) \div Den + 1 /\ ul' = 0
       ELSE u' = Abs(n) \div Den /\ ul' = HalfAway(l * Weight[prec])
  /\ pos' = Point
  /\ pc' = "loop"
  /\ UNCHANGED <<kind, n, buf, result, prec, ed>>

AfterSign ==
  /\ pc = "return"
  /\ kind = "float64"
  /\ IF prec = 0
       THEN /\ result' = Slice(pos, Point)
            /\ pc' = "done"
            /\ UNCHANGED <<buf, ed>>
       ELSE /\ buf' = [buf EXCEPT ![Point] = Dot]
            /\ ed' = Point + prec
            /\ pc' = "decimals"
            /\ UNCHANGED result
  /\ UNCHANGED <<kind, n, u, neg, pos, prec, ul>>

\* Two decimals at a time from the end; the first alone if their number is odd.
Decimals ==
  /\ pc = "decimals"
  /\ ed > Point
  /\ ul' = ul \div 100
  /\ IF ed = Point + 1
       THEN buf' = [buf EXCEPT ![ed] = ul % 100] /\ ed' = Point
       ELSE Put2(ed - 1, ul % 100) /\ ed' = ed - 2
  /\ UNCHANGED <<kind, n, pc, u, neg, pos, result, prec>>

ReturnFloat ==
  /\ pc = "decimals"
  /\ ed <= Point
  /\ result' = Slice(pos, Point + 1 + prec)
  /\ pc' = "done"
  /\ UNCHANGED <<kind, n, u, neg, pos, buf, fvars>>

FloatNext == \/ Next /\ UNCHANGED fvars
             \/ FloatAtOnce \/ Split \/ AfterSign \/ Decimals \/ ReturnFloat

FloatSpec == FloatInit /\ [][FloatNext]_<<vars, fvars>>

-----------------------------------------------------------------------------
\* The result is that of strconv.FormatFloat for the same precision, carries
\* into the integer part included, but for a value half way between two
\* results, which f64Dig rounds away from zero.
Rounds ==
  kind = "float64" /\ pc = "done" /\ n # NaN =>
    LET a   == Abs(n) * Weight[prec]
        tie == prec \in 0 .. 17 /\ Eligible /\ 2 * (a % Den) = Den
    IN result = IF tie THEN Text(n < 0, HalfAway(a), prec) ELSE FormatFloat(n, prec)
=============================================================================
