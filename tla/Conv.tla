-------------------------------- MODULE Conv --------------------------------
(***************************************************************************)
(* The integer conversions of conv/int.go and conv/uint.go, which write    *)
(* the decimal digits of an integer from the end of a buffer of the caller *)
(* and return the part of the buffer they wrote, or an entry of a table.   *)
(*                                                                         *)
(* i16Dig, i32Dig, i64Dig and their unsigned counterparts are one loop at  *)
(* several widths: an element of Kind stands for each, with its modulus    *)
(* 2^w and the length of its buffer.  The routines for 8 bits have no loop *)
(* and are translated by themselves.                                       *)
(*                                                                         *)
(* A behaviour is one call.  A byte is a number: a digit is itself, the    *)
(* letters that follow in the table digits are 10 and more, and what the   *)
(* caller's buffer held before the call is Stale.                          *)
(***************************************************************************)
EXTENDS Integers, Sequences

CONSTANTS Kind,        \* the routines with a loop
          Signed,      \* those among them for signed integers
          Modulus,     \* 2^w for each of them
          BufLen,      \* the length of its buffer
          MaxDigits,   \* no buffer is longer
          Weight       \* the powers of ten: Weight[k] is 10^k

ASSUME WeightAssumption ==
  /\ MaxDigits \in Nat /\ MaxDigits >= 3
  /\ Weight \in [0 .. MaxDigits -> Nat \ {0}]
  /\ Weight[0] = 1
  /\ \A k \in 0 .. MaxDigits - 1 : Weight[k + 1] = 10 * Weight[k]

\* A buffer has room for the largest magnitude, and for its sign.
ASSUME ConvAssumption ==
  /\ Signed \subseteq Kind
  /\ Kind \cap {"int8", "uint8", "float64"} = {}
  /\ Modulus \in [Kind -> Nat \ {0}]
  /\ BufLen \in [Kind -> 1 .. MaxDigits]
  /\ \A k \in Signed : Modulus[k] \div 2 < Weight[BufLen[k] - 1]
  /\ \A k \in Kind \ Signed : Modulus[k] <= Weight[BufLen[k]]

Minus == -1
Dot   == -2
Stale == -3
Byte  == -3 .. 35

VARIABLES
  kind,     \* the routine
  n,        \* its argument
  pc,       \* "start", "loop", "sign", "return" or "done"
  u,        \* the magnitude that is still to be written
  neg,
  pos,      \* where the written part of the buffer begins
  buf,      \* from 0, as in the code
  result    \* the bytes of the returned slice

vars == <<kind, n, pc, u, neg, pos, buf, result>>

SmallKind == {"int8", "uint8"}

\* The integers of a type of modulus m.
Ints(m, signed) == IF signed THEN -(m \div 2) .. m - m \div 2 - 1 ELSE 0 .. m - 1

Argument(k) == CASE k = "int8"  -> Ints(256, TRUE)
                 [] k = "uint8" -> Ints(256, FALSE)
                 [] OTHER       -> Ints(Modulus[k], k \in Signed)

Length(k) == IF k \in Kind THEN BufLen[k] ELSE 0

TypeOK ==
  /\ kind \in Kind \cup SmallKind
  /\ n \in Argument(kind)
  /\ pc \in {"start", "loop", "sign", "return", "done"}
  /\ u \in Nat
  /\ neg \in BOOLEAN
  /\ pos \in 0 .. Length(kind)
  /\ buf \in [0 .. Length(kind) - 1 -> Byte]
  /\ result \in Seq(Byte)

Init ==
  /\ kind \in Kind \cup SmallKind
  /\ n \in Argument(kind)
  /\ pc = "start"
  /\ u = 0
  /\ neg = FALSE
  /\ pos = Length(kind)
  /\ buf = [i \in 0 .. Length(kind) - 1 |-> Stale]
  /\ result = <<>>

-----------------------------------------------------------------------------
(* The tables, and the routines that need no loop.                         *)

\* The digits of digits2[m], for 0 <= m < 100.
Tens(m)  == m \div 10
Units(m) == m % 10

\* digits1 and digits2 by value.
Entry(m) == IF m < 10 THEN <<m>> ELSE <<Tens(m), Units(m)>>

UInt8ToBytes(x) == IF x < 100      THEN Entry(x)
                   ELSE IF x < 200 THEN <<1, Tens(x - 100), Units(x - 100)>>
                   ELSE                 <<2, Tens(x - 200), Units(x - 200)>>

\* The branches for n > -10 and n > -100 negate n; below that -n might not
\* fit, and the code takes -100 - n.
Int8ToBytes(x) == IF x >= 100       THEN <<1, Tens(x - 100), Units(x - 100)>>
                  ELSE IF x >= 0    THEN Entry(x)
                  ELSE IF x > -10   THEN <<Minus, -x>>
                  ELSE IF x > -100  THEN <<Minus, Tens(-x), Units(-x)>>
                  ELSE                   <<Minus, 1, Tens(-100 - x), Units(-100 - x)>>

Small ==
  /\ pc = "start"
  /\ kind \in SmallKind
  /\ result' = IF kind = "int8" THEN Int8ToBytes(n) ELSE UInt8ToBytes(n)
  /\ pc' = "done"
  /\ UNCHANGED <<kind, n, u, neg, pos, buf>>

-----------------------------------------------------------------------------
(* The routines with a loop.                                               *)

\* Zero, and the positive numbers of one or two digits, are entries of a table.
FromTable ==
  /\ pc = "start"
  /\ kind \in Kind
  /\ n \in 0 .. 99
  /\ result' = Entry(n)
  /\ pc' = "done"
  /\ UNCHANGED <<kind, n, u, neg, pos, buf>>

\* A value of the unsigned type of the routine's width.
Wrap(x) == x % Modulus[kind]

SignedMagnitude == IF n < 0 THEN -n - 1 ELSE n      \* mutant: ^u for -u
Magnitude == IF n > 0 THEN Wrap(n) ELSE Wrap(-Wrap(n))

StartLoop ==
  /\ pc = "start"
  /\ kind \in Kind
  /\ n \notin 0 .. 99
  /\ neg' = (n < 0)
  /\ u' = Magnitude
  /\ pos' = BufLen[kind]
  /\ pc' = "loop"
  /\ UNCHANGED <<kind, n, buf, result>>

\* buf[p+1], buf[p] = digits2[m][1], digits2[m][0]
Put2(p, m) == buf' = [buf EXCEPT ![p] = Tens(m), ![p + 1] = Units(m)]

TwoDigits ==
  /\ pc = "loop"
  /\ u >= 100
  /\ pos' = pos - 2
  /\ Put2(pos', u % 100)
  /\ u' = u \div 100
  /\ UNCHANGED <<kind, n, pc, neg, result>>

\* mutant: always two digits
LastTwo ==
  /\ pc = "loop"
  /\ u < 100
  /\ pos' = pos - 2
  /\ Put2(pos', u)
  /\ pc' = "sign"
  /\ UNCHANGED <<kind, n, u, neg, result>>

LastDigits ==
  /\ pc = "loop"
  /\ u < 100
  /\ IF u < 10
       THEN pos' = pos - 1 /\ buf' = [buf EXCEPT ![pos'] = u]
       ELSE pos' = pos - 2 /\ Put2(pos', u)
  /\ pc' = "sign"
  /\ UNCHANGED <<kind, n, u, neg, result>>

Sign ==
  /\ pc = "sign"
  /\ IF neg
       THEN pos' = pos - 1 /\ buf' = [buf EXCEPT ![pos'] = Minus]
       ELSE UNCHANGED <<pos, buf>>
  /\ pc' = "return"
  /\ UNCHANGED <<kind, n, u, neg, result>>

\* The slice buf[from:to].
Slice(from, to) == [i \in 1 .. to - from |-> buf[from + i - 1]]

Return ==
  /\ pc = "return"
  /\ kind \in Kind
  /\ result' = Slice(pos, BufLen[kind])
  /\ pc' = "done"
  /\ UNCHANGED <<kind, n, u, neg, pos, buf>>

Digits == TwoDigits \/ LastDigits \/ Sign

Next == Small \/ FromTable \/ StartLoop \/ Digits \/ Return

Spec == Init /\ [][Next]_vars

-----------------------------------------------------------------------------
(* Properties.                                                             *)

Digit(m, k) == (m \div Weight[k]) % 10

\* r is the decimal representation of the integer x, without leading zeros.
IsDecimal(r, x) ==
  LET s   == IF x < 0 THEN 1 ELSE 0
      m   == IF x < 0 THEN -x ELSE x
      len == Len(r) - s
  IN /\ len \in 1 .. MaxDigits
     /\ s = 1 => r[1] = Minus
     /\ m < Weight[len]
     /\ len > 1 => m >= Weight[len - 1]
     /\ \A i \in 1 .. len : r[s + i] = Digit(m, len - i)

\* Every integer routine returns the digits of its argument, the smallest integer
\* of the type included, whose magnitude the type cannot represent, and no
\* byte that the caller's buffer held before.
Converts == pc = "done" /\ kind \in Kind \cup SmallKind => IsDecimal(result, n)
=============================================================================
