----------------------------- MODULE ConvProofs -----------------------------
(***************************************************************************)
(* Proofs about Conv and ConvFloat: every integer routine, at every width, *)
(* returns the decimal representation of its argument, the float routine   *)
(* what strconv writes but for ties, and all stay inside their buffer.     *)
(*                                                                         *)
(* The argument is one inductive invariant.  While the loop runs, what is  *)
(* left to write is the magnitude shifted by the digits already written,   *)
(* those are in the buffer, and the part of the buffer before them has     *)
(* room for the rest and for a sign.  The float routine runs that loop for *)
(* the integer part of the rounded value, and a second one for its         *)
(* decimals behind the point.                                              *)
(***************************************************************************)
EXTENDS ConvFloat, SequenceTheorems, NaturalsInduction, WellFoundedInduction, TLAPS

\* The magnitude of the argument, which u starts as.
Mag == IF n < 0 THEN -n ELSE n

\* The bytes of the buffer that are kept for a sign.
Room(k) == IF k \in Signed THEN 1 ELSE 0

\* The buffer holds the last digits of the magnitude from index p on.
Written(p) == \A i \in p .. BufLen[kind] - 1 : buf[i] = Digit(Mag, BufLen[kind] - 1 - i)

\* It holds all of them, without a leading zero.
AllWritten(p) ==
  LET len == BufLen[kind] - p
  IN /\ p \in 0 .. BufLen[kind] - 1
     /\ Mag < Weight[len]
     /\ len > 1 => Mag >= Weight[len - 1]
     /\ Written(p)

LoopInv ==
  pc = "loop" =>
    /\ u >= 1
    /\ u = Mag \div Weight[BufLen[kind] - pos]
    /\ pos - Room(kind) \in 0 .. MaxDigits
    /\ u < Weight[pos - Room(kind)]
    /\ Written(pos)

SignInv == pc = "sign" => pos >= Room(kind) /\ AllWritten(pos)

ReturnInv ==
  pc = "return" => IF neg THEN buf[pos] = Minus /\ AllWritten(pos + 1)
                          ELSE AllWritten(pos)

KindInv == pc \in {"loop", "sign", "return"} => kind \in Kind /\ neg = (n < 0)

ConvInv == TypeOK /\ KindInv /\ LoopInv /\ SignInv /\ ReturnInv /\ Converts

-----------------------------------------------------------------------------
(* Arithmetic.                                                             *)

\* Division as TLA+ defines it.
LEMMA DivMod ==
  \A a \in Int, b \in Nat \ {0} :
    a \div b \in Int /\ a % b \in 0 .. b - 1 /\ a = b * (a \div b) + (a % b)
  OBVIOUS

LEMMA Multiples == \A x, y \in Int, b \in Nat \ {0} : x < y => b * x + b <= b * y
  OBVIOUS

LEMMA DivModUnique ==
  \A a, q, r \in Int, b \in Nat \ {0} :
    0 <= r /\ r < b /\ a = b * q + r => a \div b = q /\ a % b = r
  BY DivMod, Multiples

\* The last two digits, and the one before the last.
LEMMA TwoOf == \A x \in Nat : (x % 100) \div 10 = (x \div 10) % 10 /\ (x % 100) % 10 = x % 10
  OBVIOUS

\* Shifts add up.
LEMMA ShiftTen == \A m \in Nat, w \in Nat \ {0} : (m \div w) \div 10 = m \div (10 * w)
  OBVIOUS

LEMMA ShiftHundred == \A m \in Nat, w \in Nat \ {0} : (m \div w) \div 100 = m \div (100 * w)
  OBVIOUS

LEMMA ShiftNat == \A m \in Nat, w \in Nat \ {0} : m \div w \in Nat
  OBVIOUS

\* Cutting two digits off a magnitude m shifted by w.
Cut(m, w) ==
  LET x == m \div w
  IN /\ x \in Nat
     /\ x \div 100 = m \div (100 * w)
     /\ (x % 100) \div 10 = (m \div (10 * w)) % 10
     /\ (x % 100) % 10 = x % 10

LEMMA CutTwo == ASSUME NEW m \in Nat, NEW w \in Nat \ {0} PROVE Cut(m, w)
<1> DEFINE x == m \div w
<1>1. x \in Nat
  BY ShiftNat
<1>3. (x % 100) \div 10 = (x \div 10) % 10 /\ (x % 100) % 10 = x % 10
  BY <1>1, TwoOf
<1>4. x \div 10 = m \div (10 * w) /\ x \div 100 = m \div (100 * w)
  BY ShiftTen, ShiftHundred
<1> HIDE DEF x
<1>5. /\ x \in Nat /\ x \div 100 = m \div (100 * w)
      /\ (x % 100) \div 10 = (m \div (10 * w)) % 10 /\ (x % 100) % 10 = x % 10
  BY <1>1, <1>3, <1>4
<1> QED BY <1>5, Zenon DEF Cut, x

\* A shifted magnitude bounds the magnitude.
LEMMA Shifted ==
  \A m \in Nat, w \in Nat \ {0} :
    LET x == m \div w
    IN /\ x < 10 => m < 10 * w
       /\ x < 100 => m < 100 * w
       /\ x >= 1 => m >= w
       /\ x >= 10 => m >= 10 * w
  OBVIOUS

\* The powers of ten that the proofs name.
LEMMA Weights ==
  /\ MaxDigits \in Nat /\ MaxDigits >= 3
  /\ \A k \in 0 .. MaxDigits : Weight[k] \in Nat \ {0}
  /\ \A k \in 0 .. MaxDigits - 1 : Weight[k + 1] = 10 * Weight[k]
  /\ \A k \in 0 .. MaxDigits - 2 : Weight[k + 2] = 100 * Weight[k]
  /\ Weight[0] = 1 /\ Weight[1] = 10 /\ Weight[2] = 100 /\ Weight[3] = 1000
<1>1. /\ MaxDigits \in Nat /\ MaxDigits >= 3
      /\ Weight \in [0 .. MaxDigits -> Nat \ {0}]
      /\ Weight[0] = 1
      /\ \A k \in 0 .. MaxDigits - 1 : Weight[k + 1] = 10 * Weight[k]
  BY WeightAssumption
<1>2. \A k \in 0 .. MaxDigits : Weight[k] \in Nat \ {0}
  BY <1>1
<1>3. \A k \in 0 .. MaxDigits - 2 : Weight[k + 2] = 100 * Weight[k]
  <2> TAKE k \in 0 .. MaxDigits - 2
  <2>1. k \in 0 .. MaxDigits - 1 /\ k + 1 \in 0 .. MaxDigits - 1 /\ (k + 1) + 1 = k + 2
        /\ k \in 0 .. MaxDigits
    BY <1>1
  <2>2. Weight[k + 1] = 10 * Weight[k]
    BY <1>1, <2>1
  <2>3. Weight[(k + 1) + 1] = 10 * Weight[k + 1]
    BY <1>1, <2>1
  <2>4. Weight[k] \in Nat
    BY <1>2, <2>1
  <2> QED BY <2>1, <2>2, <2>3, <2>4
<1>4. Weight[1] = 10 /\ Weight[2] = 100 /\ Weight[3] = 1000
  <2>1. 0 \in 0 .. MaxDigits - 1 /\ 1 \in 0 .. MaxDigits - 1 /\ 2 \in 0 .. MaxDigits - 1
    BY <1>1
  <2>2. Weight[0 + 1] = 10 * Weight[0] /\ Weight[1 + 1] = 10 * Weight[1] /\ Weight[2 + 1] = 10 * Weight[2]
    BY <1>1, <2>1
  <2> QED BY <1>1, <2>2
<1> QED BY <1>1, <1>3, <1>4, <1>2

-----------------------------------------------------------------------------
(* The tables.                                                             *)

\* Up to four bytes are the representation of an integer with as many digits.
LEMMA Decimals1 ==
  \A x \in 0 .. 9 : IsDecimal(<<x>>, x) /\ (x > 0 => IsDecimal(<<Minus, x>>, -x))
  BY Weights DEF IsDecimal, Digit, Minus

LEMMA Decimals2 ==
  ASSUME NEW x \in 10 .. 99
  PROVE  /\ IsDecimal(<<Tens(x), Units(x)>>, x)
         /\ IsDecimal(<<Minus, Tens(x), Units(x)>>, -x)
<1>1. Tens(x) = Digit(x, 1) /\ Units(x) = Digit(x, 0)
  BY Weights DEF Digit, Tens, Units
<1>2. x < Weight[2] /\ x >= Weight[1] /\ 2 \in 1 .. MaxDigits
  BY Weights
<1>3. IsDecimal(<<Digit(x, 1), Digit(x, 0)>>, x)
  BY <1>2, Weights DEF IsDecimal, Minus
<1>4. IsDecimal(<<Minus, Digit(x, 1), Digit(x, 0)>>, -x)
  BY <1>2, Weights DEF IsDecimal, Minus
<1> QED BY <1>1, <1>3, <1>4

LEMMA Decimals3 ==
  ASSUME NEW h \in {1, 2}, NEW x \in 0 .. 99
  PROVE  /\ IsDecimal(<<h, Tens(x), Units(x)>>, 100 * h + x)
         /\ IsDecimal(<<Minus, h, Tens(x), Units(x)>>, -(100 * h + x))
<1> DEFINE m == 100 * h + x
<1>1. h = Digit(m, 2) /\ Tens(x) = Digit(m, 1) /\ Units(x) = Digit(m, 0)
  BY Weights DEF Digit, Tens, Units
<1>2. m \in Nat /\ m < Weight[3] /\ m >= Weight[2] /\ 3 \in 1 .. MaxDigits
  BY Weights
<1> HIDE DEF m
<1>3. IsDecimal(<<Digit(m, 2), Digit(m, 1), Digit(m, 0)>>, m)
  BY <1>2, Weights DEF IsDecimal, Minus
<1>4. IsDecimal(<<Minus, Digit(m, 2), Digit(m, 1), Digit(m, 0)>>, -m)
  BY <1>2, Weights DEF IsDecimal, Minus
<1> QED BY <1>1, <1>3, <1>4 DEF m

LEMMA DigitRange == \A x \in 0 .. 99 : Tens(x) \in 0 .. 9 /\ Units(x) \in 0 .. 9
  BY DEF Tens, Units

LEMMA DigitByte == \A x \in 0 .. 99 : Tens(x) \in Byte /\ Units(x) \in Byte
  BY DigitRange DEF Byte

LEMMA Bytes ==
  ASSUME NEW a \in Byte, NEW b \in Byte, NEW c \in Byte, NEW d \in Byte
  PROVE  /\ <<a, b>> \in Seq(Byte)
         /\ <<a, b, c>> \in Seq(Byte)
         /\ <<a, b, c, d>> \in Seq(Byte)
  OBVIOUS

LEMMA EntryDecimal ==
  ASSUME NEW x \in 0 .. 99
  PROVE  Entry(x) \in Seq(Byte) /\ IsDecimal(Entry(x), x)
<1>1. CASE x < 10
  BY <1>1, Decimals1 DEF Entry, Byte
<1>2. CASE x >= 10
  <2>1. Entry(x) = <<Tens(x), Units(x)>>
    BY <1>2 DEF Entry
  <2>2. IsDecimal(<<Tens(x), Units(x)>>, x)
    <3>1. x \in 10 .. 99
      BY <1>2
    <3> QED BY <3>1, Decimals2
  <2>3. Tens(x) \in Byte /\ Units(x) \in Byte
    BY DigitByte
  <2> QED BY <2>1, <2>2, <2>3
<1> QED BY <1>1, <1>2

LEMMA UInt8Decimal ==
  ASSUME NEW x \in 0 .. 255
  PROVE  UInt8ToBytes(x) \in Seq(Byte) /\ IsDecimal(UInt8ToBytes(x), x)
<1>1. CASE x < 100
  <2>1. x \in 0 .. 99
    BY <1>1
  <2>2. Entry(x) \in Seq(Byte) /\ IsDecimal(Entry(x), x)
    BY <2>1, EntryDecimal
  <2> QED BY <1>1, <2>2 DEF UInt8ToBytes
<1>2. ASSUME NEW h \in {1, 2}, x \in 100 * h .. 100 * h + 99
      PROVE  /\ <<h, Tens(x - 100 * h), Units(x - 100 * h)>> \in Seq(Byte)
             /\ IsDecimal(<<h, Tens(x - 100 * h), Units(x - 100 * h)>>, x)
  <2> DEFINE y == x - 100 * h
  <2>1. y \in 0 .. 99 /\ x = 100 * h + y /\ h \in Byte
    BY <1>2 DEF Byte
  <2> HIDE DEF y
  <2>2. IsDecimal(<<h, Tens(y), Units(y)>>, x)
    BY <2>1, Decimals3
  <2>3. Tens(y) \in Byte /\ Units(y) \in Byte
    BY <2>1, DigitByte
  <2> QED BY <2>1, <2>2, <2>3 DEF y
<1>3. CASE x \in 100 .. 199
  BY <1>3, <1>2 DEF UInt8ToBytes
<1>4. CASE x >= 200
  BY <1>4, <1>2 DEF UInt8ToBytes
<1> QED BY <1>1, <1>3, <1>4

LEMMA Int8Decimal ==
  ASSUME NEW x \in -128 .. 127
  PROVE  Int8ToBytes(x) \in Seq(Byte) /\ IsDecimal(Int8ToBytes(x), x)
<1>0. Minus \in Byte
  BY DEF Minus, Byte
<1>1. CASE x \in 0 .. 99
  <2>1. Entry(x) \in Seq(Byte) /\ IsDecimal(Entry(x), x)
    BY <1>1, EntryDecimal
  <2>2. Int8ToBytes(x) = Entry(x)
    BY <1>1 DEF Int8ToBytes
  <2> QED BY <2>1, <2>2
<1>2. CASE x >= 100
  <2> DEFINE y == x - 100
  <2>1. y \in 0 .. 99 /\ x = 100 * 1 + y /\ 1 \in Byte /\ 1 \in {1, 2}
    BY <1>2 DEF Byte
  <2>2. Int8ToBytes(x) = <<1, Tens(y), Units(y)>>
    BY <1>2 DEF Int8ToBytes
  <2> HIDE DEF y
  <2>3. IsDecimal(<<1, Tens(y), Units(y)>>, x)
    BY <2>1, Decimals3
  <2>4. Tens(y) \in Byte /\ Units(y) \in Byte
    BY <2>1, DigitByte
  <2>5. <<1, Tens(y), Units(y)>> \in Seq(Byte)
    BY <2>1, <2>4, Bytes
  <2> QED BY <2>2, <2>3, <2>5
<1>3. CASE x \in -9 .. -1
  <2> DEFINE y == -x
  <2>1. y \in 1 .. 9 /\ x = -y /\ y \in Byte
    BY <1>3 DEF Byte
  <2>2. Int8ToBytes(x) = <<Minus, y>>
    BY <1>3 DEF Int8ToBytes
  <2> HIDE DEF y
  <2>3. IsDecimal(<<Minus, y>>, x)
    BY <2>1, Decimals1
  <2> QED BY <1>0, <2>1, <2>2, <2>3, Bytes
<1>4. CASE x \in -99 .. -10
  <2> DEFINE y == -x
  <2>1. y \in 10 .. 99 /\ x = -y
    BY <1>4
  <2>2. Int8ToBytes(x) = <<Minus, Tens(y), Units(y)>>
    BY <1>4 DEF Int8ToBytes
  <2> HIDE DEF y
  <2>3. IsDecimal(<<Minus, Tens(y), Units(y)>>, x)
    BY <2>1, Decimals2
  <2>4. Tens(y) \in Byte /\ Units(y) \in Byte
    BY <2>1, DigitByte
  <2> QED BY <1>0, <2>2, <2>3, <2>4, Bytes
<1>5. CASE x <= -100
  <2> DEFINE y == -100 - x
  <2>1. y \in 0 .. 99 /\ x = -(100 * 1 + y) /\ 1 \in Byte /\ 1 \in {1, 2}
    BY <1>5 DEF Byte
  <2>2. Int8ToBytes(x) = <<Minus, 1, Tens(y), Units(y)>>
    BY <1>5 DEF Int8ToBytes
  <2> HIDE DEF y
  <2>3. IsDecimal(<<Minus, 1, Tens(y), Units(y)>>, x)
    BY <2>1, Decimals3
  <2>4. Tens(y) \in Byte /\ Units(y) \in Byte
    BY <2>1, DigitByte
  <2>5. <<Minus, 1, Tens(y), Units(y)>> \in Seq(Byte)
    BY <1>0, <2>1, <2>4, Bytes
  <2> QED BY <2>2, <2>3, <2>5
<1> QED BY <1>1, <1>2, <1>3, <1>4, <1>5

-----------------------------------------------------------------------------
(* The loop.                                                               *)

\* What the assumptions say of a routine with a loop.
LEMMA KindFacts ==
  ASSUME NEW k \in Kind
  PROVE  /\ BufLen[k] \in 1 .. MaxDigits
         /\ Modulus[k] \in Nat \ {0}
         /\ Length(k) = BufLen[k]
         /\ Argument(k) = Ints(Modulus[k], k \in Signed)
         /\ BufLen[k] - Room(k) \in 0 .. MaxDigits
         /\ k \in Signed => Modulus[k] \div 2 < Weight[BufLen[k] - Room(k)]
         /\ k \notin Signed => Modulus[k] <= Weight[BufLen[k] - Room(k)]
<1>1. BufLen[k] \in 1 .. MaxDigits /\ Modulus[k] \in Nat \ {0}
  BY ConvAssumption
<1>2. k \notin {"int8", "uint8", "float64"}
  BY ConvAssumption
<1>3. Length(k) = BufLen[k] /\ Argument(k) = Ints(Modulus[k], k \in Signed)
  BY <1>2 DEF Length, Argument
<1>4. BufLen[k] - Room(k) \in 0 .. MaxDigits
  BY <1>1, Weights DEF Room
<1>5. /\ k \in Signed => Modulus[k] \div 2 < Weight[BufLen[k] - Room(k)]
      /\ k \notin Signed => Modulus[k] <= Weight[BufLen[k] - Room(k)]
  BY ConvAssumption DEF Room
<1> QED BY <1>1, <1>3, <1>4, <1>5

LEMMA ArgumentFacts ==
  ASSUME kind \in Kind, n \in Argument(kind)
  PROVE  n \in Int /\ Mag \in Nat /\ (n < 0 => kind \in Signed)
<1>1. n \in Ints(Modulus[kind], kind \in Signed) /\ Modulus[kind] \in Nat \ {0}
  BY KindFacts
<1>2. n \in Int /\ (n < 0 => kind \in Signed)
  BY <1>1 DEF Ints
<1> QED BY <1>2 DEF Mag

\* Negating a negative number of the type and reading it unsigned gives its
\* magnitude, for the smallest number of the type too.
LEMMA Negated ==
  ASSUME NEW m \in Nat \ {0}, NEW x \in Int, x < 0, x >= -m
  PROVE  (-(x % m)) % m = IF x = -m THEN 0 ELSE -x
<1>1. CASE x = -m
  <2>1. x = m * (-1) + 0
    BY <1>1
  <2>2. x % m = 0
    BY <2>1, DivModUnique
  <2>3. 0 = m * 0 + 0
    OBVIOUS
  <2>4. 0 % m = 0
    BY <2>3, DivModUnique
  <2> QED BY <1>1, <2>2, <2>4
<1>2. CASE x > -m
  <2>1. x = m * (-1) + (x + m) /\ 0 <= x + m /\ x + m < m
    BY <1>2
  <2>2. x % m = x + m
    BY <2>1, DivModUnique
  <2>3. -(x + m) = m * (-1) + (-x) /\ 0 <= -x /\ -x < m
    BY <1>2
  <2>4. (-(x + m)) % m = -x
    BY <2>3, DivModUnique
  <2> QED BY <1>2, <2>2, <2>4
<1> QED BY <1>1, <1>2

LEMMA MagnitudeIs ==
  ASSUME kind \in Kind, n \in Argument(kind), n \notin 0 .. 99
  PROVE  /\ Magnitude = Mag
         /\ Mag \in Nat /\ Mag >= 1
         /\ Mag < Weight[BufLen[kind] - Room(kind)]
         /\ n < 0 => kind \in Signed
<1> DEFINE m == Modulus[kind]
<1>1. m \in Nat \ {0} /\ n \in Ints(m, kind \in Signed)
  BY KindFacts
<1>2. n \in Int /\ n < m /\ (n < 0 => kind \in Signed)
  BY <1>1 DEF Ints
<1>3. kind \in Signed => Mag <= m \div 2
  BY <1>1, <1>2 DEF Ints, Mag
<1>4. Mag \in Nat /\ Mag >= 1
  BY <1>2 DEF Mag
<1>5. Weight[BufLen[kind] - Room(kind)] \in Nat
  BY KindFacts, Weights
<1>6. Mag < Weight[BufLen[kind] - Room(kind)]
  <2>1. CASE kind \in Signed
    BY <2>1, <1>1, <1>3, <1>4, <1>5, KindFacts
  <2>2. CASE kind \notin Signed
    BY <2>2, <1>1, <1>2, <1>4, <1>5, KindFacts DEF Mag
  <2> QED BY <2>1, <2>2
<1>7. Magnitude = Mag
  <2>1. CASE n > 0
    <3>1. n = m * 0 + n
      BY <1>1, <1>2
    <3>2. n % m = n
      BY <3>1, <2>1, <1>1, <1>2, DivModUnique
    <3> QED BY <3>2, <2>1, <1>2 DEF Magnitude, Wrap, Mag
  <2>2. CASE n < 0
    <3>1. n > -m
      BY <2>2, <1>1, <1>2 DEF Ints
    <3>2. (-(n % m)) % m = -n
      BY <3>1, <2>2, <1>1, <1>2, Negated
    <3> QED BY <3>2, <2>2, <1>2 DEF Magnitude, Wrap, Mag
  <2> QED BY <2>1, <2>2, <1>2
<1> QED BY <1>2, <1>4, <1>6, <1>7

\* A number below a power of ten leaves that many digits to write.
LEMMA RoomFor ==
  ASSUME NEW k \in 0 .. MaxDigits, NEW x \in Nat, x < Weight[k]
  PROVE  /\ x >= 1   => k >= 1
         /\ x >= 10  => k >= 2
         /\ x >= 100 => k >= 3 /\ k - 2 \in 0 .. MaxDigits /\ x \div 100 < Weight[k - 2]
<1>1. x >= 1 => k >= 1
  BY Weights
<1>2. x >= 10 => k >= 2
  <2>1. k # 0 /\ k # 1 => k >= 2
    OBVIOUS
  <2> QED BY <2>1, Weights
<1>3. ASSUME x >= 100
      PROVE  k >= 3 /\ k - 2 \in 0 .. MaxDigits /\ x \div 100 < Weight[k - 2]
  <2>1. k # 0 /\ k # 1 /\ k # 2
    BY <1>3, Weights
  <2>2. k >= 3 /\ k - 2 \in 0 .. MaxDigits - 2 /\ (k - 2) + 2 = k /\ k - 2 \in 0 .. MaxDigits
    BY <2>1, Weights
  <2>3. Weight[(k - 2) + 2] = 100 * Weight[k - 2]
    BY <2>2, Weights
  <2>4. Weight[k - 2] \in Nat
    BY <2>2, Weights
  <2> QED BY <2>2, <2>3, <2>4
<1> QED BY <1>1, <1>2, <1>3

-----------------------------------------------------------------------------
(* The invariant.                                                          *)

LEMMA TypesAtStart == Init => ConvInv
<1> SUFFICES ASSUME Init PROVE ConvInv
  OBVIOUS
<1>1. /\ kind \in Kind \cup SmallKind /\ n \in Argument(kind) /\ pc = "start"
      /\ u = 0 /\ neg = FALSE /\ pos = Length(kind) /\ result = <<>>
      /\ buf = [i \in 0 .. Length(kind) - 1 |-> Stale]
  BY DEF Init
<1>2. Length(kind) \in Nat
  BY ConvAssumption, WeightAssumption DEF Length
<1>3. buf \in [0 .. Length(kind) - 1 -> Byte]
  BY <1>1 DEF Stale, Byte
<1>4. TypeOK
  <2>1. u \in Nat /\ pos \in 0 .. Length(kind) /\ result \in Seq(Byte)
    BY <1>1, <1>2
  <2>2. neg \in BOOLEAN
    BY <1>1
  <2> QED BY <1>1, <1>3, <2>1, <2>2 DEF TypeOK
<1> QED BY <1>1, <1>4 DEF ConvInv, KindInv, LoopInv, SignInv, ReturnInv, Converts

LEMMA StutterKeepsConvInv == ConvInv /\ UNCHANGED vars => ConvInv'
  BY DEF ConvInv, vars, TypeOK, KindInv, LoopInv, SignInv, ReturnInv, Converts,
         Written, AllWritten, Mag

\* A call that ends with an entry of a table.
LEMMA AtOnceKeepsConvInv ==
  ASSUME ConvInv, UNCHANGED <<kind, n, u, neg, pos, buf>>, pc' = "done",
         result' \in Seq(Byte), IsDecimal(result', n)
  PROVE  ConvInv'
<1>1. TypeOK'
  BY DEF ConvInv, TypeOK
<1>2. Converts'
  BY DEF Converts
<1> QED BY <1>1, <1>2 DEF ConvInv, KindInv, LoopInv, SignInv, ReturnInv

LEMMA SmallKeepsConvInv == ConvInv /\ Small => ConvInv'
<1> SUFFICES ASSUME ConvInv, Small PROVE ConvInv'
  OBVIOUS
<1>1. n \in Argument(kind) /\ kind \in SmallKind
  BY DEF ConvInv, TypeOK, Small
<1>2. result' \in Seq(Byte) /\ IsDecimal(result', n)
  <2>1. CASE kind = "int8"
    <3>1. n \in -128 .. 127 /\ result' = Int8ToBytes(n)
      BY <2>1, <1>1 DEF Argument, Ints, Small
    <3> QED BY <3>1, Int8Decimal
  <2>2. CASE kind = "uint8"
    <3>1. n \in 0 .. 255 /\ result' = UInt8ToBytes(n)
      BY <2>2, <1>1 DEF Argument, Ints, Small
    <3> QED BY <3>1, UInt8Decimal
  <2> QED BY <1>1, <2>1, <2>2 DEF SmallKind
<1> QED BY <1>2, AtOnceKeepsConvInv DEF Small

LEMMA FromTableKeepsConvInv == ConvInv /\ FromTable => ConvInv'
<1> SUFFICES ASSUME ConvInv, FromTable PROVE ConvInv'
  OBVIOUS
<1>1. result' \in Seq(Byte) /\ IsDecimal(result', n)
  BY EntryDecimal DEF FromTable
<1> QED BY <1>1, AtOnceKeepsConvInv DEF FromTable

LEMMA StartLoopKeepsConvInv == ConvInv /\ StartLoop => ConvInv'
<1> SUFFICES ASSUME ConvInv, StartLoop PROVE ConvInv'
  OBVIOUS
<1>1. /\ kind \in Kind /\ n \in Argument(kind) /\ n \notin 0 .. 99
      /\ kind' = kind /\ n' = n /\ buf' = buf /\ result' = result
      /\ pc' = "loop" /\ neg' = (n < 0) /\ u' = Magnitude /\ pos' = BufLen[kind]
  BY DEF StartLoop, ConvInv, TypeOK
<1>2. /\ Magnitude = Mag /\ Mag \in Nat /\ Mag >= 1
      /\ Mag < Weight[BufLen[kind] - Room(kind)]
  BY <1>1, MagnitudeIs
<1>3. BufLen[kind] \in 1 .. MaxDigits /\ Length(kind) = BufLen[kind] /\ MaxDigits \in Nat
      /\ BufLen[kind] - Room(kind) \in 0 .. MaxDigits
  BY <1>1, KindFacts, Weights
<1>4. TypeOK'
  <2>1. u' \in Nat /\ pos' \in 0 .. Length(kind)
    BY <1>1, <1>2, <1>3
  <2>2. neg' \in BOOLEAN
    BY <1>1
  <2>3. buf' \in [0 .. Length(kind') - 1 -> Byte] /\ result' \in Seq(Byte)
    BY <1>1 DEF ConvInv, TypeOK
  <2> QED BY <1>1, <2>1, <2>2, <2>3 DEF TypeOK
<1>5. LoopInv'
  <2>1. Mag \div Weight[BufLen[kind] - BufLen[kind]] = Mag
    BY <1>2, <1>3, Weights
  <2>2. Mag' = Mag
    BY <1>1 DEF Mag
  <2>3. Written(pos)'
    BY <1>1, <1>3 DEF Written
  <2> QED BY <1>1, <1>2, <1>3, <2>1, <2>2, <2>3 DEF LoopInv
<1> QED BY <1>1, <1>4, <1>5 DEF ConvInv, KindInv, SignInv, ReturnInv, Converts

\* What the invariant says of a step of the loop.
LEMMA InLoop ==
  ASSUME ConvInv, pc = "loop"
  PROVE  /\ kind \in Kind /\ neg = (n < 0) /\ neg \in BOOLEAN
         /\ n \in Int /\ Mag \in Nat
         /\ BufLen[kind] \in 1 .. MaxDigits /\ Length(kind) = BufLen[kind]
         /\ Room(kind) \in {0, 1} /\ (neg => Room(kind) = 1)
         /\ pos \in 0 .. BufLen[kind] /\ pos - Room(kind) \in 0 .. MaxDigits
         /\ BufLen[kind] - pos \in 0 .. MaxDigits
         /\ u \in Nat /\ u >= 1 /\ u < Weight[pos - Room(kind)]
         /\ u = Mag \div Weight[BufLen[kind] - pos]
         /\ buf \in [0 .. BufLen[kind] - 1 -> Byte]
         /\ Written(pos)
<1>1. kind \in Kind /\ neg = (n < 0) /\ neg \in BOOLEAN /\ n \in Argument(kind)
  BY DEF ConvInv, KindInv, TypeOK
<1>2. BufLen[kind] \in 1 .. MaxDigits /\ Length(kind) = BufLen[kind] /\ MaxDigits \in Nat
  BY <1>1, KindFacts, Weights
<1>3. n \in Int /\ (n < 0 => kind \in Signed)
  BY <1>1, ArgumentFacts
<1>4. Mag \in Nat
  BY <1>1, ArgumentFacts
<1>5. Room(kind) \in {0, 1} /\ (neg => Room(kind) = 1)
  BY <1>1, <1>3 DEF Room
<1>6. pos \in 0 .. BufLen[kind] /\ u \in Nat /\ buf \in [0 .. BufLen[kind] - 1 -> Byte]
  BY <1>2 DEF ConvInv, TypeOK
<1>7. BufLen[kind] - pos \in 0 .. MaxDigits
  BY <1>2, <1>6
<1>8. /\ u >= 1 /\ u = Mag \div Weight[BufLen[kind] - pos]
      /\ pos - Room(kind) \in 0 .. MaxDigits
      /\ u < Weight[pos - Room(kind)] /\ Written(pos)
  BY DEF ConvInv, LoopInv
<1> QED BY <1>1, <1>2, <1>3, <1>4, <1>5, <1>6, <1>7, <1>8

\* The buffer b of L bytes holds the last digits of m from index p on.
Ends(b, L, p, m) ==
  /\ b \in [0 .. L - 1 -> Byte]
  /\ \A i \in p .. L - 1 : b[i] = Digit(m, L - 1 - i)

\* Two more digits before those that are written.
LEMMA PutTwo ==
  ASSUME NEW L \in Nat, NEW p \in 2 .. L, NEW m \in Nat, NEW x \in 0 .. 99, NEW b,
         Ends(b, L, p, m),
         Tens(x) = Digit(m, L - p + 1), Units(x) = Digit(m, L - p)
  PROVE  Ends([b EXCEPT ![p - 2] = Tens(x), ![p - 2 + 1] = Units(x)], L, p - 2, m)
<1> DEFINE c == [b EXCEPT ![p - 2] = Tens(x), ![p - 2 + 1] = Units(x)]
<1>1. Tens(x) \in Byte /\ Units(x) \in Byte
  BY DigitByte
<1>2. b \in [0 .. L - 1 -> Byte] /\ c \in [0 .. L - 1 -> Byte]
  BY <1>1 DEF Ends
<1>3. ASSUME NEW i \in p - 2 .. L - 1
      PROVE  c[i] = Digit(m, L - 1 - i)
  <2>1. CASE i = p - 2
    <3>1. L - 1 - i = L - p + 1
      BY <2>1
    <3> QED BY <1>2, <2>1, <3>1
  <2>2. CASE i = p - 1
    <3>1. L - 1 - i = L - p /\ p - 2 + 1 = i
      BY <2>2
    <3> QED BY <1>2, <2>2, <3>1
  <2>3. CASE i \in p .. L - 1
    BY <1>2, <2>3 DEF Ends
  <2> QED BY <2>1, <2>2, <2>3
<1> QED BY <1>2, <1>3 DEF Ends

\* One more digit, or a sign, before those that are written.
LEMMA PutOne ==
  ASSUME NEW L \in Nat, NEW p \in 1 .. L, NEW m \in Nat, NEW x \in Byte, NEW b,
         Ends(b, L, p, m)
  PROVE  LET c == [b EXCEPT ![p - 1] = x]
         IN /\ c[p - 1] = x
            /\ Ends(c, L, p, m)
            /\ x = Digit(m, L - p) => Ends(c, L, p - 1, m)
<1> DEFINE c == [b EXCEPT ![p - 1] = x]
<1>1. b \in [0 .. L - 1 -> Byte] /\ c \in [0 .. L - 1 -> Byte] /\ c[p - 1] = x
  BY DEF Ends
<1>2. \A i \in p .. L - 1 : c[i] = Digit(m, L - 1 - i)
  BY <1>1 DEF Ends
<1>3. ASSUME x = Digit(m, L - p), NEW i \in p - 1 .. L - 1
      PROVE  c[i] = Digit(m, L - 1 - i)
  <2>1. CASE i = p - 1
    <3>1. L - 1 - i = L - p
      BY <2>1
    <3> QED BY <1>1, <1>3, <2>1, <3>1
  <2>2. CASE i \in p .. L - 1
    BY <2>2, <1>2
  <2> QED BY <2>1, <2>2
<1> HIDE DEF c
<1>4. Ends(c, L, p, m) /\ (x = Digit(m, L - p) => Ends(c, L, p - 1, m))
  BY <1>1, <1>2, <1>3 DEF Ends
<1> QED BY <1>1, <1>4 DEF c

LEMMA TwoDigitsKeepsConvInv == ConvInv /\ TwoDigits => ConvInv'
<1> SUFFICES ASSUME ConvInv, TwoDigits PROVE ConvInv'
  OBVIOUS
<1> DEFINE L == BufLen[kind]
           k == L - pos
<1>1. /\ pc = "loop" /\ u >= 100 /\ pos' = pos - 2 /\ u' = u \div 100
      /\ buf' = [buf EXCEPT ![pos'] = Tens(u % 100), ![pos' + 1] = Units(u % 100)]
      /\ kind' = kind /\ n' = n /\ pc' = pc /\ neg' = neg /\ result' = result
  BY DEF TwoDigits, Put2
<1>2. /\ kind \in Kind /\ L \in 1 .. MaxDigits /\ MaxDigits \in Nat /\ Length(kind) = L
      /\ pos \in 0 .. L /\ k \in 0 .. MaxDigits /\ Room(kind) \in {0, 1} /\ u \in Nat
  BY <1>1, InLoop, Weights
<1>14. /\ pos - Room(kind) \in 0 .. MaxDigits /\ u < Weight[pos - Room(kind)]
       /\ Mag \in Nat /\ u = Mag \div Weight[k]
       /\ buf \in [0 .. L - 1 -> Byte] /\ Written(pos)
  BY <1>1, InLoop
<1>3. /\ pos - Room(kind) >= 3 /\ pos - Room(kind) - 2 \in 0 .. MaxDigits
      /\ u \div 100 < Weight[pos - Room(kind) - 2]
  BY <1>1, <1>2, <1>14, RoomFor
<1>4. L = BufLen[kind] /\ k = L - pos
  OBVIOUS
<1> HIDE DEF L, k
<1>5. pos \in 3 .. L /\ L - (pos - 2) = k + 2
  BY <1>2, <1>3, <1>4
<1>6. k \in 0 .. MaxDigits - 2 /\ k \in 0 .. MaxDigits - 1
  BY <1>2, <1>4, <1>5
<1>7. /\ Weight[k] \in Nat \ {0} /\ Weight[k + 1] = 10 * Weight[k] /\ Weight[k + 2] = 100 * Weight[k]
  BY <1>2, <1>6, Weights
<1>8. u \div 100 \in Nat /\ u \div 100 >= 1 /\ u % 100 \in 0 .. 99
  <2>1. u \in Nat /\ u >= 100
    BY <1>1, <1>2
  <2> QED BY <2>1
<1>9. /\ u \div 100 = Mag \div Weight[k + 2]
      /\ Tens(u % 100) = Digit(Mag, k + 1)
      /\ Units(u % 100) = Digit(Mag, k)
  <2> DEFINE w == Weight[k]
  <2>1. /\ w \in Nat \ {0} /\ Mag \in Nat /\ u = Mag \div w
        /\ Weight[k] = w /\ Weight[k + 1] = 10 * w /\ Weight[k + 2] = 100 * w
    BY <1>7, <1>14
  <2> HIDE DEF w
  <2>2. /\ u \div 100 = Mag \div (100 * w)
        /\ (u % 100) \div 10 = (Mag \div (10 * w)) % 10
        /\ (u % 100) % 10 = u % 10
    <3>1. Cut(Mag, w)
      BY <2>1, CutTwo
    <3> QED BY <2>1, <3>1 DEF Cut
  <2>3. /\ Digit(Mag, k + 1) = (Mag \div (10 * w)) % 10
        /\ Digit(Mag, k) = u % 10
    BY <2>1 DEF Digit
  <2>4. Tens(u % 100) = (u % 100) \div 10 /\ Units(u % 100) = (u % 100) % 10
    BY Zenon DEF Tens, Units
  <2>5. u \div 100 = Mag \div Weight[k + 2]
    BY <2>1, <2>2
  <2> QED BY <2>2, <2>3, <2>4, <2>5
<1>10. Mag' = Mag
  BY <1>1 DEF Mag
<1>11. Ends(buf', L, pos - 2, Mag)
  <2>1. L \in Nat /\ pos \in 2 .. L /\ Mag \in Nat /\ u % 100 \in 0 .. 99
    BY <1>2, <1>5, <1>8, <1>14
  <2>2. Ends(buf, L, pos, Mag)
    BY <1>4, <1>14 DEF Written, Ends
  <2>3. L - pos + 1 = k + 1 /\ L - pos = k
    BY <1>2, <1>4
  <2>4. Tens(u % 100) = Digit(Mag, L - pos + 1) /\ Units(u % 100) = Digit(Mag, L - pos)
    BY <1>9, <2>3
  <2>5. buf' = [buf EXCEPT ![pos - 2] = Tens(u % 100), ![pos - 2 + 1] = Units(u % 100)]
    BY <1>1
  <2>6. Ends([buf EXCEPT ![pos - 2] = Tens(u % 100), ![pos - 2 + 1] = Units(u % 100)], L, pos - 2, Mag)
    BY <2>1, <2>2, <2>4, PutTwo
  <2> QED BY <2>5, <2>6
<1>12. TypeOK'
  <2>1. pos' \in 0 .. Length(kind') /\ u' \in Nat
    BY <1>1, <1>2, <1>5, <1>8
  <2>2. buf' \in [0 .. Length(kind') - 1 -> Byte]
    BY <1>1, <1>2, <1>11 DEF Ends
  <2> QED BY <1>1, <2>1, <2>2 DEF ConvInv, TypeOK
<1>13. LoopInv'
  <2>1. Written(pos)'
    BY <1>1, <1>4, <1>10, <1>11 DEF Written, Ends
  <2>2. Room(kind') = Room(kind) /\ BufLen[kind'] = L
    BY <1>1, <1>4
  <2>3. pos' - Room(kind') = pos - Room(kind) - 2 /\ L - pos' = k + 2
    BY <1>1, <1>2, <1>5, <2>2
  <2> QED BY <1>1, <1>3, <1>8, <1>9, <1>10, <2>1, <2>2, <2>3 DEF LoopInv
<1> QED BY <1>1, <1>12, <1>13 DEF ConvInv, KindInv, SignInv, ReturnInv, Converts

LEMMA LastDigitsKeepsConvInv == ConvInv /\ LastDigits => ConvInv'
<1> SUFFICES ASSUME ConvInv, LastDigits PROVE ConvInv'
  OBVIOUS
<1> DEFINE L == BufLen[kind]
           k == L - pos
<1>1. /\ pc = "loop" /\ u < 100 /\ pc' = "sign" /\ u' = u
      /\ kind' = kind /\ n' = n /\ neg' = neg /\ result' = result
      /\ u < 10 => pos' = pos - 1 /\ buf' = [buf EXCEPT ![pos'] = u]
      /\ u >= 10 => pos' = pos - 2 /\ buf' = [buf EXCEPT ![pos'] = Tens(u), ![pos' + 1] = Units(u)]
  <2>1. u \in Nat
    BY InLoop DEF LastDigits
  <2> QED BY <2>1 DEF LastDigits, Put2
<1>2. /\ kind \in Kind /\ L \in 1 .. MaxDigits /\ MaxDigits \in Nat /\ Length(kind) = L
      /\ pos \in 0 .. L /\ k \in 0 .. MaxDigits /\ Room(kind) \in {0, 1} /\ u \in Nat
  BY <1>1, InLoop, Weights
<1>3. /\ pos - Room(kind) \in 0 .. MaxDigits /\ u >= 1 /\ u < Weight[pos - Room(kind)]
      /\ Mag \in Nat /\ u = Mag \div Weight[k]
      /\ buf \in [0 .. L - 1 -> Byte] /\ Written(pos)
  BY <1>1, InLoop
<1>4. pos - Room(kind) >= 1 /\ (u >= 10 => pos - Room(kind) >= 2)
  BY <1>2, <1>3, RoomFor
<1>5. L = BufLen[kind] /\ k = L - pos
  OBVIOUS
<1> HIDE DEF L, k
<1>6. Ends(buf, L, pos, Mag)
  BY <1>3, <1>5 DEF Written, Ends
<1>7. pos \in 1 .. L /\ L \in Nat /\ L - pos = k /\ L - (pos - 1) = k + 1 /\ k \in 0 .. MaxDigits - 1
  BY <1>2, <1>4, <1>5
<1>8. Weight[k] \in Nat \ {0} /\ Weight[k + 1] = 10 * Weight[k]
  BY <1>2, <1>7, Weights
<1>9. Mag' = Mag
  BY <1>1 DEF Mag
<1>10. /\ Mag >= Weight[k]
       /\ u < 10 => Mag < 10 * Weight[k]
       /\ u < 100 => Mag < 100 * Weight[k]
       /\ u >= 10 => Mag >= 10 * Weight[k]
  BY <1>3, <1>8, Shifted
<1>11. /\ pos' >= Room(kind) /\ pos' \in 0 .. L - 1 /\ Ends(buf', L, pos', Mag)
       /\ Mag < Weight[L - pos'] /\ Mag >= Weight[L - pos' - 1]
  <2>1. CASE u < 10
    <3>1. pos' = pos - 1 /\ buf' = [buf EXCEPT ![pos - 1] = u]
      BY <1>1, <2>1
    <3>2. u = Digit(Mag, L - pos)
      <4>1. u % 10 = u
        BY <2>1, <1>2
      <4> QED BY <4>1, <1>3, <1>7 DEF Digit
    <3>3. u \in Byte
      BY <2>1, <1>2 DEF Byte
    <3>4. Ends([buf EXCEPT ![pos - 1] = u], L, pos - 1, Mag)
      BY <1>3, <1>6, <1>7, <3>2, <3>3, PutOne
    <3>5. L - pos' = k + 1 /\ L - pos' - 1 = k
      BY <1>2, <1>7, <3>1
    <3>6. pos' >= Room(kind) /\ pos' \in 0 .. L - 1
      BY <1>2, <1>4, <1>7, <3>1
    <3> QED BY <1>8, <1>10, <2>1, <3>1, <3>4, <3>5, <3>6
  <2>2. CASE u >= 10
    <3>1. pos' = pos - 2 /\ buf' = [buf EXCEPT ![pos - 2] = Tens(u), ![pos - 2 + 1] = Units(u)]
      BY <1>1, <2>2
    <3>2. pos \in 2 .. L /\ L - (pos - 2) = k + 2 /\ L - pos + 1 = k + 1 /\ pos' >= Room(kind) /\ pos' \in 0 .. L - 1
      BY <1>2, <1>4, <1>7, <2>2, <3>1
    <3>3. k \in 0 .. MaxDigits - 2
      BY <1>2, <1>7, <3>2
    <3>4. Weight[k + 2] = 100 * Weight[k]
      BY <3>3, Weights
    <3>5. u \in 0 .. 99 /\ u % 100 = u
      BY <1>1, <1>2
    <3>6. Tens(u) = Digit(Mag, k + 1) /\ Units(u) = Digit(Mag, k)
      <4> DEFINE w == Weight[k]
      <4>1. w \in Nat \ {0} /\ Mag \in Nat /\ u = Mag \div w
        BY <1>3, <1>8
      <4> HIDE DEF w
      <4>2. (u % 100) \div 10 = (Mag \div (10 * w)) % 10 /\ (u % 100) % 10 = u % 10
        <5>1. Cut(Mag, w)
          BY <4>1, CutTwo
        <5> QED BY <4>1, <5>1 DEF Cut
      <4> QED BY <1>8, <3>5, <4>1, <4>2 DEF Tens, Units, Digit, w
    <3>7. Tens(u) = Digit(Mag, L - pos + 1) /\ Units(u) = Digit(Mag, L - pos)
      BY <1>7, <3>2, <3>6
    <3>8. Ends([buf EXCEPT ![pos - 2] = Tens(u), ![pos - 2 + 1] = Units(u)], L, pos - 2, Mag)
      BY <1>3, <1>6, <1>7, <3>2, <3>5, <3>7, PutTwo
    <3>9. L - pos' = k + 2 /\ L - pos' - 1 = k + 1
      BY <1>2, <1>7, <3>1, <3>2
    <3> QED BY <1>1, <1>8, <1>10, <2>2, <3>1, <3>2, <3>4, <3>8, <3>9
  <2> QED BY <1>2, <2>1, <2>2
<1>12. TypeOK'
  <2>1. pos' \in 0 .. Length(kind') /\ buf' \in [0 .. Length(kind') - 1 -> Byte]
    BY <1>1, <1>2, <1>11 DEF Ends
  <2> QED BY <1>1, <2>1 DEF ConvInv, TypeOK
<1>13. SignInv'
  <2>1. BufLen[kind'] = L /\ Room(kind') = Room(kind)
    BY <1>1, <1>5
  <2>2. AllWritten(pos)'
    BY <1>9, <1>11, <2>1 DEF AllWritten, Written, Ends
  <2> QED BY <1>11, <2>1, <2>2 DEF SignInv
<1> QED BY <1>1, <1>12, <1>13 DEF ConvInv, KindInv, LoopInv, ReturnInv, Converts

LEMMA SignKeepsConvInv == ConvInv /\ Sign => ConvInv'
<1> SUFFICES ASSUME ConvInv, Sign PROVE ConvInv'
  OBVIOUS
<1> DEFINE L == BufLen[kind]
<1>1. /\ pc = "sign" /\ pc' = "return" /\ u' = u /\ neg \in BOOLEAN
      /\ kind' = kind /\ n' = n /\ neg' = neg /\ result' = result
      /\ neg => pos' = pos - 1 /\ buf' = [buf EXCEPT ![pos - 1] = Minus]
      /\ ~neg => pos' = pos /\ buf' = buf
  BY DEF Sign, ConvInv, TypeOK
<1>2. /\ kind \in Kind /\ n \in Argument(kind) /\ neg = (n < 0)
      /\ pos >= Room(kind) /\ AllWritten(pos)
      /\ pos \in 0 .. Length(kind) /\ buf \in [0 .. Length(kind) - 1 -> Byte]
  BY <1>1 DEF ConvInv, TypeOK, KindInv, SignInv
<1>3. L \in 1 .. MaxDigits /\ MaxDigits \in Nat /\ Length(kind) = L
  BY <1>2, KindFacts, Weights
<1>4. n \in Int /\ Mag \in Nat /\ (neg => Room(kind) = 1)
  BY <1>2, ArgumentFacts DEF Room
<1>5. Mag' = Mag
  BY <1>1 DEF Mag
<1>6. L = BufLen[kind] /\ BufLen[kind'] = L
  BY <1>1
<1>7. CASE neg
  <2>1. pos \in 1 .. L /\ L \in Nat /\ pos' = pos - 1 /\ pos' + 1 = pos /\ pos' \in 0 .. L
    BY <1>1, <1>2, <1>3, <1>4, <1>7
  <2>2. Minus \in Byte
    BY DEF Minus, Byte
  <2>3. Ends(buf, L, pos, Mag)
    BY <1>2, <1>3 DEF AllWritten, Written, Ends
  <2> HIDE DEF L
  <2>4. /\ [buf EXCEPT ![pos - 1] = Minus][pos - 1] = Minus
        /\ Ends([buf EXCEPT ![pos - 1] = Minus], L, pos, Mag)
    BY <1>4, <2>1, <2>2, <2>3, PutOne
  <2>5. buf'[pos'] = Minus /\ Ends(buf', L, pos' + 1, Mag)
    BY <1>1, <1>7, <2>1, <2>4
  <2>6. AllWritten(pos + 1)'
    BY <1>2, <1>5, <1>6, <2>1, <2>5 DEF AllWritten, Written, Ends
  <2>7. TypeOK'
    BY <1>1, <1>3, <2>1, <2>5 DEF ConvInv, TypeOK, Ends
  <2>8. ReturnInv'
    BY <1>1, <1>7, <2>5, <2>6 DEF ReturnInv
  <2> QED BY <1>1, <2>7, <2>8 DEF ConvInv, KindInv, LoopInv, SignInv, Converts
<1>8. CASE ~neg
  <2>1. pos' = pos /\ buf' = buf
    BY <1>1, <1>8
  <2>2. AllWritten(pos)'
    BY <1>2, <1>5, <1>6, <2>1 DEF AllWritten, Written
  <2>3. TypeOK'
    BY <1>1, <2>1 DEF ConvInv, TypeOK
  <2>4. ReturnInv'
    BY <1>1, <1>8, <2>2 DEF ReturnInv
  <2> QED BY <1>1, <2>3, <2>4 DEF ConvInv, KindInv, LoopInv, SignInv, Converts
<1> QED BY <1>1, <1>7, <1>8

LEMMA ReturnKeepsConvInv == ConvInv /\ Return => ConvInv'
<1> SUFFICES ASSUME ConvInv, Return PROVE ConvInv'
  OBVIOUS
<1> DEFINE L == BufLen[kind]
<1>1. /\ pc = "return" /\ pc' = "done" /\ kind \in Kind /\ result' = Slice(pos, L)
      /\ kind' = kind /\ n' = n /\ u' = u /\ neg' = neg /\ pos' = pos /\ buf' = buf
  BY DEF Return
<1>2. /\ n \in Argument(kind) /\ neg = (n < 0) /\ neg \in BOOLEAN
      /\ pos \in 0 .. Length(kind) /\ buf \in [0 .. Length(kind) - 1 -> Byte]
      /\ neg => buf[pos] = Minus /\ AllWritten(pos + 1)
      /\ ~neg => AllWritten(pos)
  BY <1>1 DEF ConvInv, TypeOK, KindInv, ReturnInv
<1>3. L \in 1 .. MaxDigits /\ MaxDigits \in Nat /\ Length(kind) = L
  BY <1>1, KindFacts, Weights
<1>4. n \in Int /\ Mag \in Nat
  BY <1>1, <1>2, ArgumentFacts
<1>5. L = BufLen[kind]
  OBVIOUS
<1> HIDE DEF L
<1> DEFINE r == Slice(pos, L)
<1>6. /\ L - pos \in Nat
      /\ \A i \in 1 .. L - pos : r[i] = buf[pos + i - 1] /\ r[i] \in Byte
      /\ r \in Seq(Byte) /\ Len(r) = L - pos
  <2>1. L - pos \in Nat /\ \A i \in 1 .. L - pos : pos + i - 1 \in 0 .. L - 1
    BY <1>2, <1>3
  <2>2. \A i \in 1 .. L - pos : buf[pos + i - 1] \in Byte
    BY <1>2, <1>3, <2>1
  <2>3. r = [i \in 1 .. L - pos |-> buf[pos + i - 1]]
    BY DEF Slice
  <2>4. r \in [1 .. L - pos -> Byte]
    BY <2>2, <2>3
  <2> HIDE DEF r
  <2>5. r \in Seq(Byte) /\ Len(r) = L - pos
    BY <2>1, <2>4
  <2> QED BY <2>1, <2>2, <2>3, <2>5
<1> HIDE DEF r
<1>7. IsDecimal(r, n)
  <2>1. CASE n < 0
    <3>1. buf[pos] = Minus /\ AllWritten(pos + 1)
      BY <1>2, <2>1
    <3> DEFINE len == L - pos - 1
    <3>2. /\ pos + 1 \in 0 .. L - 1
          /\ Mag < Weight[L - (pos + 1)]
          /\ L - (pos + 1) > 1 => Mag >= Weight[L - (pos + 1) - 1]
          /\ \A i \in pos + 1 .. L - 1 : buf[i] = Digit(Mag, L - 1 - i)
      BY <1>5, <3>1 DEF AllWritten, Written
    <3>3. len \in 1 .. MaxDigits /\ L - (pos + 1) = len /\ Len(r) - 1 = len
      BY <1>2, <1>3, <1>6, <3>2
    <3>4. r[1] = Minus
      BY <1>2, <1>3, <1>6, <3>1, <3>3
    <3>5. ASSUME NEW i \in 1 .. len
          PROVE  r[1 + i] = Digit(Mag, len - i)
      <4>1. 1 + i \in 1 .. L - pos /\ pos + (1 + i) - 1 = pos + i /\ pos + i \in pos + 1 .. L - 1
            /\ L - 1 - (pos + i) = len - i
        BY <1>2, <1>3, <3>3
      <4>2. r[1 + i] = buf[pos + i] /\ buf[pos + i] = Digit(Mag, L - 1 - (pos + i))
        BY <1>6, <3>2, <4>1
      <4> QED BY <4>1, <4>2
    <3> HIDE DEF len
    <3>6. Mag = -n
      BY <2>1 DEF Mag
    <3> QED BY <2>1, <3>2, <3>3, <3>4, <3>5, <3>6 DEF IsDecimal
  <2>2. CASE ~(n < 0)
    <3>1. AllWritten(pos)
      BY <1>2, <2>2
    <3> DEFINE len == L - pos
    <3>2. /\ pos \in 0 .. L - 1
          /\ Mag < Weight[len]
          /\ len > 1 => Mag >= Weight[len - 1]
          /\ \A i \in pos .. L - 1 : buf[i] = Digit(Mag, L - 1 - i)
      BY <1>5, <3>1 DEF AllWritten, Written
    <3>3. len \in 1 .. MaxDigits /\ Len(r) - 0 = len
      BY <1>2, <1>3, <1>6, <3>2
    <3>4. ASSUME NEW i \in 1 .. len
          PROVE  r[0 + i] = Digit(Mag, len - i)
      <4>1. 0 + i = i /\ i \in 1 .. L - pos /\ pos + i - 1 \in pos .. L - 1
            /\ L - 1 - (pos + i - 1) = len - i
        BY <1>2, <1>3, <3>3
      <4>2. r[i] = buf[pos + i - 1] /\ buf[pos + i - 1] = Digit(Mag, L - 1 - (pos + i - 1))
        BY <1>6, <3>2, <4>1
      <4> QED BY <4>1, <4>2
    <3> HIDE DEF len
    <3>5. Mag = n
      BY <2>2 DEF Mag
    <3> QED BY <2>2, <3>2, <3>3, <3>4, <3>5 DEF IsDecimal
  <2> QED BY <2>1, <2>2
<1>8. result' \in Seq(Byte) /\ IsDecimal(result', n)
  BY <1>1, <1>6, <1>7 DEF r
<1> QED BY <1>1, <1>8, AtOnceKeepsConvInv

-----------------------------------------------------------------------------
(* The theorems.                                                           *)

\* The invariant is inductive, for every routine, width and argument.
THEOREM Inductive == Spec => []ConvInv
<1>1. Init => ConvInv
  BY TypesAtStart
<1>2. ConvInv /\ [Next]_vars => ConvInv'
  BY SmallKeepsConvInv, FromTableKeepsConvInv, StartLoopKeepsConvInv, TwoDigitsKeepsConvInv,
     LastDigitsKeepsConvInv, SignKeepsConvInv, ReturnKeepsConvInv, StutterKeepsConvInv
     DEF Next, Digits
<1> QED BY <1>1, <1>2, PTL DEF Spec

\* No routine writes outside its buffer, which a position below 0 would be:
\* the code indexes an array without looking at pos (conv/int.go:78-98).
THEOREM TypeCorrect == Spec => []TypeOK
<1>1. ConvInv => TypeOK
  BY DEF ConvInv
<1> QED BY <1>1, Inductive, PTL

\* Every integer routine returns the decimal digits of its argument, at every
\* width, the smallest integer included (conv/int.go, conv/uint.go).
THEOREM Decimal == Spec => []Converts
<1>1. ConvInv => Converts
  BY DEF ConvInv
<1> QED BY <1>1, Inductive, PTL

-----------------------------------------------------------------------------
(* Floats.  The invariant is the one of the integers, for the integer part *)
(* of the rounded value in a buffer that ends at the point, and then for   *)
(* its decimals in the buffer behind the point.                            *)

\* The precisions at which f64Dig writes the digits itself.
Short == (Precisions \cup {0}) \cap 0 .. 17

\* What is written, as a number of units of the last decimal, and its parts.
Rounded  == HalfAway(Abs(n) * Weight[prec])
IntPart  == Rounded \div Weight[prec]
DecimalPart == Rounded % Weight[prec]

\* The most digits of the integer part of an eligible value.
Places == CHOOSE k \in 0 .. MaxDigits : k < Point /\ MaxEligible + 1 < Weight[k]

\* The buffer holds the digits of m that end before index e, from p on.
Shows(e, p, m) == \A i \in p .. e - 1 : buf[i] = Digit(m, e - 1 - i)

\* It holds all digits of the integer part, without a leading zero.
AllShown(p) ==
  LET len == Point - p
  IN /\ len \in 1 .. Places
     /\ IntPart < Weight[len]
     /\ len > 1 => IntPart >= Weight[len - 1]
     /\ Shows(Point, p, IntPart)

CutInv ==
  pc \in {"loop", "sign", "return", "decimals"} =>
    /\ n \in Floats \ {0} /\ Eligible
    /\ prec \in Short
    /\ neg = (n < 0)

FloatLoopInv ==
  pc = "loop" =>
    /\ Point - pos \in 0 .. Places
    /\ u < Weight[Places - (Point - pos)]
    /\ u = IntPart \div Weight[Point - pos]
    /\ pos < Point => u >= 1
    /\ Shows(Point, pos, IntPart)
    /\ ul = DecimalPart

FloatSignInv == pc = "sign" => AllShown(pos) /\ ul = DecimalPart

FloatReturnInv ==
  pc \in {"return", "decimals"} =>
    /\ IF neg THEN buf[pos] = Minus /\ AllShown(pos + 1) ELSE AllShown(pos)
    /\ pc = "return" => ul = DecimalPart

DecimalsInv ==
  pc = "decimals" =>
    /\ prec > 0 /\ buf[Point] = Dot
    /\ ed \in Point .. Point + prec
    /\ ul = DecimalPart \div Weight[Point + prec - ed]
    /\ Shows(Point + 1 + prec, ed + 1, DecimalPart)

FloatInv ==
  /\ FloatTypeOK
  /\ IF kind = "float64"
       THEN CutInv /\ FloatLoopInv /\ FloatSignInv /\ FloatReturnInv /\ DecimalsInv /\ Rounds
       ELSE ConvInv

-----------------------------------------------------------------------------
(* Lemmas for floats: powers of ten, and the digits of shifted numbers.    *)

\* A set of numbers that is not empty has a least one.
LEMMA LeastNumber ==
  ASSUME NEW T, T \subseteq Nat, T # {}
  PROVE  \E x \in T : \A y \in T : x <= y
<1> DEFINE R == {ss \in Nat \X Nat : ss[1] < ss[2]}
<1>1. IsWellFoundedOn(R, Nat)
  BY NatLessThanWellFounded DEF OpToRel
<1>2. \A x, y \in T : y < x => <<y, x>> \in R
  OBVIOUS
<1> HIDE DEF R
<1>3. \E x \in T : \A y \in T : ~ (<<y, x>> \in R)
  BY <1>1, WFMin
<1>4. \A x, y \in T : ~(y < x) => x <= y
  OBVIOUS
<1> QED BY <1>2, <1>3, <1>4

\* More digits, a larger power.
LEMMA WeightsGrow ==
  ASSUME NEW j \in 0 .. MaxDigits, NEW k \in 0 .. MaxDigits, j <= k
  PROVE  Weight[j] <= Weight[k]
<1> DEFINE bad == {i \in j .. MaxDigits : ~(Weight[j] <= Weight[i])}
<1>1. SUFFICES ASSUME bad # {} PROVE FALSE
  OBVIOUS
<1>2. PICK i \in bad : \A m \in bad : i <= m
  <2>1. bad \subseteq Nat
    OBVIOUS
  <2> HIDE DEF bad
  <2> QED BY <1>1, <2>1, LeastNumber
<1>3. i \in j .. MaxDigits /\ ~(Weight[j] <= Weight[i]) /\ MaxDigits \in Nat
  BY Weights
<1>4. i # j /\ i - 1 \in j .. MaxDigits - 1 /\ i - 1 \in 0 .. MaxDigits - 1 /\ (i - 1) + 1 = i
      /\ i - 1 \in 0 .. MaxDigits /\ i - 1 \in j .. MaxDigits
  <2>1. Weight[j] \in Nat
    BY Weights
  <2>2. i # j
    BY <1>3, <2>1
  <2> QED BY <1>3, <2>2
<1>5. Weight[j] <= Weight[i - 1]
  BY <1>2, <1>4
<1>6. Weight[(i - 1) + 1] = 10 * Weight[i - 1] /\ Weight[i - 1] \in Nat /\ Weight[j] \in Nat
  BY <1>4, Weights
<1> QED BY <1>3, <1>4, <1>5, <1>6

\* Powers of ten multiply.
LEMMA WeightsMultiply ==
  ASSUME NEW j \in Nat, NEW d \in Nat, j + d <= MaxDigits
  PROVE  Weight[j + d] = Weight[j] * Weight[d]
<1> DEFINE bad == {i \in 0 .. d : Weight[j + i] # Weight[j] * Weight[i]}
<1>1. SUFFICES ASSUME bad # {} PROVE FALSE
  OBVIOUS
<1>2. PICK i \in bad : \A m \in bad : i <= m
  <2>1. bad \subseteq Nat
    OBVIOUS
  <2> HIDE DEF bad
  <2> QED BY <1>1, <2>1, LeastNumber
<1>3. i \in 0 .. d /\ Weight[j + i] # Weight[j] * Weight[i] /\ MaxDigits \in Nat
  BY Weights
<1>4. Weight[j] \in Nat /\ Weight[0] = 1
  BY Weights, <1>3
<1>5. i # 0
  BY <1>3, <1>4
<1> DEFINE h == i - 1
<1>6. /\ h \in 0 .. d /\ h < i /\ h + 1 = i /\ h \in 0 .. MaxDigits - 1
      /\ j + h \in 0 .. MaxDigits - 1 /\ (j + h) + 1 = j + i
      /\ h \in 0 .. MaxDigits
  BY <1>3, <1>5
<1>7. Weight[j + h] = Weight[j] * Weight[h]
  <2>1. h \notin bad
    BY <1>2, <1>6
  <2> QED BY <2>1, <1>6
<1>8. Weight[(j + h) + 1] = 10 * Weight[j + h] /\ Weight[h + 1] = 10 * Weight[h]
      /\ Weight[h] \in Nat
  BY <1>6, Weights
<1> HIDE DEF h, bad
<1>9. \A x, y \in Nat : 10 * (x * y) = x * (10 * y)
  OBVIOUS
<1>10. Weight[j + i] = 10 * (Weight[j] * Weight[h]) /\ Weight[i] = 10 * Weight[h]
  BY <1>6, <1>7, <1>8
<1>11. 10 * (Weight[j] * Weight[h]) = Weight[j] * (10 * Weight[h])
  BY <1>4, <1>8, <1>9
<1>12. Weight[j + i] = Weight[j] * Weight[i]
  BY <1>10, <1>11
<1> QED BY <1>3, <1>12

\* m has k digits.
HasDigits(m, k) == m < Weight[k] /\ (k > 1 => m >= Weight[k - 1])

LEMMA DigitsExist ==
  ASSUME NEW m \in Nat, m < Weight[MaxDigits]
  PROVE  \E k \in 1 .. MaxDigits : HasDigits(m, k)
<1> DEFINE fit == {k \in 1 .. MaxDigits : m < Weight[k]}
<1>1. MaxDigits \in fit /\ fit \subseteq Nat
  BY Weights
<1>2. PICK k \in fit : \A j \in fit : k <= j
  <2> HIDE DEF fit
  <2> QED BY <1>1, LeastNumber
<1>3. k \in 1 .. MaxDigits /\ m < Weight[k]
  BY <1>2
<1>4. ASSUME k > 1 PROVE m >= Weight[k - 1]
  <2>1. k - 1 \in 1 .. MaxDigits /\ k - 1 < k /\ k - 1 \in 0 .. MaxDigits
    BY <1>3, <1>4, Weights
  <2>2. k - 1 \notin fit
    BY <1>2, <2>1
  <2>3. Weight[k - 1] \in Nat
    BY <2>1, Weights
  <2> QED BY <2>1, <2>2, <2>3
<1> QED BY <1>3, <1>4 DEF HasDigits

LEMMA DigitsUnique ==
  ASSUME NEW m \in Nat, NEW j \in 1 .. MaxDigits, NEW k \in 1 .. MaxDigits,
         HasDigits(m, j), HasDigits(m, k)
  PROVE  j = k
<1>1. ASSUME NEW a \in 1 .. MaxDigits, NEW b \in 1 .. MaxDigits, HasDigits(m, a), HasDigits(m, b)
      PROVE  ~(a < b)
  <2>1. SUFFICES ASSUME a < b PROVE FALSE
    OBVIOUS
  <2>2. b > 1 /\ a \in 0 .. MaxDigits /\ b - 1 \in 0 .. MaxDigits /\ a <= b - 1
    BY <2>1, Weights
  <2>3. Weight[a] <= Weight[b - 1] /\ Weight[a] \in Nat /\ Weight[b - 1] \in Nat
    BY <2>2, WeightsGrow, Weights
  <2> QED BY <1>1, <2>2, <2>3 DEF HasDigits
<1> QED BY <1>1

LEMMA DigitIsByte ==
  ASSUME NEW m \in Nat, NEW k \in 0 .. MaxDigits
  PROVE  Digit(m, k) \in 0 .. 9 /\ Digit(m, k) \in Byte
<1>1. Weight[k] \in Nat \ {0}
  BY Weights
<1>2. m \div Weight[k] \in Nat
  BY <1>1, ShiftNat
<1>3. Digit(m, k) \in 0 .. 9
  BY <1>2 DEF Digit
<1> QED BY <1>3 DEF Byte

\* Parts of a product.
LEMMA Products ==
  \A a, b \in Nat : a * b \in Nat /\ a * b = b * a
  OBVIOUS

LEMMA ModNat == \A m \in Nat, w \in Nat \ {0} : m % w \in Nat /\ m % w < w
  OBVIOUS

LEMMA ProductsGrow == \A a, b, c \in Nat : a <= b => c * a <= c * b
  OBVIOUS

\* Dividing a multiple of b and something more.
LEMMA DivPlus ==
  ASSUME NEW q \in Int, NEW r \in Int, NEW b \in Nat \ {0}
  PROVE  (b * q + r) \div b = q + (r \div b) /\ (b * q + r) % b = r % b
<1> DEFINE d == r \div b
           e == r % b
<1>1. d \in Int /\ e \in Int /\ 0 <= e /\ e < b /\ r = b * d + e
  BY DivMod
<1> HIDE DEF d, e
<1>2. b * q + (b * d + e) = b * (q + d) + e
  BY <1>1
<1>3. b * q + r = b * (q + d) + e /\ b * q + r \in Int /\ q + d \in Int
  BY <1>1, <1>2
<1>4. (b * q + r) \div b = q + d /\ (b * q + r) % b = e
  BY <1>1, <1>3, DivModUnique
<1> QED BY <1>4 DEF d, e

\* Shifts by any factors add up.
LEMMA ShiftBy ==
  ASSUME NEW m \in Nat, NEW a \in Nat \ {0}, NEW b \in Nat \ {0}
  PROVE  (m \div a) \div b = m \div (a * b)
<1> DEFINE q == m \div a
           r == m % a
           p == q \div b
           s == q % b
<1>1. q \in Int /\ r \in 0 .. a - 1 /\ m = a * q + r
  BY DivMod
<1> HIDE DEF q, r
<1>2. p \in Int /\ s \in 0 .. b - 1 /\ q = b * p + s
  BY <1>1, DivMod
<1> HIDE DEF p, s
<1>3. m = (a * b) * p + (a * s + r)
  <2>1. a * (b * p + s) = (a * b) * p + a * s
    BY <1>2
  <2>2. a * q = (a * b) * p + a * s
    BY <1>2, <2>1
  <2> QED BY <1>1, <1>2, <2>2
<1>4. 0 <= a * s + r /\ a * s + r < a * b /\ a * s + r \in Int
  <2>1. a * s + a <= a * b /\ a * s \in Nat /\ a * b \in Nat
    BY <1>2
  <2> QED BY <1>1, <2>1
<1>5. a * b \in Nat \ {0}
  OBVIOUS
<1>6. m \div (a * b) = p
  <2> DEFINE w == a * b
             t == a * s + r
  <2>1. w \in Nat \ {0} /\ t \in Int /\ 0 <= t /\ t < w /\ m = w * p + t
    BY <1>3, <1>4, <1>5
  <2> HIDE DEF w, t
  <2>2. m \div w = p
    BY <1>2, <2>1, DivModUnique
  <2> QED BY <2>2 DEF w
<1>7. m \div a = q /\ q \div b = p
  BY DEF q, p
<1> QED BY <1>6, <1>7

-----------------------------------------------------------------------------
(* Lemmas for floats: rounding.                                            *)

\* What the assumptions say.
LEMMA FloatFacts ==
  /\ Den \in Nat \ {0} /\ ExactPrec \in 1 .. MaxDigits /\ MaxDigits \in Nat
  /\ MaxEligible \in Nat
  /\ \A p \in Short : p \in 0 .. MaxDigits /\ Weight[p] \in Nat \ {0}
  /\ \A x \in Floats : /\ x \in Int /\ Abs(x) \in Nat
                       /\ Abs(x) < Den * (Weight[MaxDigits] - 1)
<1>1. \A x \in Floats : x \in Int /\ x < Den * (Weight[MaxDigits] - 1)
                        /\ -x < Den * (Weight[MaxDigits] - 1)
  BY FloatAssumption
<1>2. \A x \in Floats : x \in Int /\ Abs(x) \in Nat /\ Abs(x) < Den * (Weight[MaxDigits] - 1)
  BY <1>1 DEF Abs
<1>3. \A p \in Short : p \in 0 .. MaxDigits /\ Weight[p] \in Nat \ {0}
  BY FloatAssumption, Weights DEF Short
<1> QED BY <1>2, <1>3, FloatAssumption, Weights

\* An eligible integer part, and one more than it, fit before the point with a sign.
LEMMA PlacesFacts ==
  Places \in 0 .. MaxDigits /\ Places < Point /\ MaxEligible + 1 < Weight[Places]
<1>1. \E k \in 0 .. MaxDigits : k < Point /\ MaxEligible + 1 < Weight[k]
  BY FloatAssumption, Weights DEF Point
<1> QED BY <1>1 DEF Places

\* HalfAway by quotient and remainder.
LEMMA HalfAwayIs ==
  ASSUME NEW a \in Nat
  PROVE  HalfAway(a) = IF 2 * (a % Den) < Den THEN a \div Den ELSE a \div Den + 1
<1> DEFINE q == a \div Den
           r == a % Den
           b == 2 * Den
<1>1. q \in Int /\ r \in 0 .. Den - 1 /\ a = Den * q + r /\ Den \in Nat \ {0} /\ b \in Nat \ {0}
  BY DivMod, FloatFacts
<1>2. 2 * a + Den = b * q + (2 * r + Den)
  <2>1. 2 * (Den * q) = (2 * Den) * q
    BY <1>1
  <2> HIDE DEF q, r
  <2> QED BY <1>1, <2>1
<1>3. 2 * r + Den \in Int /\ q \in Int
  BY <1>1
<1> DEFINE t == 2 * r + Den
<1>4. t \div b = IF 2 * r < Den THEN 0 ELSE 1
  <2>1. CASE 2 * r < Den
    <3>1. t = b * 0 + t /\ 0 <= t /\ t < b /\ t \in Int
      BY <1>1, <2>1
    <3> HIDE DEF t, b, r
    <3>2. t \div b = 0
      BY <3>1, <1>1, DivModUnique
    <3> QED BY <2>1, <3>2
  <2>2. CASE ~(2 * r < Den)
    <3>1. t = b * 1 + (t - b) /\ 0 <= t - b /\ t - b < b /\ t - b \in Int /\ t \in Int
      BY <1>1, <2>2
    <3> HIDE DEF t, b, r
    <3>2. t \div b = 1
      BY <3>1, <1>1, DivModUnique
    <3> QED BY <2>2, <3>2
  <2> QED BY <2>1, <2>2
<1>5. HalfAway(a) = (b * q + t) \div b
  BY <1>2 DEF HalfAway
<1>6. (b * q + t) \div b = q + (t \div b)
  <2>1. t \in Int
    BY <1>1
  <2> HIDE DEF t, b, q
  <2> QED BY <1>1, <2>1, DivPlus
<1> HIDE DEF t, b
<1>7. 2 * r < Den => HalfAway(a) = q
  BY <1>1, <1>4, <1>5, <1>6
<1>8. ~(2 * r < Den) => HalfAway(a) = q + 1
  BY <1>1, <1>4, <1>5, <1>6
<1> QED BY <1>7, <1>8

LEMMA RoundedNat == ASSUME NEW a \in Nat PROVE HalfAway(a) \in Nat /\ HalfEven(a) \in Nat
<1>1. a \div Den \in Nat
  BY FloatFacts, ShiftNat
<1>2. HalfAway(a) \in Nat
  BY <1>1, HalfAwayIs
<1>3. HalfEven(a) \in {a \div Den, a \div Den + 1}
  BY DEF HalfEven
<1> QED BY <1>1, <1>2, <1>3

\* The two ways to round differ on ties alone.
LEMMA AwayIsEven ==
  ASSUME NEW a \in Nat, 2 * (a % Den) # Den
  PROVE  HalfAway(a) = HalfEven(a)
<1>1. a % Den \in Int /\ Den \in Int
  BY FloatFacts, DivMod
<1> QED BY <1>1, HalfAwayIs DEF HalfEven

\* Rounding the whole value is rounding the fraction, and a fraction that rounds
\* up to one is what the code carries.
LEMMA RoundedParts ==
  ASSUME NEW a \in Nat, NEW p \in 0 .. MaxDigits
  PROVE  LET l == a % Den
             r == HalfAway(a * Weight[p])
         IN /\ r \in Nat /\ a \div Den \in Nat
            /\ Carries(l, p) => r \div Weight[p] = a \div Den + 1 /\ r % Weight[p] = 0
            /\ ~Carries(l, p) => /\ r \div Weight[p] = a \div Den
                                 /\ r % Weight[p] = HalfAway(l * Weight[p])
<1> DEFINE i == a \div Den
           l == a % Den
           w == Weight[p]
           b == 2 * Den
           t == 2 * (l * w) + Den
           h == t \div b
<1>1. /\ i \in Nat /\ l \in 0 .. Den - 1 /\ a = Den * i + l
      /\ Den \in Nat \ {0} /\ b \in Nat \ {0} /\ w \in Nat \ {0}
  <2>1. Den \in Nat \ {0}
    BY FloatFacts
  <2>4. i \in Nat
    BY <2>1, ShiftNat
  <2>5. l \in 0 .. Den - 1 /\ a = Den * i + l
    BY <2>1, DivMod
  <2>2. i \in Nat /\ l \in 0 .. Den - 1 /\ a = Den * i + l
    BY <2>4, <2>5
  <2>3. b \in Nat \ {0} /\ w \in Nat \ {0}
    BY <2>1, Weights
  <2> QED BY <2>1, <2>2, <2>3
<1>2. h = HalfAway(l * w)
  BY DEF HalfAway
<1> HIDE DEF i, l, w
<1>3. t \in Nat /\ l * w \in Nat /\ i * w \in Nat /\ a * w \in Nat
  BY <1>1, Products
<1>4. HalfAway(a * w) = i * w + h
  <2>1. a * w = Den * (i * w) + l * w
    BY <1>1
  <2>2. 2 * (a * w) + Den = b * (i * w) + t
    <3>1. 2 * (Den * (i * w)) = (2 * Den) * (i * w)
      BY <1>1, <1>3
    <3> QED BY <1>1, <1>3, <2>1, <3>1
  <2>3. (b * (i * w) + t) \div b = i * w + (t \div b)
    <3> DEFINE y == i * w
    <3>1. y \in Int /\ t \in Int
      BY <1>3
    <3> HIDE DEF b, t, y
    <3>2. (b * y + t) \div b = y + (t \div b)
      BY <1>1, <3>1, DivPlus
    <3> QED BY <3>2 DEF y
  <2> QED BY <2>2, <2>3 DEF HalfAway
<1>5. h \in Nat /\ (a * w \in Nat)
  <2> HIDE DEF b, t
  <2> QED BY <1>1, <1>3, ShiftNat
<1>6. HalfAway(a * w) \in Nat
  BY <1>5, RoundedNat
<1>7. Carries(l, p) <=> t >= b * w
  <2>1. 2 * w * l = 2 * (l * w) /\ 2 * w * Den = b * w
    BY <1>1
  <2> QED BY <2>1 DEF Carries, w
<1>8. t < b * w + b
  <2>1. l + 1 <= Den
    BY <1>1
  <2>2. w * (l + 1) <= w * Den
    BY <1>1, <2>1, ProductsGrow
  <2>3. w * (l + 1) = l * w + w /\ b * w = 2 * (w * Den)
    BY <1>1
  <2> QED BY <1>1, <1>3, <2>2, <2>3
<1>9. ASSUME Carries(l, p)
      PROVE  HalfAway(a * w) \div w = i + 1 /\ HalfAway(a * w) % w = 0
  <2>1. t = b * w + (t - b * w) /\ 0 <= t - b * w /\ t - b * w < b /\ t - b * w \in Int
    BY <1>1, <1>3, <1>7, <1>8, <1>9
  <2>2. h = w
    <3> HIDE DEF b, t
    <3> QED BY <1>1, <1>3, <2>1, DivModUnique
  <2>3. HalfAway(a * w) = w * (i + 1) + 0
    <3>1. i * w + w = w * (i + 1) + 0
      BY <1>1
    <3> HIDE DEF h
    <3> QED BY <1>4, <2>2, <3>1
  <2>4. i + 1 \in Int /\ 0 < w /\ w \in Nat \ {0} /\ 0 \in Int /\ 0 <= 0
    BY <1>1
  <2> DEFINE x == HalfAway(a * w)
             j == i + 1
  <2>5. x \in Int /\ x = w * j + 0 /\ j \in Int
    BY <1>6, <2>3, <2>4
  <2> HIDE DEF x, j
  <2>6. x \div w = j /\ x % w = 0
    BY <2>4, <2>5, DivModUnique
  <2> QED BY <2>6 DEF x, j
<1>10. ASSUME ~Carries(l, p)
       PROVE  HalfAway(a * w) \div w = i /\ HalfAway(a * w) % w = h
  <2>1. t < b * w
    BY <1>1, <1>3, <1>7, <1>10
  <2>2. h < w
    <3>1. t = b * h + (t % b) /\ t % b >= 0 /\ t % b \in Int
      <4> HIDE DEF b, t
      <4> QED BY <1>1, <1>3, DivMod DEF h
    <3> HIDE DEF h, t
    <3>2. ASSUME w <= h PROVE FALSE
      <4>1. b * w <= b * h
        BY <1>1, <1>5, <3>2, ProductsGrow
      <4>2. b * w \in Nat /\ b * h \in Nat
        BY <1>1, <1>5, Products
      <4> QED BY <1>3, <2>1, <3>1, <4>1, <4>2
    <3> QED BY <1>1, <1>5, <3>2
  <2> HIDE DEF h
  <2>3. HalfAway(a * w) = w * i + h
    <3>1. i * w = w * i
      BY <1>1, Products
    <3> QED BY <1>4, <3>1
  <2>4. i \in Int /\ h \in Int /\ 0 <= h /\ w \in Nat \ {0}
    BY <1>1, <1>5
  <2> DEFINE x == HalfAway(a * w)
  <2>5. x \in Int /\ x = w * i + h
    BY <1>6, <2>3
  <2> HIDE DEF x
  <2>6. x \div w = i /\ x % w = h
    BY <2>2, <2>4, <2>5, DivModUnique
  <2> QED BY <2>6 DEF x
<1> HIDE DEF h
<1> QED BY <1>1, <1>2, <1>6, <1>9, <1>10 DEF i, l, w

-----------------------------------------------------------------------------
(* Lemmas for floats: text.                                                *)

\* t is an optional sign, the digits of x, and p decimals, those of y.
IsText(t, isNeg, x, y, p) ==
  \E len \in 1 .. MaxDigits :
    LET s == IF isNeg THEN 1 ELSE 0
    IN /\ HasDigits(x, len)
       /\ t \in Seq(Byte)
       /\ Len(t) = s + len + (IF p = 0 THEN 0 ELSE p + 1)
       /\ isNeg => t[1] = Minus
       /\ \A i \in 1 .. len : t[s + i] = Digit(x, len - i)
       /\ p > 0 => t[s + len + 1] = Dot
       /\ \A i \in 1 .. p : t[s + len + 1 + i] = Digit(y, p - i)

\* There is one such text.
LEMMA TextUnique ==
  ASSUME NEW isNeg, NEW x \in Nat, NEW y, NEW p \in Nat, NEW t1, NEW t2,
         IsText(t1, isNeg, x, y, p), IsText(t2, isNeg, x, y, p)
  PROVE  t1 = t2
<1> DEFINE s == IF isNeg THEN 1 ELSE 0
           tail == IF p = 0 THEN 0 ELSE p + 1
           Is(t, len) == /\ t \in Seq(Byte) /\ Len(t) = s + len + tail
                         /\ isNeg => t[1] = Minus
                         /\ \A i \in 1 .. len : t[s + i] = Digit(x, len - i)
                         /\ p > 0 => t[s + len + 1] = Dot
                         /\ \A i \in 1 .. p : t[s + len + 1 + i] = Digit(y, p - i)
<1>1. PICK len \in 1 .. MaxDigits : HasDigits(x, len) /\ Is(t1, len)
  BY DEF IsText
<1>2. PICK len2 \in 1 .. MaxDigits : HasDigits(x, len2) /\ Is(t2, len2)
  BY DEF IsText
<1>3. len2 = len
  BY <1>1, <1>2, DigitsUnique
<1>4. Len(t1) = s + len + tail /\ Len(t2) = Len(t1) /\ t1 \in Seq(Byte) /\ t2 \in Seq(Byte)
  BY <1>1, <1>2, <1>3
<1>5. len \in Nat /\ s \in {0, 1} /\ (s = 1 => isNeg)
  BY Weights
<1>6. ASSUME NEW i \in 1 .. Len(t1)
      PROVE  t1[i] = t2[i]
  <2>1. CASE i = 1 /\ s = 1
    BY <2>1, <1>1, <1>2, <1>5
  <2>2. CASE i \in s + 1 .. s + len
    <3>1. i - s \in 1 .. len /\ s + (i - s) = i
      BY <2>2, <1>5
    <3> QED BY <3>1, <1>1, <1>2, <1>3
  <2>3. CASE p > 0 /\ i = s + len + 1
    BY <2>3, <1>1, <1>2, <1>3
  <2>4. CASE i \in s + len + 2 .. s + len + 1 + p
    <3>1. i - (s + len + 1) \in 1 .. p /\ s + len + 1 + (i - (s + len + 1)) = i
      BY <2>4, <1>5
    <3> QED BY <3>1, <1>1, <1>2, <1>3
  <2>5. \/ i = 1 /\ s = 1
        \/ i \in s + 1 .. s + len
        \/ p > 0 /\ i = s + len + 1
        \/ i \in s + len + 2 .. s + len + 1 + p
    BY <1>4, <1>5
  <2> QED BY <2>1, <2>2, <2>3, <2>4, <2>5
<1> QED BY <1>4, <1>6, SeqEqual

\* Text of integers.
LEMMA IntTextIs ==
  ASSUME NEW m \in Nat, m < Weight[MaxDigits]
  PROVE  \E len \in 1 .. MaxDigits :
           /\ HasDigits(m, len)
           /\ IntText(m) \in Seq(Byte) /\ Len(IntText(m)) = len
           /\ \A i \in 1 .. len : IntText(m)[i] = Digit(m, len - i)
<1> DEFINE len == CHOOSE k \in 1 .. MaxDigits : m < Weight[k] /\ (k > 1 => m >= Weight[k - 1])
<1>1. len \in 1 .. MaxDigits /\ HasDigits(m, len)
  BY DigitsExist DEF HasDigits
<1>2. IntText(m) = [i \in 1 .. len |-> Digit(m, len - i)]
  BY DEF IntText
<1> HIDE DEF len
<1>3. \A i \in 1 .. len : Digit(m, len - i) \in Byte
  <2> TAKE i \in 1 .. len
  <2>1. len - i \in 0 .. MaxDigits
    BY <1>1, Weights
  <2> QED BY <2>1, DigitIsByte
<1>4. IntText(m) \in [1 .. len -> Byte] /\ len \in Nat
  BY <1>1, <1>2, <1>3, Weights
<1>5. IntText(m) \in Seq(Byte) /\ Len(IntText(m)) = len
  BY <1>4
<1> QED BY <1>1, <1>2, <1>5

LEMMA MinusIsSeq == <<Minus>> \in Seq(Byte) /\ <<Dot>> \in Seq(Byte) /\ <<>> \in Seq(Byte)
                    /\ Len(<<Minus>>) = 1 /\ Len(<<Dot>>) = 1 /\ Len(<<>>) = 0
                    /\ <<Minus>>[1] = Minus /\ <<Dot>>[1] = Dot
  BY DEF Minus, Dot, Byte

\* The bytes of a sequence of p bytes.
LEMMA FunctionIsSeq ==
  ASSUME NEW p \in Nat, NEW f \in [1 .. p -> Byte]
  PROVE  f \in Seq(Byte) /\ Len(f) = p
  OBVIOUS

\* A sign, an integer part, and decimals, put together.
LEMMA TextFrom ==
  ASSUME NEW isNeg \in BOOLEAN, NEW x \in Nat, x < Weight[MaxDigits], NEW p \in Nat, NEW y,
         NEW f \in [1 .. p -> Byte], \A i \in 1 .. p : f[i] = Digit(y, p - i)
  PROVE  IsText((IF isNeg THEN <<Minus>> ELSE <<>>) \o IntText(x) \o
                (IF p = 0 THEN <<>> ELSE <<Dot>> \o f), isNeg, x, y, p)
<1> DEFINE s == IF isNeg THEN 1 ELSE 0
           a == IF isNeg THEN <<Minus>> ELSE <<>>
           b == IntText(x)
           c == IF p = 0 THEN <<>> ELSE <<Dot>> \o f
           t == a \o b \o c
<1>1. a \in Seq(Byte) /\ Len(a) = s /\ (isNeg => a[1] = Minus)
  BY MinusIsSeq
<1>2. PICK len \in 1 .. MaxDigits : /\ HasDigits(x, len) /\ b \in Seq(Byte) /\ Len(b) = len
                                    /\ \A i \in 1 .. len : b[i] = Digit(x, len - i)
  BY IntTextIs
<1>3. f \in Seq(Byte) /\ Len(f) = p
  BY FunctionIsSeq
<1>4. /\ c \in Seq(Byte) /\ Len(c) = IF p = 0 THEN 0 ELSE p + 1
      /\ p > 0 => c[1] = Dot
      /\ \A i \in 1 .. p : c[1 + i] = Digit(y, p - i)
  <2>1. CASE p = 0
    BY <2>1, MinusIsSeq
  <2>2. CASE p > 0
    <3>1. /\ c = <<Dot>> \o f /\ <<Dot>> \o f \in Seq(Byte) /\ Len(<<Dot>> \o f) = 1 + p
          /\ \A i \in 1 .. 1 + p : (<<Dot>> \o f)[i] = IF i <= 1 THEN <<Dot>>[i] ELSE f[i - 1]
      BY <2>2, <1>3, MinusIsSeq, ConcatProperties
    <3>2. c[1] = Dot
      BY <2>2, <3>1, MinusIsSeq
    <3>3. ASSUME NEW i \in 1 .. p PROVE c[1 + i] = Digit(y, p - i)
      <4>1. 1 + i \in 1 .. 1 + p /\ ~(1 + i <= 1) /\ (1 + i) - 1 = i
        OBVIOUS
      <4>2. c[1 + i] = f[(1 + i) - 1]
        BY <3>1, <4>1
      <4> QED BY <4>1, <4>2
    <3> QED BY <2>2, <3>1, <3>2, <3>3
  <2> QED BY <2>1, <2>2
<1>5. len \in Nat /\ s \in {0, 1} /\ (isNeg <=> s = 1)
  BY Weights
<1> HIDE DEF a, b, c, s
<1>6. /\ a \o b \in Seq(Byte) /\ Len(a \o b) = s + len
      /\ \A i \in 1 .. s + len : (a \o b)[i] = IF i <= s THEN a[i] ELSE b[i - s]
  BY <1>1, <1>2, ConcatProperties
<1>7. /\ t \in Seq(Byte) /\ Len(t) = s + len + (IF p = 0 THEN 0 ELSE p + 1)
      /\ \A i \in 1 .. s + len + Len(c) : t[i] = IF i <= s + len THEN (a \o b)[i] ELSE c[i - (s + len)]
  <2> DEFINE d == a \o b
  <2>1. d \in Seq(Byte) /\ Len(d) = s + len /\ c \in Seq(Byte)
    BY <1>4, <1>6
  <2> HIDE DEF d
  <2>2. /\ d \o c \in Seq(Byte) /\ Len(d \o c) = Len(d) + Len(c)
        /\ \A i \in 1 .. Len(d) + Len(c) : (d \o c)[i] = IF i <= Len(d) THEN d[i] ELSE c[i - Len(d)]
    BY <2>1, ConcatProperties
  <2> QED BY <1>4, <2>1, <2>2 DEF d
<1> HIDE DEF t
<1>8. isNeg => t[1] = Minus
  <2>1. isNeg => 1 \in 1 .. s + len + Len(c) /\ 1 <= s + len /\ 1 \in 1 .. s + len /\ 1 <= s
    BY <1>4, <1>5
  <2> QED BY <1>1, <1>6, <1>7, <2>1
<1>9. ASSUME NEW i \in 1 .. len PROVE t[s + i] = Digit(x, len - i)
  <2>1. /\ s + i \in 1 .. s + len + Len(c) /\ s + i <= s + len /\ s + i \in 1 .. s + len
        /\ ~(s + i <= s) /\ (s + i) - s = i
    BY <1>4, <1>5
  <2>2. t[s + i] = (a \o b)[s + i]
    BY <2>1, <1>7
  <2>3. (a \o b)[s + i] = b[(s + i) - s]
    BY <2>1, <1>6
  <2> QED BY <1>2, <2>1, <2>2, <2>3
<1>10. ASSUME NEW i \in 0 .. p, p > 0 PROVE t[s + len + 1 + i] = c[1 + i]
  <2>1. /\ s + len + 1 + i \in 1 .. s + len + Len(c) /\ ~(s + len + 1 + i <= s + len)
        /\ (s + len + 1 + i) - (s + len) = 1 + i
    BY <1>4, <1>5, <1>10
  <2>2. t[s + len + 1 + i] = c[(s + len + 1 + i) - (s + len)]
    BY <1>7, <2>1
  <2> QED BY <2>1, <2>2
<1>11. p > 0 => t[s + len + 1] = Dot
  <2>1. SUFFICES ASSUME p > 0 PROVE t[s + len + 1] = Dot
    OBVIOUS
  <2>2. t[s + len + 1 + 0] = c[1 + 0]
    BY <2>1, <1>10
  <2> QED BY <1>4, <1>5, <2>1, <2>2
<1>12. \A i \in 1 .. p : t[s + len + 1 + i] = Digit(y, p - i)
  <2> TAKE i \in 1 .. p
  <2>1. i \in 0 .. p /\ p > 0
    OBVIOUS
  <2> QED BY <1>4, <1>10, <2>1
<1>13. IsText(t, isNeg, x, y, p)
  BY <1>2, <1>7, <1>8, <1>9, <1>11, <1>12 DEF IsText, s
<1> QED BY <1>13 DEF t, a, b, c

LEMMA TextIs ==
  ASSUME NEW isNeg \in BOOLEAN, NEW q \in Nat, NEW p \in 0 .. MaxDigits,
         q \div Weight[p] < Weight[MaxDigits]
  PROVE  IsText(Text(isNeg, q, p), isNeg, q \div Weight[p], q % Weight[p], p)
<1> DEFINE x == q \div Weight[p]
           y == q % Weight[p]
           f == [i \in 1 .. p |-> Digit(y, p - i)]
<1>1. Weight[p] \in Nat \ {0} /\ p \in Nat
  BY Weights
<1>2. x \in Nat
  BY <1>1, ShiftNat
<1>3. y \in Nat
  BY <1>1, ModNat
<1>4. Text(isNeg, q, p) = (IF isNeg THEN <<Minus>> ELSE <<>>) \o IntText(x) \o
                          (IF p = 0 THEN <<>> ELSE <<Dot>> \o f)
  BY DEF Text
<1>5. x < Weight[MaxDigits]
  OBVIOUS
<1> HIDE DEF x, y
<1>6. f \in [1 .. p -> Byte]
  <2> SUFFICES ASSUME NEW i \in 1 .. p PROVE Digit(y, p - i) \in Byte
    OBVIOUS
  <2>1. p - i \in 0 .. MaxDigits
    BY Weights
  <2> QED BY <1>3, <2>1, DigitIsByte
<1>7. \A i \in 1 .. p : f[i] = Digit(y, p - i)
  OBVIOUS
<1> HIDE DEF f
<1>8. IsText((IF isNeg THEN <<Minus>> ELSE <<>>) \o IntText(x) \o
             (IF p = 0 THEN <<>> ELSE <<Dot>> \o f), isNeg, x, y, p)
  BY <1>1, <1>2, <1>5, <1>6, <1>7, TextFrom
<1> QED BY <1>4, <1>8 DEF x, y

-----------------------------------------------------------------------------
(* Lemmas for floats: what strconv writes.                                 *)

LEMMA DivBelow ==
  ASSUME NEW a \in Nat, NEW b \in Nat \ {0}, NEW c \in Nat, a < b * c
  PROVE  a \div b < c
<1> DEFINE q == a \div b
<1>1. q \in Nat /\ a = b * q + (a % b) /\ a % b \in Nat
  BY DivMod, ShiftNat, ModNat
<1> HIDE DEF q
<1>2. SUFFICES ASSUME c <= q PROVE FALSE
  BY <1>1 DEF q
<1>3. b * c <= b * q /\ b * c \in Nat /\ b * q \in Nat
  BY <1>1, <1>2, ProductsGrow, Products
<1> QED BY <1>1, <1>3

\* Every number of decimals writes the integer part in at most MaxDigits digits.
LEMMA WrittenIntegerPart ==
  ASSUME NEW x \in Floats, NEW p \in 0 .. MaxDigits
  PROVE  LET q == HalfEven(Abs(x) * Weight[p])
         IN q \in Nat /\ q \div Weight[p] < Weight[MaxDigits]
<1> DEFINE w == Weight[p]
           c == Weight[MaxDigits] - 1
           a == Abs(x)
           q == HalfEven(a * w)
<1>1. /\ w \in Nat \ {0} /\ Den \in Nat \ {0} /\ c \in Nat /\ a \in Nat /\ a < Den * c
  <2>1. Weight[MaxDigits] \in Nat \ {0} /\ w \in Nat \ {0}
    BY Weights
  <2>2. a \in Nat /\ a < Den * c /\ Den \in Nat \ {0}
    BY FloatFacts
  <2> QED BY <2>1, <2>2
<1> HIDE DEF w, a
<1>2. a * w \in Nat /\ a * w < Den * (c * w) /\ c * w \in Nat
  <2> HIDE DEF c
  <2>1. w * (a + 1) <= w * (Den * c)
    <3>1. a + 1 <= Den * c /\ Den * c \in Nat /\ a + 1 \in Nat
      BY <1>1, Products
    <3> QED BY <1>1, <3>1, ProductsGrow
  <2>2. w * (a + 1) = a * w + w /\ w * (Den * c) = Den * (c * w)
    BY <1>1
  <2>3. a * w \in Nat /\ c * w \in Nat /\ Den * (c * w) \in Nat
    BY <1>1, Products
  <2> QED BY <1>1, <2>1, <2>2, <2>3
<1>3. (a * w) \div Den < c * w /\ (a * w) \div Den \in Nat
  <2> DEFINE y == a * w
             z == c * w
  <2>1. y \in Nat /\ z \in Nat /\ y < Den * z
    BY <1>2
  <2> HIDE DEF y, z
  <2>2. y \div Den < z /\ y \div Den \in Nat
    BY <1>1, <2>1, DivBelow, ShiftNat
  <2> QED BY <2>2 DEF y, z
<1>4. q \in {(a * w) \div Den, (a * w) \div Den + 1}
  BY DEF HalfEven
<1>5. q \in Nat /\ q <= c * w
  BY <1>2, <1>3, <1>4
<1>6. q < w * (c + 1)
  <2> HIDE DEF q, c
  <2>1. w * (c + 1) = c * w + w
    BY <1>1
  <2> QED BY <1>1, <1>2, <1>5, <2>1
<1>7. q \div w < c + 1
  <2>1. c + 1 \in Nat
    BY <1>1
  <2> HIDE DEF q, c
  <2> QED BY <1>1, <1>5, <1>6, <2>1, DivBelow
<1>8. c + 1 = Weight[MaxDigits]
  BY Weights
<1> QED BY <1>5, <1>7, <1>8 DEF w, a

LEMMA WrittenText ==
  ASSUME NEW x \in Floats, NEW p \in 0 .. MaxDigits
  PROVE  LET q == HalfEven(Abs(x) * Weight[p])
         IN IsText(Text(x < 0, q, p), x < 0, q \div Weight[p], q % Weight[p], p)
<1> DEFINE q == HalfEven(Abs(x) * Weight[p])
<1>1. q \in Nat /\ q \div Weight[p] < Weight[MaxDigits] /\ (x < 0) \in BOOLEAN
  BY WrittenIntegerPart
<1> HIDE DEF q
<1>2. IsText(Text(x < 0, q, p), x < 0, q \div Weight[p], q % Weight[p], p)
  BY <1>1, TextIs
<1> QED BY <1>2 DEF q

\* The decimals that identify a value, and those of zero.
LEMMA ShortestIs ==
  ASSUME NEW x \in Floats
  PROVE  Shortest(x) \in 0 .. ExactPrec /\ (x = 0 => Shortest(x) = 0)
<1> DEFINE exact(p) == (Abs(x) * Weight[p]) % Den = 0
           some == {p \in 0 .. ExactPrec : exact(p)}
<1>1. Abs(x) \in Nat /\ Den \in Nat \ {0} /\ ExactPrec \in 1 .. MaxDigits /\ MaxDigits \in Nat
  BY FloatFacts
<1>2. exact(ExactPrec)
  <2> DEFINE w == Weight[ExactPrec]
             a == Abs(x)
             d == w \div Den
  <2>1. w \in Nat /\ w % Den = 0 /\ ExactPrec \in 0 .. MaxDigits
    BY <1>1, Weights, FloatAssumption
  <2>2. w = Den * d /\ d \in Nat
    <3> HIDE DEF w
    <3>1. d \in Nat
      BY <1>1, <2>1, ShiftNat
    <3>2. w = Den * (w \div Den) + (w % Den)
      BY <1>1, <2>1, DivMod
    <3> QED BY <1>1, <2>1, <3>1, <3>2
  <2> HIDE DEF d
  <2>3. a * w = Den * (a * d) /\ a * d \in Nat
    <3>1. a * (Den * d) = Den * (a * d)
      <4> HIDE DEF a
      <4> QED BY <1>1, <2>2 DEF a
    <3> QED BY <1>1, <2>2, <3>1, Products
  <2> DEFINE z == a * d
             v == a * w
  <2>4. v = Den * z + 0 /\ z \in Int /\ v \in Int
    BY <1>1, <2>3, Products
  <2> HIDE DEF z, v
  <2>5. v % Den = 0
    BY <1>1, <2>4, DivModUnique
  <2> QED BY <2>5 DEF v
<1>3. \E p \in 0 .. ExactPrec : exact(p) /\ \A p2 \in 0 .. p - 1 : ~exact(p2)
  <2>1. some \subseteq Nat /\ some # {}
    BY <1>1, <1>2
  <2>2. PICK p \in some : \A y \in some : p <= y
    <3> HIDE DEF some
    <3> QED BY <2>1, LeastNumber
  <2>3. p \in 0 .. ExactPrec /\ exact(p)
    BY <2>2
  <2>4. ASSUME NEW p2 \in 0 .. p - 1 PROVE ~exact(p2)
    <3>1. p2 \in 0 .. ExactPrec /\ ~(p <= p2)
      BY <1>1, <2>3
    <3> QED BY <2>2, <3>1
  <2> QED BY <2>3, <2>4
<1>4. Shortest(x) = CHOOSE p \in 0 .. ExactPrec : exact(p) /\ \A p2 \in 0 .. p - 1 : ~exact(p2)
  BY DEF Shortest
<1>5. Shortest(x) \in 0 .. ExactPrec /\ \A p2 \in 0 .. Shortest(x) - 1 : ~exact(p2)
  <2> HIDE DEF exact
  <2> QED BY <1>3, <1>4
<1>6. ASSUME x = 0 PROVE Shortest(x) = 0
  <2>1. exact(0)
    <3>1. Abs(x) * Weight[0] = 0
      BY <1>6, Weights DEF Abs
    <3>2. 0 % Den = 0
      BY <1>1
    <3> QED BY <3>1, <3>2
  <2>2. ~(0 \in 0 .. Shortest(x) - 1)
    BY <1>5, <2>1
  <2> QED BY <1>1, <1>5, <2>2
<1> QED BY <1>5, <1>6

LEMMA FormatFloatIsSeq ==
  ASSUME NEW x \in Floats, NEW p \in Int
  PROVE  FormatFloat(x, p) \in Seq(Byte)
<1> DEFINE shown == IF p < 0 THEN Shortest(x) ELSE IF p > ExactPrec THEN ExactPrec ELSE p
           t == Text(x < 0, HalfEven(Abs(x) * Weight[shown]), shown)
           z == [i \in 1 .. p - shown |-> 0]
<1>1. shown \in 0 .. MaxDigits /\ shown \in Int
  BY ShortestIs, FloatFacts
<1>2. FormatFloat(x, p) = t \o z
  BY DEF FormatFloat
<1> HIDE DEF shown
<1>3. t \in Seq(Byte)
  BY <1>1, WrittenText DEF IsText
<1>4. z \in Seq(Byte)
  <2>1. CASE p - shown \in Nat
    <3>1. z \in [1 .. p - shown -> Byte]
      BY DEF Byte
    <3> HIDE DEF z
    <3> QED BY <2>1, <3>1, FunctionIsSeq
  <2>2. CASE p - shown < 0
    <3>1. 1 .. p - shown = {} /\ 1 .. 0 = {}
      BY <1>1, <2>2
    <3>2. z \in [1 .. 0 -> Byte]
      BY <3>1
    <3> HIDE DEF z
    <3> QED BY <3>2, FunctionIsSeq
  <2> QED BY <1>1, <2>1, <2>2
<1> HIDE DEF t, z
<1> QED BY <1>2, <1>3, <1>4, ConcatProperties

\* The digits of a shifted number.
LEMMA ShiftedDigits ==
  ASSUME NEW y \in Nat, NEW d \in Nat, NEW e \in Nat, e + d <= MaxDigits
  PROVE  /\ \A i \in 1 .. e : Digit(y * Weight[d], e + d - i) = Digit(y, e - i)
         /\ \A i \in e + 1 .. e + d : Digit(y * Weight[d], e + d - i) = 0
<1>1. d \in 0 .. MaxDigits /\ Weight[d] \in Nat \ {0} /\ MaxDigits \in Nat
  BY Weights
<1>2. ASSUME NEW i \in 1 .. e
      PROVE  Digit(y * Weight[d], e + d - i) = Digit(y, e - i)
  <2> DEFINE k == e - i
             w == Weight[k]
             v == Weight[d]
  <2>1. k \in Nat /\ d + k <= MaxDigits /\ e + d - i = d + k /\ k \in 0 .. MaxDigits
    BY <1>1
  <2> HIDE DEF k
  <2>2. Weight[d + k] = v * w /\ w \in Nat \ {0} /\ v \in Nat \ {0}
    <3>1. Weight[k] \in Nat \ {0}
      BY <2>1, Weights
    <3>2. Weight[d + k] = Weight[d] * Weight[k]
      BY <2>1, WeightsMultiply
    <3> QED BY <1>1, <3>1, <3>2
  <2> HIDE DEF w, v
  <2>3. (y * v) \div (v * w) = ((y * v) \div v) \div w
    BY <2>2, Products, ShiftBy
  <2>4. (y * v) \div v = y
    <3>1. y * v = v * y + 0 /\ y * v \in Int
      BY <2>2, Products
    <3> QED BY <2>2, <3>1, DivModUnique
  <2>5. (y * v) \div Weight[d + k] = y \div w
    BY <2>2, <2>3, <2>4
  <2> QED BY <2>1, <2>5 DEF Digit, k, v, w
<1>3. ASSUME NEW i \in e + 1 .. e + d
      PROVE  Digit(y * Weight[d], e + d - i) = 0
  <2> DEFINE k == e + d - i
             j == d - k
             g == j - 1
  <2>1. /\ k \in Nat /\ j \in Nat /\ g \in Nat /\ k + j = d /\ g + 1 = j /\ k + j <= MaxDigits
        /\ k \in 0 .. MaxDigits /\ g \in 0 .. MaxDigits - 1 /\ g \in 0 .. MaxDigits
    BY <1>1
  <2> HIDE DEF k, j, g
  <2>2. Weight[k + j] = Weight[k] * Weight[j] /\ Weight[g + 1] = 10 * Weight[g]
        /\ Weight[k] \in Nat \ {0} /\ Weight[g] \in Nat \ {0}
    <3>1. Weight[k + j] = Weight[k] * Weight[j]
      BY <2>1, WeightsMultiply
    <3> QED BY <2>1, <3>1, Weights
  <2> DEFINE w == Weight[k]
             z == y * Weight[g]
  <2>3. y * Weight[d] = w * (10 * z) + 0 /\ z \in Nat /\ w \in Nat \ {0}
    <3> DEFINE v == Weight[g]
    <3>1. Weight[d] = w * (10 * v) /\ v \in Nat /\ w \in Nat \ {0}
      BY <2>1, <2>2
    <3> HIDE DEF v, w
    <3>2. y * (w * (10 * v)) = w * (10 * (y * v)) + 0
      BY <3>1
    <3>3. y * v \in Nat
      BY <3>1, Products
    <3> QED BY <3>1, <3>2, <3>3 DEF v
  <2> DEFINE x == y * Weight[d]
             t == 10 * z
  <2>4. x = w * t + 0 /\ t \in Int /\ x \in Int
    BY <2>3, <1>1, Products
  <2> HIDE DEF w, x, t, z
  <2>5. x \div w = t
    BY <2>3, <2>4, DivModUnique
  <2>6. t % 10 = 0
    BY <2>3 DEF t
  <2> QED BY <2>5, <2>6 DEF Digit, k, x, w
<1> QED BY <1>2, <1>3

\* Zeros after exact decimals.
LEMMA PaddedText ==
  ASSUME NEW isNeg, NEW x \in Nat, NEW y \in Nat, NEW e \in Nat, e >= 1, NEW d \in Nat,
         e + d <= MaxDigits, NEW t, IsText(t, isNeg, x, y, e),
         NEW z \in [1 .. d -> Byte], \A i \in 1 .. d : z[i] = 0
  PROVE  IsText(t \o z, isNeg, x, y * Weight[d], e + d)
<1> DEFINE s == IF isNeg THEN 1 ELSE 0
           r == t \o z
<1>0. PICK len \in 1 .. MaxDigits :
        /\ HasDigits(x, len) /\ t \in Seq(Byte)
        /\ Len(t) = s + len + (IF e = 0 THEN 0 ELSE e + 1)
        /\ isNeg => t[1] = Minus
        /\ \A i \in 1 .. len : t[s + i] = Digit(x, len - i)
        /\ e > 0 => t[s + len + 1] = Dot
        /\ \A i \in 1 .. e : t[s + len + 1 + i] = Digit(y, e - i)
  BY Zenon DEF IsText
<1>1. /\ HasDigits(x, len) /\ t \in Seq(Byte) /\ Len(t) = s + len + (e + 1)
      /\ isNeg => t[1] = Minus
      /\ \A i \in 1 .. len : t[s + i] = Digit(x, len - i)
      /\ t[s + len + 1] = Dot
      /\ \A i \in 1 .. e : t[s + len + 1 + i] = Digit(y, e - i)
  <2>1. e # 0 /\ e > 0
    OBVIOUS
  <2> HIDE DEF s
  <2> QED BY <1>0, <2>1
<1>2. z \in Seq(Byte) /\ Len(z) = d
  BY FunctionIsSeq
<1>3. len \in Nat /\ s \in {0, 1} /\ (isNeg <=> s = 1)
  BY Weights
<1> HIDE DEF s
<1>4. /\ r \in Seq(Byte) /\ Len(r) = s + len + (e + 1) + d
      /\ \A i \in 1 .. s + len + (e + 1) + d :
           r[i] = IF i <= s + len + (e + 1) THEN t[i] ELSE z[i - (s + len + (e + 1))]
  BY <1>1, <1>2, ConcatProperties
<1> HIDE DEF r
<1>5. \A i \in 1 .. s + len + (e + 1) : r[i] = t[i]
  BY <1>3, <1>4
<1>6. isNeg => r[1] = Minus
  <2>1. 1 \in 1 .. s + len + (e + 1)
    BY <1>3
  <2> QED BY <1>1, <1>5, <2>1
<1>7. ASSUME NEW i \in 1 .. len PROVE r[s + i] = Digit(x, len - i)
  <2>1. s + i \in 1 .. s + len + (e + 1)
    BY <1>3
  <2> QED BY <1>1, <1>5, <2>1
<1>8. r[s + len + 1] = Dot
  <2>1. s + len + 1 \in 1 .. s + len + (e + 1)
    BY <1>3
  <2> QED BY <1>1, <1>5, <2>1
<1>9. ASSUME NEW i \in 1 .. e + d
      PROVE  r[s + len + 1 + i] = Digit(y * Weight[d], e + d - i)
  <2>0. /\ \A j \in 1 .. e : Digit(y * Weight[d], e + d - j) = Digit(y, e - j)
        /\ \A j \in e + 1 .. e + d : Digit(y * Weight[d], e + d - j) = 0
    BY ShiftedDigits, Zenon
  <2>1. CASE i \in 1 .. e
    <3>1. s + len + 1 + i \in 1 .. s + len + (e + 1)
      BY <1>3, <2>1
    <3>2. r[s + len + 1 + i] = Digit(y, e - i)
      BY <1>1, <1>5, <2>1, <3>1
    <3>3. Digit(y * Weight[d], e + d - i) = Digit(y, e - i)
      BY <2>0, <2>1, Zenon
    <3> QED BY <3>2, <3>3
  <2>2. CASE i \in e + 1 .. e + d
    <3>1. /\ s + len + 1 + i \in 1 .. s + len + (e + 1) + d
          /\ ~(s + len + 1 + i <= s + len + (e + 1))
          /\ (s + len + 1 + i) - (s + len + (e + 1)) = i - e /\ i - e \in 1 .. d
      BY <1>3, <2>2
    <3>2. r[s + len + 1 + i] = z[(s + len + 1 + i) - (s + len + (e + 1))]
      BY <1>4, <3>1
    <3>3. r[s + len + 1 + i] = 0
      BY <3>1, <3>2
    <3>4. Digit(y * Weight[d], e + d - i) = 0
      BY <2>0, <2>2, Zenon
    <3> QED BY <3>3, <3>4
  <2>3. i \in 1 .. e \/ i \in e + 1 .. e + d
    OBVIOUS
  <2> QED BY <2>1, <2>2, <2>3
<1>10. e + d # 0 /\ Len(r) = s + len + ((e + d) + 1)
  BY <1>3, <1>4
<1>11. IsText(r, isNeg, x, y * Weight[d], e + d)
  BY <1>1, <1>4, <1>6, <1>7, <1>8, <1>9, <1>10 DEF IsText, s
<1> QED BY <1>11 DEF r

\* A value with more decimals than it needs.
LEMMA ExactParts ==
  ASSUME NEW a \in Nat, NEW d \in Nat, ExactPrec + d <= MaxDigits
  PROVE  LET q == HalfEven(a * Weight[ExactPrec])
             r == HalfAway(a * Weight[ExactPrec + d])
         IN /\ q \in Nat
            /\ r \div Weight[ExactPrec + d] = q \div Weight[ExactPrec]
            /\ r % Weight[ExactPrec + d] = (q % Weight[ExactPrec]) * Weight[d]
<1> DEFINE w == Weight[ExactPrec]
           v == Weight[d]
           g == w \div Den
           q == a * g
           i == q \div w
           j == q % w
<1>1. Den \in Nat \ {0} /\ ExactPrec \in 1 .. MaxDigits /\ d \in 0 .. MaxDigits /\ MaxDigits \in Nat
  BY FloatFacts
<1>2. w \in Nat \ {0} /\ v \in Nat \ {0} /\ w % Den = 0 /\ Weight[ExactPrec + d] = w * v
  <2>1. w \in Nat \ {0} /\ v \in Nat \ {0}
    BY <1>1, Weights
  <2>2. Weight[ExactPrec + d] = w * v
    BY <1>1, WeightsMultiply
  <2> QED BY <2>1, <2>2, FloatAssumption
<1> HIDE DEF w, v
<1>3. g \in Nat
  BY <1>1, <1>2, ShiftNat
<1>4. w = Den * g
  <2>1. w = Den * (w \div Den) + (w % Den)
    BY <1>1, <1>2, DivMod
  <2> QED BY <1>1, <1>2, <1>3, <2>1
<1> HIDE DEF g
<1>5. q \in Nat /\ q * v \in Nat
  BY <1>2, <1>3, Products
<1>6. a * w = Den * q /\ a * (w * v) = Den * (q * v)
  <2>1. a * (Den * g) = Den * (a * g) /\ a * ((Den * g) * v) = Den * ((a * g) * v)
    BY <1>1, <1>2, <1>3
  <2> QED BY <1>4, <2>1
<1>7. ASSUME NEW m \in Nat
      PROVE  (Den * m) \div Den = m /\ (Den * m) % Den = 0
  <2> DEFINE x == Den * m
  <2>1. x = Den * m + 0 /\ x \in Int
    BY <1>1, Products
  <2> HIDE DEF x
  <2>2. x \div Den = m /\ x % Den = 0
    BY <1>1, <2>1, DivModUnique
  <2> QED BY <2>2 DEF x
<1> HIDE DEF q
<1>8. HalfEven(a * w) = q
  <2>1. (Den * q) \div Den = q /\ (Den * q) % Den = 0
    BY <1>5, <1>7
  <2>2. 2 * 0 < Den
    BY <1>1
  <2> QED BY <1>6, <2>1, <2>2 DEF HalfEven
<1>9. HalfAway(a * (w * v)) = q * v
  <2> DEFINE m == q * v
             y == Den * m
  <2>1. m \in Nat /\ y \in Nat /\ y \div Den = m /\ y % Den = 0 /\ 2 * 0 < Den
    BY <1>1, <1>5, <1>7, Products
  <2>2. a * (w * v) = y
    BY <1>6
  <2> HIDE DEF m, y
  <2>3. HalfAway(y) = m
    BY <2>1, HalfAwayIs
  <2> QED BY <2>2, <2>3 DEF m
<1>10. i \in Nat /\ j \in Nat /\ j < w /\ q = w * i + j
  <2>1. i \in Nat /\ j \in Nat /\ j < w
    BY <1>2, <1>5, ShiftNat, ModNat
  <2>2. w \in Nat \ {0} /\ q \in Int
    BY <1>2, <1>5
  <2> HIDE DEF q, w
  <2>3. q = w * i + j
    BY <2>2, DivMod
  <2> QED BY <2>1, <2>3
<1> HIDE DEF i, j
<1>11. q * v = (w * v) * i + j * v
  <2>1. (w * i + j) * v = (w * v) * i + j * v
    BY <1>2, <1>10
  <2> QED BY <1>10, <2>1
<1>12. j * v \in Nat /\ j * v < w * v /\ w * v \in Nat \ {0}
  <2>1. j + 1 <= w
    BY <1>2, <1>10
  <2>2. v * (j + 1) <= v * w
    BY <1>2, <1>10, <2>1, ProductsGrow
  <2>3. v * (j + 1) = j * v + v /\ v * w = w * v
    BY <1>2, <1>10
  <2>4. j * v \in Nat /\ w * v \in Nat
    BY <1>2, <1>10, Products
  <2> QED BY <1>2, <2>2, <2>3, <2>4
<1>13. (q * v) \div (w * v) = i /\ (q * v) % (w * v) = j * v
  <2> DEFINE x == q * v
             y == w * v
             z == j * v
  <2>1. x \in Int /\ y \in Nat \ {0} /\ z \in Int /\ 0 <= z /\ z < y /\ x = y * i + z
    BY <1>5, <1>11, <1>12
  <2>3. i \in Int
    BY <1>10
  <2> HIDE DEF x, y, z
  <2>2. x \div y = i /\ x % y = z
    BY <2>1, <2>3, DivModUnique
  <2> QED BY <2>2 DEF x, y, z
<1> QED BY <1>2, <1>5, <1>8, <1>9, <1>13 DEF i, j, w, v

\* Off ties, strconv writes the value rounded as the code rounds it.
LEMMA FormatIs ==
  ASSUME NEW x \in Floats, NEW p \in Short,
         2 * ((Abs(x) * Weight[p]) % Den) # Den
  PROVE  LET r == HalfAway(Abs(x) * Weight[p])
         IN IsText(FormatFloat(x, p), x < 0, r \div Weight[p], r % Weight[p], p)
<1> DEFINE a == Abs(x)
           r == HalfAway(a * Weight[p])
<1>1. /\ a \in Nat /\ p \in 0 .. MaxDigits /\ Weight[p] \in Nat \ {0} /\ MaxDigits \in Nat
      /\ ExactPrec \in 1 .. MaxDigits
  BY FloatFacts
<1>2. a * Weight[p] \in Nat
  BY <1>1, Products
<1>3. CASE p <= ExactPrec
  <2> DEFINE q == HalfEven(a * Weight[p])
             z == [i \in 1 .. p - p |-> 0]
  <2>1. q = r
    BY <1>2, AwayIsEven
  <2>2. FormatFloat(x, p) = Text(x < 0, q, p) \o z
    BY <1>1, <1>3 DEF FormatFloat
  <2>3. IsText(Text(x < 0, q, p), x < 0, q \div Weight[p], q % Weight[p], p)
    BY <1>1, WrittenText
  <2>4. Text(x < 0, q, p) \in Seq(Byte)
    BY <2>3 DEF IsText
  <2>5. z = <<>>
    <3>1. p - p = 0
      BY <1>1
    <3>2. z \in [1 .. 0 -> Byte]
      BY <3>1
    <3>3. z \in Seq(Byte) /\ Len(z) = 0
      <4> HIDE DEF z
      <4> QED BY <3>2, FunctionIsSeq
    <3> HIDE DEF z
    <3> QED BY <3>3
  <2> HIDE DEF q, r, z
  <2>6. Text(x < 0, q, p) \o z = Text(x < 0, q, p)
    BY <2>4, <2>5, ConcatEmptySeq
  <2> QED BY <2>1, <2>2, <2>3, <2>6 DEF r
<1>4. CASE p > ExactPrec
  <2> DEFINE d == p - ExactPrec
             q == HalfEven(a * Weight[ExactPrec])
             z == [i \in 1 .. d |-> 0]
             t == Text(x < 0, q, ExactPrec)
  <2>1. d \in Nat /\ ExactPrec + d = p /\ ExactPrec + d <= MaxDigits /\ ~(p < 0)
        /\ ExactPrec \in 0 .. MaxDigits /\ ExactPrec \in Nat /\ ExactPrec >= 1
    BY <1>1, <1>4
  <2>2. FormatFloat(x, p) = t \o z
    BY <1>4, <2>1 DEF FormatFloat
  <2>3. IsText(t, x < 0, q \div Weight[ExactPrec], q % Weight[ExactPrec], ExactPrec)
    BY <2>1, WrittenText
  <2>4. z \in [1 .. d -> Byte] /\ \A i \in 1 .. d : z[i] = 0
    BY DEF Byte
  <2> HIDE DEF d
  <2>5. /\ q \in Nat /\ r \div Weight[p] = q \div Weight[ExactPrec]
        /\ r % Weight[p] = (q % Weight[ExactPrec]) * Weight[d]
    BY <1>1, <2>1, ExactParts
  <2> HIDE DEF q, r, t, z
  <2>6. q \div Weight[ExactPrec] \in Nat /\ q % Weight[ExactPrec] \in Nat
    <3>1. Weight[ExactPrec] \in Nat \ {0}
      BY <2>1, Weights
    <3> QED BY <2>5, <3>1, ShiftNat, ModNat
  <2>7. IsText(t \o z, x < 0, q \div Weight[ExactPrec], (q % Weight[ExactPrec]) * Weight[d], ExactPrec + d)
    BY <2>1, <2>3, <2>4, <2>6, PaddedText
  <2> QED BY <2>1, <2>2, <2>5, <2>7 DEF r
<1> QED BY <1>1, <1>3, <1>4

\* The table of zeros.
LEMMA ZeroText ==
  ASSUME NEW p \in 0 .. MaxDigits
  PROVE  IsText(float0(p), FALSE, 0, 0, p)
<1> DEFINE f == [i \in 1 .. p |-> 0]
           b == IntText(0)
<1>1. 0 < Weight[MaxDigits] /\ MaxDigits \in Nat /\ 1 \in 1 .. MaxDigits /\ p \in Nat
  BY Weights
<1>2. \A k \in 0 .. MaxDigits : Digit(0, k) = 0
  <2> TAKE k \in 0 .. MaxDigits
  <2>1. Weight[k] \in Nat \ {0}
    BY Weights
  <2>2. 0 \div Weight[k] = 0
    <3>1. 0 = Weight[k] * 0 + 0
      BY <2>1
    <3> QED BY <2>1, <3>1, DivModUnique
  <2> QED BY <2>2 DEF Digit
<1>3. b = <<0>>
  <2>1. PICK len \in 1 .. MaxDigits : /\ HasDigits(0, len) /\ b \in Seq(Byte) /\ Len(b) = len
                                      /\ \A i \in 1 .. len : b[i] = Digit(0, len - i)
    BY <1>1, IntTextIs
  <2>2. HasDigits(0, 1)
    BY Weights DEF HasDigits
  <2>3. len = 1
    BY <1>1, <2>1, <2>2, DigitsUnique
  <2>4. b[1] = 0
    BY <1>1, <1>2, <2>1, <2>3
  <2> HIDE DEF b
  <2> QED BY <2>1, <2>3, <2>4
<1>4. f \in [1 .. p -> Byte] /\ \A i \in 1 .. p : f[i] = Digit(0, p - i)
  <2>1. f \in [1 .. p -> Byte]
    BY DEF Byte
  <2>2. \A i \in 1 .. p : p - i \in 0 .. MaxDigits
    BY <1>1
  <2> QED BY <1>2, <2>1, <2>2
<1> DEFINE c == IF p = 0 THEN <<>> ELSE <<Dot>> \o f
<1>5. float0(p) = <<0>> \o c
  BY DEF float0
<1>6. <<>> \o b = <<0>>
  <2>1. <<0>> \in Seq(Byte)
    BY DEF Byte
  <2> QED BY <1>3, <2>1, ConcatEmptySeq
<1> HIDE DEF f, b
<1>7. IsText((IF FALSE THEN <<Minus>> ELSE <<>>) \o b \o c, FALSE, 0, 0, p)
  BY <1>1, <1>4, TextFrom DEF b
<1> HIDE DEF c
<1>8. (IF FALSE THEN <<Minus>> ELSE <<>>) \o b \o c = <<0>> \o c
  BY <1>6
<1> QED BY <1>5, <1>7, <1>8

-----------------------------------------------------------------------------
(* Floats: the buffer.                                                     *)

\* The buffer b holds the digits of m that end before index e, from p on.
Portion(b, e, p, m) ==
  /\ b \in [0 .. Last -> Byte]
  /\ \A i \in p .. e - 1 : b[i] = Digit(m, e - 1 - i)

LEMMA PutTwoAt ==
  ASSUME NEW e \in 0 .. Last + 1, NEW p \in 2 .. e, NEW m \in Nat, NEW x \in 0 .. 99, NEW b,
         Portion(b, e, p, m),
         Tens(x) = Digit(m, e - p + 1), Units(x) = Digit(m, e - p),
         NEW c, c = [b EXCEPT ![p - 2] = Tens(x), ![p - 2 + 1] = Units(x)]
  PROVE  Portion(c, e, p - 2, m)
<1>1. Tens(x) \in Byte /\ Units(x) \in Byte
  BY DigitByte
<1>2. b \in [0 .. Last -> Byte] /\ c \in [0 .. Last -> Byte]
  BY <1>1 DEF Portion
<1>3. /\ p - 2 \in 0 .. Last /\ p - 2 + 1 = p - 1 /\ p - 1 \in 0 .. Last /\ p - 2 # p - 1
  BY DEF Last
<1>4. /\ c[p - 2] = Tens(x) /\ c[p - 1] = Units(x)
      /\ \A i \in 0 .. Last \ {p - 2, p - 1} : c[i] = b[i]
  BY <1>2, <1>3
<1>5. ASSUME NEW i \in p - 2 .. e - 1
      PROVE  c[i] = Digit(m, e - 1 - i)
  <2>1. CASE i = p - 2
    <3>1. e - 1 - i = e - p + 1
      BY <2>1
    <3> QED BY <1>4, <2>1, <3>1
  <2>2. CASE i = p - 1
    <3>1. e - 1 - i = e - p
      BY <2>2
    <3> QED BY <1>4, <2>2, <3>1
  <2>3. CASE i \in p .. e - 1
    <3>1. i \in 0 .. Last \ {p - 2, p - 1}
      BY <2>3 DEF Last
    <3> QED BY <1>4, <2>3, <3>1 DEF Portion
  <2>4. i = p - 2 \/ i = p - 1 \/ i \in p .. e - 1
    OBVIOUS
  <2> QED BY <2>1, <2>2, <2>3, <2>4
<1> QED BY <1>2, <1>5 DEF Portion

LEMMA PutOneAt ==
  ASSUME NEW e \in 0 .. Last + 1, NEW p \in 1 .. e, NEW m \in Nat, NEW x \in Byte, NEW b,
         Portion(b, e, p, m)
  PROVE  LET c == [b EXCEPT ![p - 1] = x]
         IN /\ c[p - 1] = x
            /\ Portion(c, e, p, m)
            /\ x = Digit(m, e - p) => Portion(c, e, p - 1, m)
            /\ \A i \in 0 .. Last \ {p - 1} : c[i] = b[i]
<1> DEFINE c == [b EXCEPT ![p - 1] = x]
<1>1. b \in [0 .. Last -> Byte] /\ c \in [0 .. Last -> Byte]
  BY DEF Portion
<1>2. p - 1 \in 0 .. Last
  BY DEF Last
<1>3. c[p - 1] = x /\ \A i \in 0 .. Last \ {p - 1} : c[i] = b[i]
  BY <1>1, <1>2
<1> HIDE DEF c
<1>4. ASSUME NEW i \in p .. e - 1
      PROVE  c[i] = Digit(m, e - 1 - i)
  <2>1. i \in 0 .. Last \ {p - 1}
    BY DEF Last
  <2> QED BY <1>3, <2>1 DEF Portion
<1>5. ASSUME x = Digit(m, e - p), NEW i \in p - 1 .. e - 1
      PROVE  c[i] = Digit(m, e - 1 - i)
  <2>1. CASE i = p - 1
    <3>1. e - 1 - i = e - p
      BY <2>1
    <3> QED BY <1>3, <1>5, <2>1, <3>1
  <2>2. CASE i \in p .. e - 1
    BY <2>2, <1>4
  <2> QED BY <2>1, <2>2
<1>6. Portion(c, e, p, m) /\ (x = Digit(m, e - p) => Portion(c, e, p - 1, m))
  BY <1>1, <1>4, <1>5 DEF Portion
<1> QED BY <1>3, <1>6 DEF c

\* The next digits of a number whose last k digits are written.
LEMMA NextDigits ==
  ASSUME NEW m \in Nat, NEW k \in 0 .. MaxDigits
  PROVE  LET x == m \div Weight[k]
         IN /\ x \in Nat
            /\ k + 2 <= MaxDigits => /\ x \div 100 = m \div Weight[k + 2]
                                     /\ Tens(x % 100) = Digit(m, k + 1)
                                     /\ Units(x % 100) = Digit(m, k)
            /\ x < 10 => x = Digit(m, k)
<1> DEFINE w == Weight[k]
           x == m \div w
<1>1. w \in Nat \ {0} /\ MaxDigits \in Nat
  BY Weights
<1>2. ASSUME k + 2 <= MaxDigits
      PROVE  Weight[k + 1] = 10 * w /\ Weight[k + 2] = 100 * w
  <2>1. k \in 0 .. MaxDigits - 1 /\ k \in 0 .. MaxDigits - 2
    BY <1>1, <1>2
  <2> QED BY <2>1, Weights
<1> HIDE DEF w
<1>3. /\ x \in Nat /\ x \div 100 = m \div (100 * w)
      /\ (x % 100) \div 10 = (m \div (10 * w)) % 10 /\ (x % 100) % 10 = x % 10
  <2>1. Cut(m, w)
    BY <1>1, CutTwo
  <2> QED BY <2>1, Zenon DEF Cut
<1>4. x < 10 => x = x % 10
  <2> HIDE DEF x
  <2> QED BY <1>3
<1>5. Digit(m, k) = x % 10
  BY Zenon DEF Digit, w
<1>6. ASSUME k + 2 <= MaxDigits
      PROVE  /\ x \div 100 = m \div Weight[k + 2]
             /\ Tens(x % 100) = Digit(m, k + 1)
             /\ Units(x % 100) = Digit(m, k)
  <2>1. Weight[k + 1] = 10 * w /\ Weight[k + 2] = 100 * w
    BY <1>2, <1>6
  <2>2. Digit(m, k + 1) = (m \div (10 * w)) % 10
    BY <2>1, Zenon DEF Digit
  <2>3. Tens(x % 100) = (x % 100) \div 10 /\ Units(x % 100) = (x % 100) % 10
    BY Zenon DEF Tens, Units
  <2> HIDE DEF x
  <2> QED BY <1>3, <1>5, <2>1, <2>2, <2>3, Zenon
<1> QED BY <1>3, <1>4, <1>5, <1>6 DEF w

\* What is rounded is a number of units.
LEMMA PartsFacts ==
  ASSUME n \in Floats, prec \in Short
  PROVE  /\ n \in Int /\ prec \in 0 .. MaxDigits /\ prec \in 0 .. 17
         /\ Weight[prec] \in Nat \ {0} /\ Abs(n) \in Nat
         /\ Rounded \in Nat /\ IntPart \in Nat
         /\ DecimalPart \in Nat /\ DecimalPart < Weight[prec]
<1>1. /\ n \in Int /\ prec \in 0 .. MaxDigits /\ Weight[prec] \in Nat \ {0} /\ Abs(n) \in Nat
      /\ prec \in 0 .. 17
  BY FloatFacts DEF Short
<1>2. Abs(n) * Weight[prec] \in Nat
  BY <1>1, Products
<1>3. Rounded \in Nat
  BY <1>2, RoundedNat DEF Rounded
<1>4. IntPart \in Nat
  BY <1>1, <1>3, ShiftNat DEF IntPart
<1>5. DecimalPart \in Nat /\ DecimalPart < Weight[prec]
  BY <1>1, <1>3, ModNat DEF DecimalPart
<1> QED BY <1>1, <1>3, <1>4, <1>5

-----------------------------------------------------------------------------
(* Floats: the invariant.                                                  *)

\* The part of the invariant of a call for a float, with its definition opened.
FloatCall ==
  /\ FloatTypeOK
  /\ CutInv /\ FloatLoopInv /\ FloatSignInv /\ FloatReturnInv /\ DecimalsInv /\ Rounds

LEMMA FloatStart == FloatInit => FloatInv
<1> SUFFICES ASSUME FloatInit PROVE FloatInv
  OBVIOUS
<1>1. prec \in Precisions \cup {0} /\ ul \in Nat /\ ed \in 0 .. Last
  BY DEF FloatInit, Last
<1>2. CASE Init
  <2>1. ConvInv
    BY <1>2, TypesAtStart
  <2>2. kind # "float64"
    BY <2>1, ConvAssumption DEF ConvInv, TypeOK, SmallKind
  <2> QED BY <1>1, <2>1, <2>2 DEF FloatInv, FloatTypeOK, ConvInv
<1>3. CASE ~Init
  <2>1. /\ kind = "float64" /\ n \in Floats \cup {NaN} /\ pc = "start" /\ u = 0 /\ pos = Point
        /\ buf = [i \in 0 .. Last |-> Stale] /\ result = <<>>
    BY <1>3 DEF FloatInit
  <2>2. buf \in [0 .. Last -> Byte] /\ u \in Nat /\ pos \in 0 .. Point /\ result \in Seq(Byte \cup {N})
    BY <2>1 DEF Stale, Byte, Point
  <2> QED BY <1>1, <2>1, <2>2
          DEF FloatInv, FloatTypeOK, CutInv, FloatLoopInv, FloatSignInv, FloatReturnInv, DecimalsInv, Rounds
<1> QED BY <1>2, <1>3

LEMMA FloatStutter == FloatInv /\ UNCHANGED <<vars, fvars>> => FloatInv'
<1> SUFFICES ASSUME FloatInv, UNCHANGED vars, UNCHANGED fvars PROVE FloatInv'
  OBVIOUS
<1> USE DEF vars, fvars
<1>1. FloatTypeOK'
  BY DEF FloatInv, FloatTypeOK, TypeOK
<1>2. CASE kind = "float64"
  <2>1. IntPart' = IntPart /\ DecimalPart' = DecimalPart /\ Eligible' = Eligible
    BY DEF IntPart, DecimalPart, Rounded, Eligible
  <2>2. CutInv'
    BY <1>2, <2>1 DEF FloatInv, CutInv
  <2>3. \A p : AllShown(p)' <=> AllShown(p)
    BY <2>1 DEF AllShown, Shows
  <2>4. FloatLoopInv' /\ FloatSignInv' /\ FloatReturnInv' /\ DecimalsInv'
    BY <1>2, <2>1, <2>3 DEF FloatInv, FloatLoopInv, FloatSignInv, FloatReturnInv, DecimalsInv, Shows
  <2>5. Rounds'
    BY <1>2, <2>1 DEF FloatInv, Rounds
  <2> QED BY <1>1, <1>2, <2>2, <2>4, <2>5 DEF FloatInv
<1>3. CASE kind # "float64"
  BY <1>1, <1>3, StutterKeepsConvInv DEF FloatInv
<1> QED BY <1>2, <1>3

\* What is written depends on the call alone.
LEMMA SameParts ==
  ASSUME n' = n, prec' = prec
  PROVE  /\ Rounded' = Rounded /\ IntPart' = IntPart /\ DecimalPart' = DecimalPart
         /\ Eligible' = Eligible
  BY DEF Rounded, IntPart, DecimalPart, Eligible

LEMMA SplitKeepsFloatInv ==
  ASSUME FloatCall, kind = "float64", Split
  PROVE  FloatInv'
<1> DEFINE a == Abs(n)
           l == a % Den
<1>1. /\ pc = "start" /\ n \notin {NaN, 0} /\ Eligible /\ prec \in 0 .. 17
      /\ neg' = (n < 0) /\ pos' = Point /\ pc' = "loop"
      /\ kind' = kind /\ n' = n /\ buf' = buf /\ result' = result /\ prec' = prec /\ ed' = ed
      /\ Carries(l, prec)  => u' = a \div Den + 1 /\ ul' = 0
      /\ ~Carries(l, prec) => u' = a \div Den /\ ul' = HalfAway(l * Weight[prec])
  BY DEF Split
<1>2. n \in Floats \ {0} /\ prec \in Short
  BY <1>1 DEF FloatCall, FloatTypeOK, Short
<1>3. /\ n \in Int /\ prec \in 0 .. MaxDigits /\ a \in Nat /\ IntPart \in Nat /\ DecimalPart \in Nat
      /\ Den \in Nat \ {0} /\ MaxEligible \in Nat
  BY <1>2, PartsFacts, FloatFacts
<1>4. u' = IntPart /\ ul' = DecimalPart /\ u' <= a \div Den + 1 /\ a \div Den \in Nat
  <2>1. /\ a \div Den \in Nat
        /\ Carries(l, prec) => IntPart = a \div Den + 1 /\ DecimalPart = 0
        /\ ~Carries(l, prec) => IntPart = a \div Den /\ DecimalPart = HalfAway(l * Weight[prec])
    BY <1>3, RoundedParts DEF IntPart, DecimalPart, Rounded
  <2>2. u' = IntPart /\ ul' = DecimalPart
    BY <1>1, <2>1
  <2>3. IntPart <= a \div Den + 1
    BY <2>1
  <2> QED BY <2>1, <2>2, <2>3
<1>5. a \div Den < MaxEligible + 1
  <2>1. a <= MaxEligible * Den
    BY <1>1, <1>3 DEF Eligible, Abs
  <2>2. a < Den * (MaxEligible + 1) /\ MaxEligible + 1 \in Nat
    <3>1. Den * (MaxEligible + 1) = MaxEligible * Den + Den /\ MaxEligible * Den \in Nat
      BY <1>3, Products
    <3> QED BY <1>3, <2>1, <3>1
  <2> HIDE DEF a
  <2> QED BY <1>3, <2>2, DivBelow
<1> HIDE DEF a, l
<1>6. Places \in 0 .. MaxDigits /\ Places < Point /\ u' < Weight[Places] /\ Weight[0] = 1
  <2>1. Places \in 0 .. MaxDigits /\ Places < Point /\ MaxEligible + 1 < Weight[Places]
    BY PlacesFacts
  <2>2. Weight[Places] \in Nat /\ Weight[0] = 1
    BY <2>1, Weights
  <2> QED BY <1>3, <1>4, <1>5, <2>1, <2>2
<1>7. Point \in Nat /\ Point - Point = 0 /\ IntPart \div 1 = IntPart /\ Places - 0 = Places /\ 0 \in 0 .. Places
      /\ MaxDigits \in Nat
  BY <1>3, <1>6, Weights DEF Point
<1>8. FloatTypeOK'
  <2>1. u' \in Nat /\ ul' \in Nat /\ pos' \in 0 .. Point
    BY <1>1, <1>3, <1>4, <1>7
  <2> QED BY <1>1, <2>1 DEF FloatCall, FloatTypeOK
<1>9. FloatLoopInv'
  <2>1. Shows(Point, pos, IntPart)'
    BY <1>1, <1>7 DEF Shows, Point
  <2> QED BY <1>1, <1>2, <1>4, <1>6, <1>7, <2>1, SameParts DEF FloatLoopInv
<1>10. CutInv'
  BY <1>1, <1>2, SameParts DEF CutInv
<1> QED BY <1>1, <1>8, <1>9, <1>10
        DEF FloatInv, FloatSignInv, FloatReturnInv, DecimalsInv, Rounds

\* What the invariant says of a step of the loop.
LEMMA InFloatLoop ==
  ASSUME FloatCall, kind = "float64", pc = "loop"
  PROVE  LET k == Point - pos
         IN /\ n \in Floats \ {0} /\ prec \in Short /\ neg = (n < 0) /\ Eligible
            /\ IntPart \in Nat /\ ul = DecimalPart
            /\ k \in 0 .. Places /\ k \in 0 .. MaxDigits /\ pos = Point - k
            /\ Places \in 0 .. MaxDigits /\ Places < Point /\ MaxDigits \in Nat
            /\ Places - k \in 0 .. MaxDigits
            /\ u \in Nat /\ u < Weight[Places - k] /\ u = IntPart \div Weight[k]
            /\ k > 0 => u >= 1
            /\ pos \in 0 .. Point
            /\ Portion(buf, Point, pos, IntPart)
            /\ result \in Seq(Byte \cup {N})
<1>1. /\ n \in Floats \ {0} /\ prec \in Short /\ neg = (n < 0) /\ Eligible
  BY DEF FloatCall, CutInv
<1>2. IntPart \in Nat
  BY <1>1, PartsFacts
<1>3. Places \in 0 .. MaxDigits /\ Places < Point /\ MaxDigits \in Nat
  BY PlacesFacts, Weights
<1>4. /\ u \in Nat /\ pos \in 0 .. Point /\ buf \in [0 .. Last -> Byte]
      /\ result \in Seq(Byte \cup {N})
  BY DEF FloatCall, FloatTypeOK
<1>5. /\ Point - pos \in 0 .. Places /\ u < Weight[Places - (Point - pos)]
      /\ u = IntPart \div Weight[Point - pos] /\ (pos < Point => u >= 1)
      /\ Shows(Point, pos, IntPart) /\ ul = DecimalPart
  BY DEF FloatCall, FloatLoopInv
<1>6. /\ Point - pos \in 0 .. MaxDigits /\ Places - (Point - pos) \in 0 .. MaxDigits
      /\ pos = Point - (Point - pos) /\ (Point - pos > 0 => pos < Point)
  BY <1>3, <1>4, <1>5 DEF Point
<1> QED BY <1>1, <1>2, <1>3, <1>4, <1>5, <1>6 DEF Portion, Shows

LEMMA TwoDigitsKeepsFloatInv ==
  ASSUME FloatCall, kind = "float64", TwoDigits, UNCHANGED fvars
  PROVE  FloatInv'
<1> DEFINE k == Point - pos
<1>1. /\ pc = "loop" /\ u >= 100 /\ pos' = pos - 2 /\ u' = u \div 100
      /\ buf' = [buf EXCEPT ![pos - 2] = Tens(u % 100), ![pos - 2 + 1] = Units(u % 100)]
      /\ kind' = kind /\ n' = n /\ pc' = pc /\ neg' = neg /\ result' = result
      /\ prec' = prec /\ ul' = ul /\ ed' = ed
  BY DEF TwoDigits, Put2, fvars
<1>2. /\ n \in Floats \ {0} /\ prec \in Short /\ neg = (n < 0) /\ Eligible
      /\ IntPart \in Nat /\ ul = DecimalPart
      /\ k \in 0 .. Places /\ k \in 0 .. MaxDigits /\ pos = Point - k
      /\ Places \in 0 .. MaxDigits /\ Places < Point /\ MaxDigits \in Nat
      /\ Places - k \in 0 .. MaxDigits
      /\ u \in Nat /\ u < Weight[Places - k] /\ u = IntPart \div Weight[k]
      /\ pos \in 0 .. Point
      /\ Portion(buf, Point, pos, IntPart)
  BY <1>1, InFloatLoop
<1>3. k = Point - pos
  OBVIOUS
<1> HIDE DEF k
<1>4. Places - k >= 3 /\ u \div 100 < Weight[Places - k - 2]
  BY <1>1, <1>2, RoomFor
<1>5. /\ k + 2 \in 0 .. Places /\ k + 2 <= MaxDigits /\ Point - (pos - 2) = k + 2
      /\ Places - (k + 2) = Places - k - 2 /\ pos \in 2 .. Point /\ pos - 2 \in 0 .. Point
      /\ Point - pos + 1 = k + 1 /\ Point \in 0 .. Last + 1 /\ pos - 2 < Point
  BY <1>2, <1>3, <1>4 DEF Point, Last
<1>6. /\ u \div 100 = IntPart \div Weight[k + 2]
      /\ Tens(u % 100) = Digit(IntPart, k + 1) /\ Units(u % 100) = Digit(IntPart, k)
  BY <1>2, <1>5, NextDigits
<1>7. u \div 100 \in Nat /\ u \div 100 >= 1 /\ u % 100 \in 0 .. 99
  <2>1. u \in Nat /\ u >= 100
    BY <1>1, <1>2
  <2> QED BY <2>1
<1>8. Portion(buf', Point, pos - 2, IntPart)
  <2> DEFINE m == IntPart
             x == u % 100
  <2>1. /\ Point \in 0 .. Last + 1 /\ pos \in 2 .. Point /\ m \in Nat /\ x \in 0 .. 99
        /\ Portion(buf, Point, pos, m)
        /\ Tens(x) = Digit(m, Point - pos + 1) /\ Units(x) = Digit(m, Point - pos)
        /\ buf' = [buf EXCEPT ![pos - 2] = Tens(x), ![pos - 2 + 1] = Units(x)]
    BY <1>1, <1>2, <1>3, <1>5, <1>6, <1>7 DEF Point, Last
  <2> HIDE DEF m, x
  <2> QED BY <2>1, PutTwoAt DEF m
<1>9. FloatTypeOK'
  BY <1>1, <1>5, <1>7, <1>8 DEF FloatCall, FloatTypeOK, Portion
<1>10. FloatLoopInv'
  <2>1. Shows(Point, pos, IntPart)'
    BY <1>1, <1>8, SameParts DEF Shows, Portion
  <2>2. Point - pos' = k + 2 /\ (pos' < Point => u' >= 1)
    BY <1>1, <1>5, <1>7
  <2> QED BY <1>1, <1>2, <1>4, <1>5, <1>6, <2>1, <2>2, SameParts DEF FloatLoopInv
<1>11. CutInv'
  BY <1>1, <1>2, SameParts DEF CutInv
<1> QED BY <1>1, <1>9, <1>10, <1>11
        DEF FloatInv, FloatSignInv, FloatReturnInv, DecimalsInv, Rounds

LEMMA LastDigitsKeepsFloatInv ==
  ASSUME FloatCall, kind = "float64", LastDigits, UNCHANGED fvars
  PROVE  FloatInv'
<1> DEFINE k == Point - pos
<1>1. /\ pc = "loop" /\ u < 100 /\ pc' = "sign" /\ u' = u
      /\ kind' = kind /\ n' = n /\ neg' = neg /\ result' = result
      /\ prec' = prec /\ ul' = ul /\ ed' = ed
      /\ u < 10 => pos' = pos - 1 /\ buf' = [buf EXCEPT ![pos - 1] = u]
      /\ ~(u < 10) => pos' = pos - 2 /\ buf' = [buf EXCEPT ![pos - 2] = Tens(u), ![pos - 2 + 1] = Units(u)]
  BY DEF LastDigits, Put2, fvars
<1>2. /\ n \in Floats \ {0} /\ prec \in Short /\ neg = (n < 0) /\ Eligible
      /\ IntPart \in Nat /\ ul = DecimalPart
      /\ k \in 0 .. Places /\ k \in 0 .. MaxDigits /\ pos = Point - k
      /\ Places \in 0 .. MaxDigits /\ Places < Point /\ MaxDigits \in Nat
      /\ Places - k \in 0 .. MaxDigits
      /\ u \in Nat /\ u < Weight[Places - k] /\ u = IntPart \div Weight[k]
      /\ pos \in 0 .. Point
      /\ Portion(buf, Point, pos, IntPart)
  BY <1>1, InFloatLoop
<1>3. k > 0 => u >= 1
  BY <1>1, InFloatLoop
<1>4. k = Point - pos
  OBVIOUS
<1> HIDE DEF k
<1>5. Places - k >= 1 /\ (u >= 10 => Places - k >= 2)
  <2>1. CASE u >= 1
    BY <1>2, <2>1, RoomFor
  <2>2. CASE u = 0
    <3>1. k = 0 /\ MaxEligible + 1 < Weight[Places] /\ MaxEligible \in Nat /\ Weight[0] = 1
      BY <1>2, <1>3, <2>2, PlacesFacts, FloatFacts, Weights
    <3>2. Places # 0
      BY <3>1
    <3> QED BY <1>2, <2>2, <3>1, <3>2
  <2> QED BY <1>2, <2>1, <2>2
<1>6. /\ k \in 0 .. MaxDigits - 1 /\ Weight[k] \in Nat \ {0} /\ Weight[k + 1] = 10 * Weight[k]
  <2>1. k \in 0 .. MaxDigits - 1
    BY <1>2, <1>5
  <2> QED BY <1>2, <2>1, Weights
<1>7. /\ u >= 1 => IntPart >= Weight[k]
      /\ u < 10 => IntPart < 10 * Weight[k]
      /\ u < 100 => IntPart < 100 * Weight[k]
      /\ u >= 10 => IntPart >= 10 * Weight[k]
  BY <1>2, <1>6, Shifted
<1>8. /\ pos' \in 0 .. Point /\ Point - pos' \in 1 .. Places
      /\ Portion(buf', Point, pos', IntPart)
      /\ IntPart < Weight[Point - pos']
      /\ Point - pos' > 1 => IntPart >= Weight[Point - pos' - 1]
  <2>1. CASE u < 10
    <3>1. pos' = pos - 1 /\ buf' = [buf EXCEPT ![pos - 1] = u]
      BY <1>1, <2>1
    <3>2. /\ pos \in 1 .. Point /\ pos - 1 \in 0 .. Point /\ Point - (pos - 1) = k + 1
          /\ k + 1 \in 1 .. Places /\ Point \in 0 .. Last + 1 /\ (k + 1) - 1 = k
      BY <1>2, <1>4, <1>5 DEF Point, Last
    <3>3. u = Digit(IntPart, k) /\ u \in Byte
      <4>1. u = Digit(IntPart, k)
        BY <1>2, <2>1, NextDigits
      <4>2. u \in Byte
        BY <1>2, <2>1 DEF Byte
      <4> QED BY <4>1, <4>2
    <3>4. Portion(buf', Point, pos - 1, IntPart)
      <4> DEFINE m == IntPart
      <4>1. /\ Point \in 0 .. Last + 1 /\ pos \in 1 .. Point /\ m \in Nat /\ u \in Byte
            /\ Portion(buf, Point, pos, m) /\ u = Digit(m, Point - pos)
        BY <1>2, <1>4, <3>2, <3>3
      <4> HIDE DEF m
      <4>2. Portion([buf EXCEPT ![pos - 1] = u], Point, pos - 1, m)
        BY <4>1, PutOneAt
      <4> QED BY <3>1, <4>2 DEF m
    <3>5. k + 1 > 1 => u >= 1
      BY <1>2, <1>3
    <3> QED BY <1>6, <1>7, <2>1, <3>1, <3>2, <3>4, <3>5
  <2>2. CASE ~(u < 10)
    <3>1. pos' = pos - 2 /\ buf' = [buf EXCEPT ![pos - 2] = Tens(u), ![pos - 2 + 1] = Units(u)]
      BY <1>1, <2>2
    <3>2. /\ pos \in 2 .. Point /\ pos - 2 \in 0 .. Point /\ Point - (pos - 2) = k + 2
          /\ k + 2 \in 1 .. Places /\ Point \in 0 .. Last + 1 /\ (k + 2) - 1 = k + 1
          /\ k + 2 <= MaxDigits /\ k \in 0 .. MaxDigits - 2 /\ Point - pos + 1 = k + 1
      BY <1>2, <1>4, <1>5, <2>2 DEF Point, Last
    <3>3. u \in 0 .. 99 /\ u % 100 = u
      BY <1>1, <1>2
    <3>4. Tens(u) = Digit(IntPart, k + 1) /\ Units(u) = Digit(IntPart, k)
      <4>1. Tens(u % 100) = Digit(IntPart, k + 1) /\ Units(u % 100) = Digit(IntPart, k)
        BY <1>2, <3>2, NextDigits
      <4> QED BY <3>3, <4>1
    <3>5. Portion(buf', Point, pos - 2, IntPart)
      <4> DEFINE m == IntPart
      <4>1. /\ Point \in 0 .. Last + 1 /\ pos \in 2 .. Point /\ m \in Nat /\ u \in 0 .. 99
            /\ Portion(buf, Point, pos, m)
            /\ Tens(u) = Digit(m, Point - pos + 1) /\ Units(u) = Digit(m, Point - pos)
        BY <1>2, <1>4, <3>2, <3>3, <3>4
      <4> HIDE DEF m
      <4> QED BY <3>1, <4>1, PutTwoAt DEF m
    <3>6. Weight[k + 2] = 100 * Weight[k]
      BY <3>2, Weights
    <3> QED BY <1>1, <1>2, <1>6, <1>7, <2>2, <3>1, <3>2, <3>5, <3>6
  <2> QED BY <2>1, <2>2
<1>9. FloatTypeOK'
  BY <1>1, <1>8 DEF FloatCall, FloatTypeOK, Portion
<1>10. FloatSignInv'
  <2>1. AllShown(pos)'
    BY <1>1, <1>8, SameParts DEF AllShown, Shows, Portion
  <2> QED BY <1>1, <1>2, <2>1, SameParts DEF FloatSignInv
<1>11. CutInv'
  BY <1>1, <1>2, SameParts DEF CutInv
<1> QED BY <1>1, <1>9, <1>10, <1>11
        DEF FloatInv, FloatLoopInv, FloatReturnInv, DecimalsInv, Rounds

LEMMA SignKeepsFloatInv ==
  ASSUME FloatCall, kind = "float64", Sign, UNCHANGED fvars
  PROVE  FloatInv'
<1>1. /\ pc = "sign" /\ pc' = "return" /\ u' = u
      /\ kind' = kind /\ n' = n /\ neg' = neg /\ result' = result
      /\ prec' = prec /\ ul' = ul /\ ed' = ed
      /\ neg => pos' = pos - 1 /\ buf' = [buf EXCEPT ![pos - 1] = Minus]
      /\ ~neg => pos' = pos /\ buf' = buf
  BY DEF Sign, fvars
<1>2. /\ n \in Floats \ {0} /\ prec \in Short /\ neg = (n < 0) /\ Eligible
      /\ AllShown(pos) /\ ul = DecimalPart
      /\ pos \in 0 .. Point /\ buf \in [0 .. Last -> Byte]
  BY <1>1 DEF FloatCall, FloatTypeOK, CutInv, FloatSignInv
<1>3. /\ Point - pos \in 1 .. Places /\ Portion(buf, Point, pos, IntPart)
      /\ Places \in 0 .. MaxDigits /\ Places < Point /\ MaxDigits \in Nat /\ IntPart \in Nat
  BY <1>2, PlacesFacts, PartsFacts, Weights DEF AllShown, Shows, Portion
<1>4. CASE neg
  <2>1. /\ pos \in 1 .. Point /\ pos' = pos - 1 /\ pos' + 1 = pos /\ pos' \in 0 .. Point
        /\ Point \in 0 .. Last + 1 /\ Minus \in Byte
    BY <1>1, <1>2, <1>3, <1>4 DEF Point, Last, Minus, Byte
  <2>2. buf'[pos'] = Minus /\ Portion(buf', Point, pos, IntPart)
    BY <1>1, <1>3, <1>4, <2>1, PutOneAt
  <2>3. AllShown(pos + 1)'
    BY <1>1, <1>2, <2>1, <2>2, SameParts DEF AllShown, Shows, Portion
  <2>4. FloatTypeOK'
    BY <1>1, <2>1, <2>2 DEF FloatCall, FloatTypeOK, Portion
  <2>5. FloatReturnInv'
    BY <1>1, <1>2, <1>4, <2>2, <2>3, SameParts DEF FloatReturnInv
  <2> QED BY <1>1, <1>2, <2>4, <2>5, SameParts
          DEF FloatInv, CutInv, FloatLoopInv, FloatSignInv, DecimalsInv, Rounds
<1>5. CASE ~neg
  <2>1. pos' = pos /\ buf' = buf
    BY <1>1, <1>5
  <2>2. AllShown(pos)'
    BY <1>1, <1>2, <2>1, SameParts DEF AllShown, Shows
  <2>3. FloatTypeOK'
    BY <1>1, <2>1 DEF FloatCall, FloatTypeOK
  <2>4. FloatReturnInv'
    BY <1>1, <1>2, <1>5, <2>2, SameParts DEF FloatReturnInv
  <2> QED BY <1>1, <1>2, <2>3, <2>4, SameParts
          DEF FloatInv, CutInv, FloatLoopInv, FloatSignInv, DecimalsInv, Rounds
<1> QED BY <1>4, <1>5

\* The slice that is returned.
LEMMA SliceIsText ==
  ASSUME n \in Floats, prec \in Short, buf \in [0 .. Last -> Byte], pos \in 0 .. Point,
         neg \in BOOLEAN,
         neg => buf[pos] = Minus /\ AllShown(pos + 1),
         ~neg => AllShown(pos),
         prec > 0 => buf[Point] = Dot /\ Shows(Point + 1 + prec, Point + 1, DecimalPart)
  PROVE  IsText(Slice(pos, IF prec = 0 THEN Point ELSE Point + 1 + prec),
                neg, IntPart, DecimalPart, prec)
<1> DEFINE to == IF prec = 0 THEN Point ELSE Point + 1 + prec
           s == IF neg THEN 1 ELSE 0
           len == Point - (pos + s)
           r == Slice(pos, to)
<1>1. AllShown(pos + s) /\ s \in {0, 1} /\ (neg <=> s = 1) /\ (neg => buf[pos] = Minus)
  <2>1. pos + 0 = pos
    BY DEF Point
  <2> QED BY <2>1
<1> HIDE DEF s
<1>2. /\ len \in 1 .. Places /\ IntPart < Weight[len] /\ (len > 1 => IntPart >= Weight[len - 1])
      /\ Shows(Point, pos + s, IntPart)
  BY <1>1 DEF AllShown
<1>3. len \in 1 .. MaxDigits /\ len \in Nat /\ HasDigits(IntPart, len) /\ prec \in 0 .. 17
  BY <1>2, PlacesFacts, Weights DEF HasDigits, Short
<1>4. /\ to - pos = s + len + (IF prec = 0 THEN 0 ELSE prec + 1)
      /\ to - pos \in Nat /\ pos + s + len = Point /\ len = Point - (pos + s) /\ to <= Last
      /\ to \in Nat
  BY <1>1, <1>3 DEF Point, Last
<1> HIDE DEF len, to
<1>5. \A i \in 1 .. to - pos : pos + i - 1 \in 0 .. Last
  BY <1>4 DEF Point, Last
<1>6. r = [i \in 1 .. to - pos |-> buf[pos + i - 1]]
  BY DEF Slice
<1>7. r \in [1 .. to - pos -> Byte]
  BY <1>5, <1>6
<1>8. /\ r \in Seq(Byte) /\ Len(r) = to - pos
      /\ \A i \in 1 .. to - pos : r[i] = buf[pos + i - 1]
  <2>1. \A i \in 1 .. to - pos : r[i] = buf[pos + i - 1]
    BY <1>6
  <2> HIDE DEF r
  <2> QED BY <1>4, <1>7, <2>1, FunctionIsSeq
<1> HIDE DEF r
<1>9. neg => r[1] = Minus
  <2>1. neg => 1 \in 1 .. to - pos /\ pos + 1 - 1 = pos
    BY <1>1, <1>3, <1>4 DEF Point
  <2> QED BY <1>1, <1>8, <2>1
<1>10. ASSUME NEW i \in 1 .. len PROVE r[s + i] = Digit(IntPart, len - i)
  <2>1. /\ s + i \in 1 .. to - pos /\ pos + (s + i) - 1 \in pos + s .. Point - 1
        /\ Point - 1 - (pos + (s + i) - 1) = len - i
    BY <1>1, <1>3, <1>4 DEF Point
  <2>2. r[s + i] = buf[pos + (s + i) - 1]
    BY <1>8, <2>1
  <2>3. buf[pos + (s + i) - 1] = Digit(IntPart, Point - 1 - (pos + (s + i) - 1))
    BY <1>2, <2>1 DEF Shows
  <2> QED BY <2>1, <2>2, <2>3
<1>11. prec > 0 => r[s + len + 1] = Dot
  <2>1. prec > 0 => s + len + 1 \in 1 .. to - pos /\ pos + (s + len + 1) - 1 = Point
    BY <1>1, <1>3, <1>4 DEF Point
  <2> QED BY <1>8, <2>1
<1>12. ASSUME NEW i \in 1 .. prec PROVE r[s + len + 1 + i] = Digit(DecimalPart, prec - i)
  <2>1. /\ prec > 0 /\ s + len + 1 + i \in 1 .. to - pos
        /\ pos + (s + len + 1 + i) - 1 = Point + i
        /\ Point + i \in Point + 1 .. (Point + 1 + prec) - 1
        /\ (Point + 1 + prec) - 1 - (Point + i) = prec - i
    BY <1>1, <1>3, <1>4 DEF Point
  <2>2. r[s + len + 1 + i] = buf[Point + i]
    BY <1>8, <2>1
  <2>3. buf[Point + i] = Digit(DecimalPart, (Point + 1 + prec) - 1 - (Point + i))
    BY <2>1 DEF Shows
  <2> QED BY <2>1, <2>2, <2>3
<1>13. Len(r) = s + len + (IF prec = 0 THEN 0 ELSE prec + 1)
  BY <1>4, <1>8
<1>14. IsText(r, neg, IntPart, DecimalPart, prec)
  BY <1>3, <1>8, <1>9, <1>10, <1>11, <1>12, <1>13 DEF IsText, s
<1> QED BY <1>14 DEF r, to

\* A call that ends with that text has rounded as it should.
LEMMA EndsRounded ==
  ASSUME n \in Floats, prec \in Short, UNCHANGED <<kind, n, prec>>, kind = "float64",
         Eligible, IntPart < Weight[MaxDigits],
         IsText(result', n < 0, IntPart, DecimalPart, prec)
  PROVE  Rounds'
<1> DEFINE a == Abs(n) * Weight[prec]
           tie == prec \in 0 .. 17 /\ Eligible /\ 2 * (a % Den) = Den
<1>1. /\ n \in Int /\ prec \in 0 .. MaxDigits /\ prec \in 0 .. 17 /\ prec \in Nat
      /\ IntPart \in Nat /\ Rounded \in Nat /\ (n < 0) \in BOOLEAN
  BY PartsFacts
<1>2. ASSUME tie PROVE result' = Text(n < 0, HalfAway(a), prec)
  <2>1. IsText(Text(n < 0, Rounded, prec), n < 0, IntPart, DecimalPart, prec)
    BY <1>1, TextIs DEF IntPart, DecimalPart
  <2>2. result' = Text(n < 0, Rounded, prec)
    BY <1>1, <2>1, TextUnique
  <2> QED BY <2>2 DEF Rounded
<1>3. ASSUME ~tie PROVE result' = FormatFloat(n, prec)
  <2>1. 2 * (a % Den) # Den
    BY <1>1, <1>3
  <2>2. IsText(FormatFloat(n, prec), n < 0, IntPart, DecimalPart, prec)
    BY <2>1, FormatIs DEF IntPart, DecimalPart, Rounded
  <2> QED BY <1>1, <2>2, TextUnique
<1>4. n' = n /\ prec' = prec /\ Eligible' = Eligible
  BY DEF Eligible
<1> QED BY <1>2, <1>3, <1>4 DEF Rounds

\* What the invariant says of a call whose integer part and sign are written.
LEMMA AfterIntegerPart ==
  ASSUME FloatCall, kind = "float64", pc \in {"return", "decimals"}
  PROVE  /\ n \in Floats \ {0} /\ prec \in Short /\ neg = (n < 0) /\ neg \in BOOLEAN /\ Eligible
         /\ pos \in 0 .. Point /\ buf \in [0 .. Last -> Byte]
         /\ neg => buf[pos] = Minus /\ AllShown(pos + 1)
         /\ ~neg => AllShown(pos)
         /\ IntPart < Weight[MaxDigits] /\ IntPart \in Nat /\ DecimalPart \in Nat
         /\ pos < Point
<1>1. /\ n \in Floats \ {0} /\ prec \in Short /\ neg = (n < 0) /\ Eligible
      /\ pos \in 0 .. Point /\ buf \in [0 .. Last -> Byte]
      /\ neg => buf[pos] = Minus /\ AllShown(pos + 1)
      /\ ~neg => AllShown(pos)
  BY DEF FloatCall, FloatTypeOK, CutInv, FloatReturnInv
<1>2. IntPart \in Nat /\ DecimalPart \in Nat
  BY <1>1, PartsFacts
<1>3. ASSUME NEW p, AllShown(p), p \in {pos, pos + 1}
      PROVE  IntPart < Weight[MaxDigits] /\ pos < Point
  <2>1. Point - p \in 1 .. Places /\ IntPart < Weight[Point - p]
    BY <1>3 DEF AllShown
  <2>2. Point - p \in 0 .. MaxDigits /\ MaxDigits \in 0 .. MaxDigits /\ Point - p <= MaxDigits
    BY <2>1, PlacesFacts, Weights
  <2>3. Weight[Point - p] <= Weight[MaxDigits] /\ Weight[Point - p] \in Nat /\ Weight[MaxDigits] \in Nat
    BY <2>2, WeightsGrow, Weights
  <2>4. pos < Point
    BY <1>1, <1>3, <2>1, PlacesFacts DEF Point
  <2> QED BY <1>2, <2>1, <2>3, <2>4
<1>4. neg \in BOOLEAN
  BY <1>1
<1> QED BY <1>1, <1>2, <1>3, <1>4

\* A call that ends.
LEMMA EndsFloat ==
  ASSUME FloatCall, kind = "float64", UNCHANGED <<kind, n, u, neg, pos, buf, prec, ul, ed>>,
         pc' = "done", result' \in Seq(Byte \cup {N}), Rounds'
  PROVE  FloatInv'
<1>1. FloatTypeOK'
  BY DEF FloatCall, FloatTypeOK
<1> QED BY <1>1 DEF FloatInv, CutInv, FloatLoopInv, FloatSignInv, FloatReturnInv, DecimalsInv

LEMMA AfterSignKeepsFloatInv ==
  ASSUME FloatCall, kind = "float64", AfterSign
  PROVE  FloatInv'
<1>1. /\ pc = "return" /\ kind' = kind /\ n' = n /\ u' = u /\ neg' = neg /\ pos' = pos
      /\ prec' = prec /\ ul' = ul
      /\ prec = 0 => result' = Slice(pos, Point) /\ pc' = "done" /\ buf' = buf /\ ed' = ed
      /\ prec # 0 => buf' = [buf EXCEPT ![Point] = Dot] /\ ed' = Point + prec
                     /\ pc' = "decimals" /\ result' = result
  BY DEF AfterSign
<1>2. /\ n \in Floats \ {0} /\ prec \in Short /\ neg = (n < 0) /\ neg \in BOOLEAN /\ Eligible
      /\ pos \in 0 .. Point /\ buf \in [0 .. Last -> Byte]
      /\ neg => buf[pos] = Minus /\ AllShown(pos + 1)
      /\ ~neg => AllShown(pos)
      /\ IntPart < Weight[MaxDigits] /\ DecimalPart \in Nat /\ pos < Point
  BY <1>1, AfterIntegerPart
<1>3. prec \in 0 .. 17 /\ ul = DecimalPart
  BY <1>1, <1>2 DEF FloatCall, FloatReturnInv, Short
<1>4. CASE prec = 0
  <2>1. IsText(Slice(pos, IF prec = 0 THEN Point ELSE Point + 1 + prec),
               neg, IntPart, DecimalPart, prec)
    BY <1>2, <1>4, SliceIsText
  <2>4. IsText(result', neg, IntPart, DecimalPart, prec)
    BY <1>1, <1>4, <2>1
  <2>2. Rounds'
    BY <1>1, <1>2, <2>4, EndsRounded
  <2>3. result' \in Seq(Byte \cup {N})
    BY <2>4 DEF IsText
  <2> QED BY <1>1, <1>4, <2>2, <2>3, EndsFloat
<1>5. CASE prec # 0
  <2>1. buf' \in [0 .. Last -> Byte] /\ buf'[Point] = Dot
        /\ \A i \in 0 .. Point - 1 : buf'[i] = buf[i]
    BY <1>1, <1>2, <1>5 DEF Point, Last, Dot, Byte
  <2>2. ed' \in 0 .. Last /\ ed' = Point + prec /\ ed' \in Point .. Point + prec /\ prec > 0
        /\ Point + prec - ed' = 0
    BY <1>1, <1>3, <1>5 DEF Point, Last
  <2>4. FloatReturnInv'
    <3>1. \A p \in 0 .. Point : \A i \in p .. Point - 1 : buf'[i] = buf[i]
      BY <2>1 DEF Point
    <3>2. pos \in 0 .. Point - 1 /\ pos + 1 \in 0 .. Point
      BY <1>2 DEF Point
    <3>3. CASE neg
      <4>1. AllShown(pos + 1)'
        BY <1>1, <1>2, <3>1, <3>2, <3>3, SameParts DEF AllShown, Shows
      <4> QED BY <1>1, <1>2, <1>5, <2>1, <3>2, <3>3, <4>1 DEF FloatReturnInv
    <3>4. CASE ~neg
      <4>1. AllShown(pos)'
        BY <1>1, <1>2, <3>1, <3>4, SameParts DEF AllShown, Shows
      <4> QED BY <1>1, <1>5, <3>4, <4>1 DEF FloatReturnInv
    <3> QED BY <3>3, <3>4
  <2>5. DecimalsInv'
    <3>1. DecimalPart \div Weight[0] = DecimalPart
      BY <1>2, Weights
    <3>2. Shows(Point + 1 + prec, ed + 1, DecimalPart)'
      BY <1>1, <1>3, <2>2 DEF Shows, Point
    <3> QED BY <1>1, <1>3, <2>1, <2>2, <3>1, <3>2, SameParts DEF DecimalsInv
  <2>6. FloatTypeOK'
    BY <1>1, <1>5, <2>1, <2>2 DEF FloatCall, FloatTypeOK
  <2>7. CutInv'
    BY <1>1, <1>2, SameParts DEF CutInv
  <2> QED BY <1>1, <1>5, <2>4, <2>5, <2>6, <2>7
          DEF FloatInv, FloatLoopInv, FloatSignInv, Rounds
<1> QED BY <1>4, <1>5

LEMMA ReturnFloatKeepsFloatInv ==
  ASSUME FloatCall, kind = "float64", ReturnFloat
  PROVE  FloatInv'
<1>1. /\ pc = "decimals" /\ ed <= Point /\ result' = Slice(pos, Point + 1 + prec) /\ pc' = "done"
      /\ UNCHANGED <<kind, n, u, neg, pos, buf, prec, ul, ed>>
  BY DEF ReturnFloat, fvars
<1>2. /\ n \in Floats \ {0} /\ prec \in Short /\ neg = (n < 0) /\ neg \in BOOLEAN /\ Eligible
      /\ pos \in 0 .. Point /\ buf \in [0 .. Last -> Byte]
      /\ neg => buf[pos] = Minus /\ AllShown(pos + 1)
      /\ ~neg => AllShown(pos)
      /\ IntPart < Weight[MaxDigits]
  BY <1>1, AfterIntegerPart
<1>3. /\ prec > 0 /\ buf[Point] = Dot /\ ed \in Point .. Point + prec
      /\ Shows(Point + 1 + prec, ed + 1, DecimalPart)
  BY <1>1 DEF FloatCall, DecimalsInv
<1>4. ed = Point /\ prec # 0
  BY <1>1, <1>2, <1>3 DEF Point, Short
<1>5. IsText(Slice(pos, IF prec = 0 THEN Point ELSE Point + 1 + prec),
             neg, IntPart, DecimalPart, prec)
  BY <1>2, <1>3, <1>4, SliceIsText
<1>6. IsText(result', neg, IntPart, DecimalPart, prec)
  BY <1>1, <1>4, <1>5
<1>7. Rounds'
  BY <1>1, <1>2, <1>6, EndsRounded
<1>8. result' \in Seq(Byte \cup {N})
  BY <1>6 DEF IsText
<1> QED BY <1>1, <1>7, <1>8, EndsFloat

LEMMA DecimalsKeepsFloatInv ==
  ASSUME FloatCall, kind = "float64", Decimals
  PROVE  FloatInv'
<1> DEFINE k == Point + prec - ed
           e == Point + 1 + prec
           d == DecimalPart
<1>1. /\ pc = "decimals" /\ ed > Point /\ ul' = ul \div 100
      /\ kind' = kind /\ n' = n /\ pc' = pc /\ u' = u /\ neg' = neg /\ pos' = pos
      /\ result' = result /\ prec' = prec
      /\ ed = Point + 1 => buf' = [buf EXCEPT ![ed] = ul % 100] /\ ed' = Point
      /\ ed # Point + 1 => /\ buf' = [buf EXCEPT ![ed - 1] = Tens(ul % 100), ![ed - 1 + 1] = Units(ul % 100)]
                           /\ ed' = ed - 2
  BY DEF Decimals, Put2
<1>2. /\ n \in Floats \ {0} /\ prec \in Short /\ neg = (n < 0) /\ neg \in BOOLEAN /\ Eligible
      /\ pos \in 0 .. Point /\ buf \in [0 .. Last -> Byte] /\ pos < Point
      /\ neg => buf[pos] = Minus /\ AllShown(pos + 1)
      /\ ~neg => AllShown(pos)
  BY <1>1, AfterIntegerPart
<1>3. /\ prec \in 0 .. MaxDigits /\ prec \in 0 .. 17 /\ MaxDigits \in Nat
      /\ d \in Nat /\ d < Weight[prec]
  BY <1>2, PartsFacts, Weights
<1>4. /\ prec > 0 /\ buf[Point] = Dot /\ ed \in Point .. Point + prec
      /\ ul = d \div Weight[k] /\ Shows(e, ed + 1, d)
  BY <1>1 DEF FloatCall, DecimalsInv
<1>5. /\ k \in 0 .. prec - 1 /\ k \in 0 .. MaxDigits /\ ed = Point + prec - k /\ e - (ed + 1) = k
      /\ e \in 0 .. Last + 1 /\ ed + 1 \in 2 .. e
  BY <1>1, <1>3, <1>4 DEF Point, Last
<1>6. Portion(buf, e, ed + 1, d)
  BY <1>2, <1>4 DEF Portion, Shows
<1>7. k = Point + prec - ed /\ e = Point + 1 + prec
  OBVIOUS
<1> HIDE DEF k, e, d
<1>8. /\ ul \in Nat
      /\ k + 2 <= MaxDigits => /\ ul \div 100 = d \div Weight[k + 2]
                               /\ Tens(ul % 100) = Digit(d, k + 1)
                               /\ Units(ul % 100) = Digit(d, k)
      /\ ul < 10 => ul = Digit(d, k)
  <2>1. k \in 0 .. MaxDigits /\ ul = d \div Weight[k] /\ d \in Nat
    BY <1>3, <1>4, <1>5
  <2> QED BY <2>1, NextDigits
<1>9. ul \div 100 \in Nat /\ ul % 100 \in 0 .. 99
  <2>1. ul \in Nat
    BY <1>8
  <2> QED BY <2>1
<1>10. /\ ed' \in Point .. Point + prec /\ ed' \in 0 .. Last
       /\ Portion(buf', e, ed' + 1, d)
       /\ ul \div 100 = d \div Weight[Point + prec - ed']
       /\ \A i \in 0 .. Point : buf'[i] = buf[i]
  <2>1. CASE ed = Point + 1
    <3>1. /\ k + 1 = prec /\ ed' = Point /\ ed' + 1 = ed /\ (ed + 1) - 1 = ed /\ Point + prec - Point = prec
          /\ buf' = [buf EXCEPT ![(ed + 1) - 1] = ul % 100]
      BY <1>1, <1>3, <1>5, <2>1 DEF Point
    <3>2. ul < 10
      <4>1. k \in 0 .. MaxDigits - 1 /\ Weight[k + 1] = 10 * Weight[k] /\ Weight[k] \in Nat \ {0}
        BY <1>3, <1>5, Weights
      <4> DEFINE w == Weight[k]
      <4>2. d < w * 10 /\ w \in Nat \ {0} /\ d \in Nat
        BY <1>3, <3>1, <4>1
      <4> HIDE DEF w
      <4>3. d \div w < 10
        BY <4>2, DivBelow
      <4> QED BY <1>4, <4>3 DEF w
    <3>3. ul % 100 = ul /\ ul \div 100 = 0 /\ ul \in Byte
      BY <1>8, <3>2 DEF Byte
    <3>4. /\ Portion(buf', e, ed, d)
          /\ \A i \in 0 .. Last \ {ed} : buf'[i] = buf[i]
      <4>1. /\ Portion([buf EXCEPT ![(ed + 1) - 1] = ul], e, (ed + 1) - 1, d)
            /\ \A i \in 0 .. Last \ {(ed + 1) - 1} : [buf EXCEPT ![(ed + 1) - 1] = ul][i] = buf[i]
        <5>1. ed + 1 \in 1 .. e /\ ul = Digit(d, e - (ed + 1))
          BY <1>5, <1>8, <3>2
        <5> QED BY <1>3, <1>5, <1>6, <3>3, <5>1, PutOneAt
      <4> QED BY <3>1, <3>3, <4>1
    <3>5. d \div Weight[prec] = 0
      <4> DEFINE w == Weight[prec]
      <4>1. w \in Nat \ {0} /\ d < w /\ d \in Nat
        BY <1>3, Weights
      <4> HIDE DEF w
      <4>2. d = w * 0 + d
        BY <4>1
      <4>3. d \div w = 0
        BY <4>1, <4>2, DivModUnique
      <4> QED BY <4>3 DEF w
    <3>6. \A i \in 0 .. Point : i \in 0 .. Last \ {ed}
      BY <2>1 DEF Point, Last
    <3>7. Point \in Point .. Point + prec /\ Point \in 0 .. Last
      BY <1>3 DEF Point, Last
    <3> QED BY <3>1, <3>3, <3>4, <3>5, <3>6, <3>7
  <2>2. CASE ed # Point + 1
    <3>1. /\ ed' = ed - 2 /\ ed' + 1 = (ed + 1) - 2 /\ Point + prec - (ed - 2) = k + 2
          /\ ed - 1 = (ed + 1) - 2 /\ k + 2 <= MaxDigits
          /\ ed - 2 \in Point .. Point + prec /\ ed - 2 \in 0 .. Last
          /\ e - (ed + 1) + 1 = k + 1
      BY <1>1, <1>3, <1>4, <1>5, <2>2 DEF Point, Last
    <3>2. buf' = [buf EXCEPT ![(ed + 1) - 2] = Tens(ul % 100), ![(ed + 1) - 2 + 1] = Units(ul % 100)]
      BY <1>1, <2>2, <3>1
    <3>3. Tens(ul % 100) = Digit(d, e - (ed + 1) + 1) /\ Units(ul % 100) = Digit(d, e - (ed + 1))
      BY <1>5, <1>8, <3>1
    <3>4. /\ Portion(buf', e, (ed + 1) - 2, d)
          /\ \A i \in 0 .. Last \ {(ed + 1) - 2, (ed + 1) - 1} : buf'[i] = buf[i]
      <4> DEFINE x == ul % 100
                 p == ed + 1
      <4>1. /\ p \in 2 .. e /\ x \in 0 .. 99 /\ d \in Nat /\ e \in 0 .. Last + 1
            /\ Portion(buf, e, p, d)
            /\ Tens(x) = Digit(d, e - p + 1) /\ Units(x) = Digit(d, e - p)
            /\ buf' = [buf EXCEPT ![p - 2] = Tens(x), ![p - 2 + 1] = Units(x)]
        BY <1>3, <1>5, <1>6, <1>9, <3>2, <3>3
      <4> HIDE DEF x, p
      <4>2. Portion(buf', e, p - 2, d)
        BY <4>1, PutTwoAt
      <4>3. \A i \in 0 .. Last \ {p - 2, p - 1} : buf'[i] = buf[i]
        BY <1>2, <4>1
      <4> QED BY <4>2, <4>3 DEF p
    <3>5. \A i \in 0 .. Point : i \in 0 .. Last \ {(ed + 1) - 2, (ed + 1) - 1}
      BY <1>1, <1>3, <1>4, <2>2 DEF Point, Last
    <3>6. ul \div 100 = d \div Weight[Point + prec - ed']
      BY <1>8, <3>1
    <3> QED BY <3>1, <3>4, <3>5, <3>6
  <2> QED BY <2>1, <2>2
<1>11. FloatTypeOK'
  BY <1>1, <1>9, <1>10 DEF FloatCall, FloatTypeOK, Portion
<1>12. CutInv'
  BY <1>1, <1>2, SameParts DEF CutInv
<1>13. DecimalsInv'
  <2>1. Shows(Point + 1 + prec, ed + 1, DecimalPart)'
    BY <1>1, <1>7, <1>10, SameParts DEF Shows, Portion, d
  <2>2. buf'[Point] = Dot
    BY <1>4, <1>10 DEF Point
  <2> QED BY <1>1, <1>4, <1>10, <2>1, <2>2, SameParts DEF DecimalsInv, d
<1>14. FloatReturnInv'
  <2>1. \A p \in 0 .. Point : \A i \in p .. Point - 1 : buf'[i] = buf[i]
    BY <1>10 DEF Point
  <2>2. pos \in 0 .. Point /\ pos + 1 \in 0 .. Point
    BY <1>2 DEF Point
  <2>3. CASE neg
    <3>1. AllShown(pos + 1)'
      BY <1>1, <1>2, <2>1, <2>2, <2>3, SameParts DEF AllShown, Shows
    <3> QED BY <1>1, <1>2, <1>10, <2>2, <2>3, <3>1 DEF FloatReturnInv
  <2>4. CASE ~neg
    <3>1. AllShown(pos)'
      BY <1>1, <1>2, <2>1, <2>4, SameParts DEF AllShown, Shows
    <3> QED BY <1>1, <2>4, <3>1 DEF FloatReturnInv
  <2> QED BY <2>3, <2>4
<1> QED BY <1>1, <1>11, <1>12, <1>13, <1>14
        DEF FloatInv, FloatLoopInv, FloatSignInv, Rounds

LEMMA FloatAtOnceKeepsFloatInv ==
  ASSUME FloatCall, kind = "float64", FloatAtOnce
  PROVE  FloatInv'
<1>1. /\ pc = "start" /\ pc' = "done" /\ UNCHANGED <<kind, n, u, neg, pos, buf, prec, ul, ed>>
  BY DEF FloatAtOnce, fvars
<1>2. n \in Floats \cup {NaN} /\ prec \in Precisions \cup {0} /\ prec \in Int /\ NaN \notin Int
  BY FloatAssumption DEF FloatCall, FloatTypeOK
<1>3. n' = n /\ prec' = prec /\ kind' = kind /\ Eligible' = Eligible
  BY <1>1 DEF Eligible
<1>4. CASE n = NaN /\ result' = <<N, 10, N>>
  <2>1. result' \in Seq(Byte \cup {N})
    BY <1>4 DEF Byte
  <2>2. Rounds'
    BY <1>3, <1>4 DEF Rounds
  <2> QED BY <1>1, <2>1, <2>2, EndsFloat
<1>5. ASSUME n # NaN, result' = FormatFloat(n, prec),
             ~(prec \in 0 .. 17 /\ Eligible /\ 2 * ((Abs(n) * Weight[prec]) % Den) = Den)
      PROVE  FloatInv'
  <2>1. n \in Floats
    BY <1>2, <1>5
  <2>2. result' \in Seq(Byte)
    BY <1>2, <1>5, <2>1, FormatFloatIsSeq
  <2>3. result' \in Seq(Byte \cup {N})
    BY <2>2
  <2>4. Rounds'
    BY <1>3, <1>5 DEF Rounds
  <2> QED BY <1>1, <2>3, <2>4, EndsFloat
<1>6. ASSUME n = 0 PROVE 2 * ((Abs(n) * Weight[prec]) % Den) # Den \/ ~(prec \in 0 .. 17)
  <2>1. SUFFICES ASSUME prec \in 0 .. 17 PROVE 2 * ((Abs(n) * Weight[prec]) % Den) # Den
    OBVIOUS
  <2>2. Weight[prec] \in Nat /\ Den \in Nat \ {0}
    BY <1>2, <2>1, FloatFacts DEF Short
  <2>3. Abs(n) * Weight[prec] = 0
    BY <1>6, <2>2 DEF Abs
  <2>4. 0 % Den = 0
    BY <2>2
  <2> QED BY <2>2, <2>3, <2>4
<1>7. CASE n = 0 /\ prec < 18 /\ result' = float0(IF prec > 0 THEN prec ELSE 0)
  <2>1. n \in Floats /\ 0 \in Floats /\ n # NaN /\ Abs(0) = 0
    BY <1>2, <1>7 DEF Abs
  <2>2. FormatFloat(0, prec) = float0(IF prec > 0 THEN prec ELSE 0)
    <3>1. CASE prec \in 0 .. 17
      <4>1. prec \in Short /\ prec \in 0 .. MaxDigits /\ Weight[prec] \in Nat \ {0} /\ prec \in Nat
        BY <1>2, <3>1, FloatFacts DEF Short
      <4>2. HalfAway(Abs(0) * Weight[prec]) = 0
        <5>1. Abs(0) * Weight[prec] = 0
          BY <2>1, <4>1
        <5>2. 0 % Den = 0 /\ 0 \div Den = 0 /\ 2 * 0 < Den
          BY FloatFacts
        <5>3. HalfAway(0) = 0
          BY <5>2, HalfAwayIs
        <5> QED BY <5>1, <5>3
      <4>3. 0 \div Weight[prec] = 0 /\ 0 % Weight[prec] = 0 /\ ~(0 < 0)
        <5> DEFINE w == Weight[prec]
        <5>1. w \in Nat \ {0}
          BY <4>1
        <5> HIDE DEF w
        <5>2. 0 = w * 0 + 0 /\ 0 \div w = 0 /\ 0 % w = 0
          BY <5>1, DivModUnique
        <5> QED BY <5>2 DEF w
      <4>4. IsText(FormatFloat(0, prec), FALSE, 0, 0, prec)
        <5>1. 2 * ((Abs(0) * Weight[prec]) % Den) # Den
          BY <1>6, <1>7, <3>1
        <5>2. LET r == HalfAway(Abs(0) * Weight[prec])
              IN IsText(FormatFloat(0, prec), 0 < 0, r \div Weight[prec], r % Weight[prec], prec)
          BY <2>1, <4>1, <5>1, FormatIs
        <5>3. (0 < 0) = FALSE
          OBVIOUS
        <5> QED BY <4>2, <4>3, <5>2, <5>3
      <4>5. IsText(float0(prec), FALSE, 0, 0, prec)
        BY <4>1, ZeroText
      <4>6. FormatFloat(0, prec) = float0(prec)
        BY <4>1, <4>4, <4>5, TextUnique
      <4>7. prec > 0 \/ prec = 0
        BY <4>1
      <4> QED BY <4>6, <4>7
    <3>2. CASE prec < 0
      <4> DEFINE z == [i \in 1 .. prec - 0 |-> 0]
                 t == Text(FALSE, 0, 0)
      <4>1. Shortest(0) = 0
        BY <2>1, ShortestIs
      <4>2. HalfEven(Abs(0) * Weight[0]) = 0
        <5>1. Abs(0) * Weight[0] = 0
          BY <2>1, Weights
        <5>2. 0 % Den = 0 /\ 0 \div Den = 0 /\ 2 * 0 < Den
          BY FloatFacts
        <5> QED BY <5>1, <5>2 DEF HalfEven
      <4>3. FormatFloat(0, prec) = t \o z
        <5>1. (0 < 0) = FALSE
          OBVIOUS
        <5> QED BY <3>2, <4>1, <4>2, <5>1 DEF FormatFloat
      <4>4. IsText(t, FALSE, 0, 0, 0)
        <5>1. Weight[0] = 1 /\ 0 \in 0 .. MaxDigits /\ 0 < Weight[MaxDigits] /\ 0 \div 1 = 0 /\ 0 % 1 = 0
          BY Weights
        <5> HIDE DEF t
        <5> QED BY <5>1, TextIs DEF t
      <4>5. z = <<>>
        <5>1. 1 .. prec - 0 = {} /\ 1 .. 0 = {}
          BY <1>2, <3>2
        <5>2. z \in [1 .. 0 -> Byte]
          BY <5>1
        <5> HIDE DEF z
        <5>3. z \in Seq(Byte) /\ Len(z) = 0
          BY <5>2, FunctionIsSeq
        <5> QED BY <5>3
      <4>6. t \in Seq(Byte)
        BY <4>4 DEF IsText
      <4> HIDE DEF t, z
      <4>7. FormatFloat(0, prec) = t
        BY <4>3, <4>5, <4>6, ConcatEmptySeq
      <4>8. IsText(float0(0), FALSE, 0, 0, 0)
        <5>1. 0 \in 0 .. MaxDigits
          BY Weights
        <5> QED BY <5>1, ZeroText
      <4>9. t = float0(0)
        BY <4>4, <4>8, TextUnique
      <4>10. ~(prec > 0)
        BY <1>2, <3>2
      <4> QED BY <4>7, <4>9, <4>10
    <3> QED BY <1>2, <1>7, <3>1, <3>2
  <2>3. result' = FormatFloat(n, prec)
    BY <1>7, <2>2
  <2> QED BY <1>5, <1>6, <1>7, <2>1, <2>3
<1>8. CASE /\ IF n = 0 THEN prec >= 18 ELSE n # NaN /\ ~(Eligible /\ prec \in 0 .. 17)
           /\ result' = FormatFloat(n, prec)
  <2>1. n # NaN
    BY <1>2, <1>8
  <2>2. ~(prec \in 0 .. 17 /\ Eligible)
    BY <1>8
  <2> QED BY <1>5, <1>8, <2>1, <2>2
<1> QED BY <1>4, <1>7, <1>8 DEF FloatAtOnce

\* A step of a call for a float.
LEMMA FloatStep ==
  ASSUME FloatInv, kind = "float64", FloatNext
  PROVE  FloatInv'
<1>1. FloatCall
  BY DEF FloatInv, FloatCall
<1>2. "float64" \notin Kind /\ "float64" \notin SmallKind
  BY ConvAssumption DEF SmallKind
<1>3. CASE Next /\ UNCHANGED fvars
  BY <1>1, <1>2, <1>3, TwoDigitsKeepsFloatInv, LastDigitsKeepsFloatInv, SignKeepsFloatInv
     DEF Next, Digits, Small, FromTable, StartLoop, Return
<1> QED BY <1>1, <1>3, SplitKeepsFloatInv, AfterSignKeepsFloatInv, DecimalsKeepsFloatInv,
           ReturnFloatKeepsFloatInv, FloatAtOnceKeepsFloatInv DEF FloatNext

\* A step of any other call, which only the integer conversions take.
LEMMA IntegerStep ==
  ASSUME FloatInv, kind # "float64", FloatNext
  PROVE  FloatInv'
<1>1. ConvInv /\ FloatTypeOK
  BY DEF FloatInv
<1>2. Next /\ UNCHANGED fvars
  BY <1>1 DEF FloatNext, FloatAtOnce, Split, AfterSign, Decimals, ReturnFloat, ConvInv, TypeOK
<1>3. ConvInv'
  BY <1>1, <1>2, SmallKeepsConvInv, FromTableKeepsConvInv, StartLoopKeepsConvInv,
     TwoDigitsKeepsConvInv, LastDigitsKeepsConvInv, SignKeepsConvInv, ReturnKeepsConvInv
     DEF Next, Digits
<1>4. kind' = kind
  BY <1>2 DEF Next, Small, FromTable, StartLoop, Digits, TwoDigits, LastDigits, Sign, Return
<1> QED BY <1>1, <1>2, <1>3, <1>4 DEF FloatInv, FloatTypeOK, ConvInv, fvars

-----------------------------------------------------------------------------
(* The theorems about all routines together.                               *)

\* The invariant is inductive, for all routines of the package together.
THEOREM FloatInductive == FloatSpec => []FloatInv
<1>1. FloatInit => FloatInv
  BY FloatStart
<1>2. FloatInv /\ [FloatNext]_<<vars, fvars>> => FloatInv'
  <2> SUFFICES ASSUME FloatInv, [FloatNext]_<<vars, fvars>> PROVE FloatInv'
    OBVIOUS
  <2>1. CASE FloatNext
    BY <2>1, FloatStep, IntegerStep
  <2>2. CASE UNCHANGED <<vars, fvars>>
    BY <2>2, FloatStutter
  <2> QED BY <2>1, <2>2
<1> QED BY <1>1, <1>2, PTL DEF FloatSpec

\* The integer routines return decimal digits beside the float conversions, which
\* share the loop, as well.
THEOREM DecimalBesideFloats == FloatSpec => []Converts
<1>1. "float64" \notin Kind \cup SmallKind
  BY ConvAssumption DEF SmallKind
<1>2. FloatInv => Converts
  BY <1>1 DEF FloatInv, ConvInv, Converts
<1> QED BY <1>2, FloatInductive, PTL

\* Float64ToBytes writes inside its buffer of 39 bytes for every value and precision,
\* the integer part and the sign before the point and the decimals behind it: the code
\* indexes the array without looking (conv/float.go:53-113).
THEOREM FloatTypeCorrect == FloatSpec => []FloatTypeOK
<1>1. FloatInv => FloatTypeOK
  BY DEF FloatInv
<1> QED BY <1>1, FloatInductive, PTL

\* It returns what strconv.FormatFloat would, but for ties, which it rounds away from
\* zero: digits, carries into the integer part and all (conv/float.go:12-113).
THEOREM RoundsCorrectly == FloatSpec => []Rounds
<1>1. FloatInv => Rounds
  BY DEF FloatInv, Rounds
<1> QED BY <1>1, FloatInductive, PTL
=============================================================================
