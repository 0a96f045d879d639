------------------------------- MODULE MCConv -------------------------------
EXTENDS ConvFloat

MCModulus == [k \in Kind |-> 65536]
MCBufLen  == [k \in Kind |-> IF k \in Signed THEN 6 ELSE 5]
MCWeight  == [k \in 0 .. MaxDigits |-> 10^k]

MCPrecisions == {-1, 0, 1, 2, 3, 18}

\* Around zero, and around the numbers at which a carry makes a digit more.
MCFloats == {s * x : s \in {-1, 1},
                     x \in 0 .. 100 \cup 780 .. 820 \cup 7980 .. 8020 \cup 79980 .. 80020}
=============================================================================
