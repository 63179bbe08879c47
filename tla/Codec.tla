------------------------------- MODULE Codec -------------------------------
(***************************************************************************)
(* The length of a word on the wire (internal/router/binapi/codec.go): one *)
(* to five bytes, the first of which tells how many.  A length that is     *)
(* read as another one shifts every later word and reply of the            *)
(* connection.                                                             *)
(*                                                                         *)
(* Bytes are numbers below 256; a mask that takes off the marker bits is a *)
(* subtraction, a shift a division.  int has 32 bits on armv7 and 64       *)
(* elsewhere: max is its greatest value.                                   *)
(***************************************************************************)
EXTENDS Integers, Sequences

\* byte(n >> (8 * k)), for the divisor d = 2 ^ (8 * k).
Byte(n, d) == (n \div d) % 256

\* writeLength: the bytes of n, high one first, the marker added to the first.
WriteLength(n) ==
  IF n < 128 THEN <<Byte(n, 1)>>
  ELSE IF n < 16384 THEN <<Byte(n + 128 * 256, 256), Byte(n, 1)>>
  ELSE IF n < 2097152 THEN <<Byte(n + 192 * 65536, 65536), Byte(n, 256), Byte(n, 1)>>
  ELSE IF n < 268435456 THEN <<Byte(n, 16777216) + 224, Byte(n, 65536), Byte(n, 256), Byte(n, 1)>>
  ELSE <<240, Byte(n, 16777216), Byte(n, 65536), Byte(n, 256), Byte(n, 1)>>

\* What a sum of shifted bytes is as an int.
AsInt(x, max) == IF x <= max THEN x ELSE x - max - max - 2

\* How many bytes the first one announces; 0 for one that is not valid.
Announced(b) ==
  IF b < 128 THEN 1 ELSE IF b < 192 THEN 2 ELSE IF b < 224 THEN 3
  ELSE IF b < 240 THEN 4 ELSE IF b = 240 THEN 5 ELSE 0

\* The length in the first k bytes of s, its marker taken off.
LengthIn(s, k, max) ==
  IF k = 1 THEN s[1]
  ELSE IF k = 2 THEN (s[1] - 128) * 256 + s[2]
  ELSE IF k = 3 THEN (s[1] - 192) * 65536 + s[2] * 256 + s[3]
  ELSE IF k = 4 THEN (s[1] - 224) * 16777216 + s[2] * 65536 + s[3] * 256 + s[4]
  ELSE AsInt(s[2] * 16777216 + s[3] * 65536 + s[4] * 256 + s[5], max)

\* readLength of the bytes s: an error if they end before the length does, or
\* start with a byte that starts none.
ReadLength(s, max) ==
  IF Len(s) > 0 /\ Announced(s[1]) \in 1 .. Len(s)
  THEN [ok |-> TRUE, n |-> LengthIn(s, Announced(s[1]), max), used |-> Announced(s[1])]
  ELSE [ok |-> FALSE, n |-> 0, used |-> 0]

\* writeWord: the length of the word and its bytes.
WriteWord(x) == WriteLength(Len(x)) \o x

\* readWord: used tells where the next word starts.  A length that has become
\* negative ends the process (make panics) and is not a result here.
ReadWord(s, max) ==
  LET r == ReadLength(s, max)
  IN IF r.ok /\ r.n >= 0 /\ r.used + r.n <= Len(s)
     THEN [ok |-> TRUE, word |-> SubSeq(s, r.used + 1, r.used + r.n), used |-> r.used + r.n]
     ELSE [ok |-> FALSE, word |-> <<>>, used |-> 0]
=============================================================================
