---------------------------- MODULE DialerProofs ----------------------------
(***************************************************************************)
(* The shared connection to the router (internal/router/binapi/client.go,  *)
(* conn.go) and the handlers that use it (api/server.go, router/peers.go,  *)
(* router/iface.go), for any callers, commands and tables: who may use the *)
(* connection, what is on it, how an answer belongs to the command of the  *)
(* call that returns it, and in which order a handler's commands go out.   *)
(* And the lengths of the words on it (codec.go): what writeLength writes, *)
(* readLength reads, for every length an int can hold and at every class   *)
(* of lengths, whatever bytes follow.                                      *)
(***************************************************************************)
EXTENDS PeerAdmin, Codec, SequenceTheorems, TLAPS

-----------------------------------------------------------------------------
(* Lengths and words.                                                       *)

\* Lengths that five bytes can hold are below this.
Limit == 4294967296

\* A shift by 8 bits and the byte it drops (codec.go:28, 55).
LEMMA Shift ==
  ASSUME NEW n \in Nat
  PROVE  /\ n = 256 * (n \div 256) + (n % 256)
         /\ n \div 256 \in Nat /\ n % 256 \in 0 .. 255
BY SMT

\* Shifts add up (codec.go:31-37).
LEMMA Shifts ==
  ASSUME NEW n \in Nat
  PROVE  (n \div 256) \div 256 = n \div 65536 /\ (n \div 65536) \div 256 = n \div 16777216
BY SMT

\* The bytes of a length and what is left above them (codec.go:28-37).
LEMMA Bytes ==
  ASSUME NEW n \in Nat
  PROVE  /\ n \div 256 \in Nat /\ n \div 65536 \in Nat /\ n \div 16777216 \in Nat
         /\ Byte(n, 1) \in 0 .. 255 /\ Byte(n, 256) \in 0 .. 255 /\ Byte(n, 65536) \in 0 .. 255
         /\ n = 256 * (n \div 256) + Byte(n, 1)
         /\ n \div 256 = 256 * (n \div 65536) + Byte(n, 256)
         /\ n \div 65536 = 256 * (n \div 16777216) + Byte(n, 65536)
<1> DEFINE q1 == n \div 256
           q2 == n \div 65536
           q3 == n \div 16777216
<1>1. n = 256 * q1 + (n % 256) /\ q1 \in Nat /\ n % 256 \in 0 .. 255
  BY Shift, SMT
<1>2. q1 = 256 * q2 + (q1 % 256) /\ q2 \in Nat /\ q1 % 256 \in 0 .. 255
  BY <1>1, Shift, Shifts, SMT
<1>3. q2 = 256 * q3 + (q2 % 256) /\ q3 \in Nat /\ q2 % 256 \in 0 .. 255
  BY <1>2, Shift, Shifts, SMT
<1>4. Byte(n, 1) = n % 256 /\ Byte(n, 256) = q1 % 256 /\ Byte(n, 65536) = q2 % 256
  <2>1. n \div 1 = n
    BY SMT
  <2> QED BY <2>1, SMT DEF Byte
<1> QED BY <1>1, <1>2, <1>3, <1>4, SMT

\* A byte is a number (codec.go:25-37).
LEMMA ByteType ==
  ASSUME NEW n \in Nat
  PROVE  /\ Byte(n, 1) \in Nat /\ Byte(n, 256) \in Nat
         /\ Byte(n, 65536) \in Nat /\ Byte(n, 16777216) \in Nat
<1>1. n \div 1 \in Nat /\ n \div 256 \in Nat /\ n \div 65536 \in Nat /\ n \div 16777216 \in Nat
  BY SMT
<1>2. \A q \in Nat : q % 256 \in Nat
  BY SMT
<1> QED BY <1>1, <1>2, SMT DEF Byte

\* The first byte of the forms of two and three bytes (codec.go:27, 30).
LEMMA FirstByte ==
  ASSUME NEW n \in Nat
  PROVE  /\ n < 16384 => Byte(n + 128 * 256, 256) = 128 + (n \div 256)
         /\ n < 2097152 => Byte(n + 192 * 65536, 65536) = 192 + (n \div 65536)
<1>1. (n + 128 * 256) \div 256 = 128 + (n \div 256)
  BY SMT
<1>2. (n + 192 * 65536) \div 65536 = 192 + (n \div 65536)
  BY SMT
<1>3. n < 16384 => n \div 256 \in 0 .. 63
  BY SMT
<1>4. n < 2097152 => n \div 65536 \in 0 .. 31
  BY SMT
<1> QED BY <1>1, <1>2, <1>3, <1>4, SMT DEF Byte

\* The first and highest byte of the longer forms (codec.go:35, 37).
LEMMA HighByte ==
  ASSUME NEW n \in Nat, n < Limit
  PROVE  Byte(n, 16777216) = n \div 16777216
<1>1. n \div 16777216 \in 0 .. 255
  BY SMT DEF Limit
<1>2. \A q \in 0 .. 255 : q % 256 = q
  BY SMT
<1> QED BY <1>1, <1>2, SMT DEF Byte

\* Which form a first byte announces (codec.go:47-75).
LEMMA Forms ==
  ASSUME NEW b \in Nat
  PROVE  /\ b < 128 => Announced(b) = 1
         /\ 128 <= b /\ b < 192 => Announced(b) = 2
         /\ 192 <= b /\ b < 224 => Announced(b) = 3
         /\ 224 <= b /\ b < 240 => Announced(b) = 4
         /\ b = 240 => Announced(b) = 5
BY SMT DEF Announced

\* Enough bytes for the announced form are read (codec.go:42-77).
LEMMA ReadForm ==
  ASSUME NEW s \in Seq(Nat), NEW max, NEW k \in 1 .. 5,
         Len(s) >= k, Announced(s[1]) = k
  PROVE  ReadLength(s, max) = [ok |-> TRUE, n |-> LengthIn(s, k, max), used |-> k]
BY SMT DEF ReadLength

\* writeLength and readLength agree: a length written with any of the five
\* forms is read back as it was and with as many bytes as were written, on
\* platforms with ints of 32 and of 64 bits, so that the words behind it are
\* found where they start (codec.go:21-77).
THEOREM LengthRoundtrip ==
  ASSUME NEW max \in Nat,
         NEW n \in 0 .. max, n < Limit,
         NEW s \in Seq(Nat),
         Len(s) >= Len(WriteLength(n)),
         \A i \in 1 .. Len(WriteLength(n)) : s[i] = WriteLength(n)[i]
  PROVE  ReadLength(s, max) = [ok |-> TRUE, n |-> n, used |-> Len(WriteLength(n))]
<1> DEFINE w == WriteLength(n)
<1>a. n \in Nat /\ max \in Nat /\ n <= max /\ n < 4294967296
  BY SMT DEF Limit
<1> DEFINE q1 == n \div 256
           q2 == n \div 65536
           q3 == n \div 16777216
           b1 == Byte(n, 1)
           b2 == Byte(n, 256)
           b3 == Byte(n, 65536)
<1>f. /\ q1 \in Nat /\ q2 \in Nat /\ q3 \in Nat
      /\ b1 \in 0 .. 255 /\ b2 \in 0 .. 255 /\ b3 \in 0 .. 255
      /\ n = 256 * q1 + b1
      /\ q1 = 256 * q2 + b2
      /\ q2 = 256 * q3 + b3
  BY <1>a, Bytes, SMT
<1>b. /\ q1 \in Nat /\ q2 \in Nat /\ q3 \in Nat
      /\ b1 \in 0 .. 255 /\ b2 \in 0 .. 255 /\ b3 \in 0 .. 255
  <2> HIDE DEF q1, q2, q3, b1, b2, b3
  <2> QED BY <1>f, Zenon
<1>c. n = 256 * q1 + b1
  <2> HIDE DEF q1, q2, q3, b1, b2, b3
  <2> QED BY <1>f, Zenon
<1>d. q1 = 256 * q2 + b2
  <2> HIDE DEF q1, q2, q3, b1, b2, b3
  <2> QED BY <1>f, Zenon
<1>e. q2 = 256 * q3 + b3
  <2> HIDE DEF q1, q2, q3, b1, b2, b3
  <2> QED BY <1>f, Zenon
<1>1. CASE n < 128
  <2>1. w = <<Byte(n, 1)>>
    BY <1>1, SMT DEF WriteLength
  <2>2. w = <<b1>>
    BY <2>1, SMT
  <2> HIDE DEF q1, q2, q3, b1, b2, b3
  <2>3. /\ Len(w) = 1 /\ Len(s) >= 1
        /\ s[1] = b1
    BY <2>2, SMT
  <2>4. q1 = 0 /\ b1 = n
    BY <1>a, <1>b, <1>c, <1>1, SMT
  <2>5. Announced(s[1]) = 1
    <3>1. s[1] \in Nat /\ 0 <= s[1] /\ s[1] < 128
      BY <1>a, <1>1, <2>3, <2>4, SMT
    <3> QED BY <3>1, Forms, SMT
  <2>6. LengthIn(s, 1, max) = n
    BY <1>a, <1>b, <1>c, <2>3, <2>4, SMT DEF LengthIn
  <2> QED BY <2>3, <2>5, <2>6, ReadForm, SMT
<1>2. CASE n >= 128 /\ n < 16384
  <2>1. w = <<Byte(n + 128 * 256, 256), Byte(n, 1)>>
    BY <1>2, SMT DEF WriteLength
  <2>2. w = <<128 + q1, b1>>
    <3>1. Byte(n + 128 * 256, 256) = 128 + q1
      BY <1>a, <1>2, FirstByte, SMT
    <3> QED BY <2>1, <3>1, SMT
  <2> HIDE DEF q1, q2, q3, b1, b2, b3
  <2>3. /\ Len(w) = 2 /\ Len(s) >= 2
        /\ s[1] = 128 + q1 /\ s[2] = b1
    BY <2>2, SMT
  <2>4. q1 \in 0 .. 63
    BY <1>a, <1>b, <1>c, <1>2, SMT
  <2>5. Announced(s[1]) = 2
    <3>1. s[1] \in Nat /\ 128 <= s[1] /\ s[1] < 192
      BY <1>a, <1>2, <2>3, <2>4, SMT
    <3> QED BY <3>1, Forms, SMT
  <2>6. LengthIn(s, 2, max) = n
    BY <1>a, <1>b, <1>c, <2>3, <2>4, SMT DEF LengthIn
  <2> QED BY <2>3, <2>5, <2>6, ReadForm, SMT
<1>3. CASE n >= 16384 /\ n < 2097152
  <2>1. w = <<Byte(n + 192 * 65536, 65536), Byte(n, 256), Byte(n, 1)>>
    BY <1>3, SMT DEF WriteLength
  <2>2. w = <<192 + q2, b2, b1>>
    <3>1. Byte(n + 192 * 65536, 65536) = 192 + q2
      BY <1>a, <1>3, FirstByte, SMT
    <3> QED BY <2>1, <3>1, SMT
  <2> HIDE DEF q1, q2, q3, b1, b2, b3
  <2>3. /\ Len(w) = 3 /\ Len(s) >= 3
        /\ s[1] = 192 + q2 /\ s[2] = b2 /\ s[3] = b1
    BY <2>2, SMT
  <2>4. q2 \in 0 .. 31
    BY <1>a, <1>b, <1>c, <1>d, <1>3, SMT
  <2>5. Announced(s[1]) = 3
    <3>1. s[1] \in Nat /\ 192 <= s[1] /\ s[1] < 224
      BY <1>a, <1>3, <2>3, <2>4, SMT
    <3> QED BY <3>1, Forms, SMT
  <2>6. LengthIn(s, 3, max) = n
    BY <1>a, <1>b, <1>c, <1>d, <2>3, <2>4, SMT DEF LengthIn
  <2> QED BY <2>3, <2>5, <2>6, ReadForm, SMT
<1>4. CASE n >= 2097152 /\ n < 268435456
  <2>1. w = <<Byte(n, 16777216) + 224, Byte(n, 65536), Byte(n, 256), Byte(n, 1)>>
    BY <1>4, SMT DEF WriteLength
  <2>2. w = <<q3 + 224, b3, b2, b1>>
    <3>1. Byte(n, 16777216) = q3
      BY <1>a, <1>4, HighByte, SMT
    <3> QED BY <2>1, <3>1, SMT
  <2> HIDE DEF q1, q2, q3, b1, b2, b3
  <2>3. /\ Len(w) = 4 /\ Len(s) >= 4
        /\ s[1] = q3 + 224 /\ s[2] = b3 /\ s[3] = b2 /\ s[4] = b1
    BY <2>2, SMT
  <2>4. q3 \in 0 .. 15
    BY <1>a, <1>b, <1>c, <1>d, <1>e, <1>4, SMT
  <2>5. Announced(s[1]) = 4
    <3>1. s[1] \in Nat /\ 224 <= s[1] /\ s[1] < 240
      BY <1>a, <1>4, <2>3, <2>4, SMT
    <3> QED BY <3>1, Forms, SMT
  <2>6. LengthIn(s, 4, max) = n
    BY <1>a, <1>b, <1>c, <1>d, <1>e, <2>3, <2>4, SMT DEF LengthIn
  <2> QED BY <2>3, <2>5, <2>6, ReadForm, SMT
<1>5. CASE n >= 268435456
  <2>1. w = <<240, Byte(n, 16777216), Byte(n, 65536), Byte(n, 256), Byte(n, 1)>>
    BY <1>5, SMT DEF WriteLength
  <2>2. w = <<240, q3, b3, b2, b1>>
    <3>1. Byte(n, 16777216) = q3
      BY <1>a, <1>5, HighByte, SMT
    <3> QED BY <2>1, <3>1, SMT
  <2> HIDE DEF q1, q2, q3, b1, b2, b3
  <2>3. /\ Len(w) = 5 /\ Len(s) >= 5
        /\ s[1] = 240 /\ s[2] = q3 /\ s[3] = b3 /\ s[4] = b2 /\ s[5] = b1
    BY <2>2, SMT
  <2>4. q3 \in 0 .. 255
    BY <1>a, <1>b, <1>c, <1>d, <1>e, <1>5, SMT
  <2>5. Announced(s[1]) = 5
    <3>1. s[1] \in Nat /\ 240 <= s[1] /\ s[1] < 241
      BY <1>a, <1>5, <2>3, <2>4, SMT
    <3> QED BY <3>1, Forms, SMT
  <2>6. LengthIn(s, 5, max) = n
    BY <1>a, <1>b, <1>c, <1>d, <1>e, <2>3, <2>4, SMT DEF LengthIn, AsInt
  <2> QED BY <2>3, <2>5, <2>6, ReadForm, SMT
<1> QED BY <1>a, <1>1, <1>2, <1>3, <1>4, <1>5, SMT

\* A length is written as bytes (codec.go:22-38).
LEMMA LengthType ==
  ASSUME NEW n \in Nat
  PROVE  WriteLength(n) \in Seq(Nat)
<1>1. n + 128 * 256 \in Nat /\ n + 192 * 65536 \in Nat
  BY SMT
<1> DEFINE a0 == Byte(n, 1)
           a1 == Byte(n, 256)
           a2 == Byte(n, 65536)
           a3 == Byte(n, 16777216)
           c1 == Byte(n + 128 * 256, 256)
           c2 == Byte(n + 192 * 65536, 65536)
<1>2. a0 \in Nat /\ a1 \in Nat /\ a2 \in Nat /\ a3 \in Nat
  BY ByteType, SMT
<1>3. c1 \in Nat /\ c2 \in Nat
  BY <1>1, ByteType, SMT
<1>4. WriteLength(n) \in {<<a0>>, <<c1, a0>>, <<c2, a1, a0>>, <<a3 + 224, a2, a1, a0>>,
                          <<240, a3, a2, a1, a0>>}
  BY SMT DEF WriteLength
<1> HIDE DEF a0, a1, a2, a3, c1, c2
<1>5. a3 + 224 \in Nat /\ 240 \in Nat
  BY <1>2, SMT
<1>6. <<a0>> \in Seq(Nat) /\ <<c1, a0>> \in Seq(Nat)
  BY <1>2, <1>3, SMT
<1>7. <<c2, a1, a0>> \in Seq(Nat)
  BY <1>2, <1>3, SMT
<1>8. <<a3 + 224, a2, a1, a0>> \in Seq(Nat)
  BY <1>2, <1>5, SMT
<1>9. <<240, a3, a2, a1, a0>> \in Seq(Nat)
  BY <1>2, <1>5, SMT
<1> QED BY <1>4, <1>6, <1>7, <1>8, <1>9, Zenon

\* A word is read back whole, and what follows it starts where readWord stops:
\* framing survives words of every length and content, the empty word that ends
\* a sentence included (codec.go:79-102).
THEOREM WordRoundtrip ==
  ASSUME NEW max \in Nat,
         NEW x \in Seq(Nat), Len(x) <= max, Len(x) < Limit,
         NEW rest \in Seq(Nat)
  PROVE  ReadWord(WriteWord(x) \o rest, max)
           = [ok |-> TRUE, word |-> x, used |-> Len(WriteWord(x))]
<1> DEFINE l == WriteLength(Len(x))
           s == WriteWord(x) \o rest
<1>1. l \in Seq(Nat) /\ Len(l) \in Nat /\ Len(x) \in Nat /\ Len(x) \in 0 .. max
  BY LengthType, SMT
<1>2. s \in Seq(Nat) /\ Len(s) = Len(l) + Len(x) + Len(rest)
  BY <1>1, SMT DEF WriteWord
<1>3. \A i \in 1 .. Len(l) : s[i] = l[i]
  BY <1>1, SMT DEF WriteWord
<1>4. \A i \in 1 .. Len(x) : s[Len(l) + i] = x[i]
  BY <1>1, SMT DEF WriteWord
<1>5. Len(WriteWord(x)) = Len(l) + Len(x)
  BY <1>1, SMT DEF WriteWord
<1>6. Len(s) >= Len(l)
  BY <1>1, <1>2, SMT
<1> HIDE DEF s
<1>7. ReadLength(s, max) = [ok |-> TRUE, n |-> Len(x), used |-> Len(l)]
  BY <1>1, <1>2, <1>3, <1>6, LengthRoundtrip, Zenon
<1> HIDE DEF l
<1>8. SubSeq(s, Len(l) + 1, Len(l) + Len(x)) = x
  <2> DEFINE lo == Len(l) + 1
             hi == Len(l) + Len(x)
             u == SubSeq(s, lo, hi)
  <2>1. /\ lo \in Int /\ hi \in Int
        /\ \A i \in lo .. hi : i \in 1 .. Len(s)
        /\ (IF lo <= hi THEN hi - lo + 1 ELSE 0) = Len(x)
        /\ \A i \in 1 .. Len(x) : i \in 1 .. hi - lo + 1 /\ lo + i - 1 = Len(l) + i
    BY <1>1, <1>2, SMT
  <2> HIDE DEF lo, hi
  <2>2. \A i \in lo .. hi : s[i] \in Nat
    BY <1>2, <2>1, ElementOfSeq, Zenon
  <2>3. /\ u \in Seq(Nat)
        /\ Len(u) = IF lo <= hi THEN hi - lo + 1 ELSE 0
        /\ \A i \in 1 .. hi - lo + 1 : u[i] = s[lo + i - 1]
    BY <2>1, <2>2, SubSeqProperties, SMT
  <2> HIDE DEF u
  <2>4. Len(u) = Len(x)
    BY <2>1, <2>3, SMT
  <2>5. ASSUME NEW i \in 1 .. Len(u)
        PROVE  u[i] = x[i]
    <3>1. i \in 1 .. Len(x) /\ i \in 1 .. hi - lo + 1 /\ lo + i - 1 = Len(l) + i
      BY <2>1, <2>4, Zenon
    <3>2. u[i] = s[lo + i - 1]
      BY <2>3, <3>1, Zenon
    <3> QED BY <1>4, <3>1, <3>2, Zenon
  <2>6. u = x
    BY <2>3, <2>4, <2>5, SeqEqual, Zenon
  <2> QED BY <2>6 DEF u, lo, hi
<1>9. ReadWord(s, max) = [ok |-> TRUE, word |-> x, used |-> Len(l) + Len(x)]
  <2>1. Len(l) + Len(x) <= Len(s) /\ Len(x) >= 0
    BY <1>1, <1>2, SMT
  <2> DEFINE r == ReadLength(s, max)
  <2>2. r.ok /\ r.n = Len(x) /\ r.used = Len(l)
    BY <1>7, SMT
  <2> HIDE DEF r
  <2>3. ReadWord(s, max)
          = IF r.ok /\ r.n >= 0 /\ r.used + r.n <= Len(s)
            THEN [ok |-> TRUE, word |-> SubSeq(s, r.used + 1, r.used + r.n), used |-> r.used + r.n]
            ELSE [ok |-> FALSE, word |-> <<>>, used |-> 0]
    BY Zenon DEF ReadWord, r
  <2> QED BY <1>8, <2>1, <2>2, <2>3, Zenon
<1> QED BY <1>5, <1>9, SMT DEF s

-----------------------------------------------------------------------------
(* Sequences.                                                               *)

IsSeq(x) == \E S : x \in Seq(S)

\* The domain and the length of a sequence of anything.
LEMMA SeqShape ==
  ASSUME NEW x, IsSeq(x)
  PROVE  /\ Len(x) \in Nat /\ DOMAIN x = 1 .. Len(x)
         /\ x = <<>> <=> Len(x) = 0
<1>1. PICK S : x \in Seq(S)
  BY DEF IsSeq
<1> QED
  BY <1>1, LenProperties, EmptySeq

\* A function on 1 .. n is a sequence.
LEMMA SeqPointwise ==
  ASSUME NEW x, Len(x) \in Nat, x = [k \in 1 .. Len(x) |-> x[k]]
  PROVE  IsSeq(x)
<1>1. PICK S : S = {x[k] : k \in 1 .. Len(x)}
  OBVIOUS
<1>2. x \in [1 .. Len(x) -> S]
  BY <1>1
<1>3. x \in Seq(S)
  BY <1>2
<1> QED
  BY <1>3 DEF IsSeq

\* Sequences of no, one and two elements.
LEMMA SeqSmall ==
  /\ IsSeq(<<>>)
  /\ \A e : /\ IsSeq(<<e>>) /\ Len(<<e>>) = 1 /\ <<e>>[1] = e /\ <<e>> # <<>> /\ Head(<<e>>) = e
  /\ \A e, f : /\ IsSeq(<<e, f>>) /\ Len(<<e, f>>) = 2 /\ <<e, f>>[1] = e /\ <<e, f>>[2] = f
<1>1. <<>> \in Seq({})
  OBVIOUS
<1>2. ASSUME NEW e
      PROVE  /\ <<e>> \in Seq({e}) /\ Len(<<e>>) = 1 /\ <<e>>[1] = e /\ <<e>> # <<>> /\ Head(<<e>>) = e
  OBVIOUS
<1>3. ASSUME NEW e, NEW f
      PROVE  /\ <<e, f>> \in Seq({e, f}) /\ Len(<<e, f>>) = 2 /\ <<e, f>>[1] = e /\ <<e, f>>[2] = f
  OBVIOUS
<1>4. /\ IsSeq(<<>>)
      /\ \A e : IsSeq(<<e>>)
      /\ \A e, f : IsSeq(<<e, f>>)
  <2>1. \A e : IsSeq(<<e>>)
    BY <1>2 DEF IsSeq
  <2>2. \A e, f : IsSeq(<<e, f>>)
    BY <1>3 DEF IsSeq
  <2> QED
    BY <1>1, <2>1, <2>2 DEF IsSeq
<1> QED
  BY <1>2, <1>3, <1>4

\* Two sequences are over a common set, as the library's theorems want it.
LEMMA SeqBoth ==
  ASSUME NEW x, NEW y, IsSeq(x), IsSeq(y)
  PROVE  \E S : x \in Seq(S) /\ y \in Seq(S)
<1>1. PICK S, T : x \in Seq(S) /\ y \in Seq(T)
  BY DEF IsSeq
<1>2. x \in Seq(S \union T) /\ y \in Seq(S \union T)
  BY <1>1
<1> QED
  BY <1>2

\* Concatenation, element by element.
LEMMA SeqConcat ==
  ASSUME NEW x, NEW y, IsSeq(x), IsSeq(y)
  PROVE  /\ IsSeq(x \o y) /\ Len(x \o y) = Len(x) + Len(y)
         /\ \A k \in 1 .. Len(x) : (x \o y)[k] = x[k]
         /\ \A k \in 1 .. Len(y) : (x \o y)[Len(x) + k] = y[k]
<1>1. PICK S : x \in Seq(S) /\ y \in Seq(S)
  BY SeqBoth
<1>2. /\ x \o y \in Seq(S) /\ Len(x \o y) = Len(x) + Len(y)
      /\ \A k \in 1 .. Len(x) + Len(y) : (x \o y)[k] = IF k <= Len(x) THEN x[k] ELSE y[k - Len(x)]
  BY <1>1, ConcatProperties
<1>3. Len(x) \in Nat /\ Len(y) \in Nat
  BY <1>1, LenProperties
<1> QED
  BY <1>2, <1>3 DEF IsSeq

\* Tail, element by element.
LEMMA SeqTail ==
  ASSUME NEW x, IsSeq(x), x # <<>>
  PROVE  /\ IsSeq(Tail(x)) /\ Len(Tail(x)) = Len(x) - 1 /\ Head(x) = x[1]
         /\ \A k \in 1 .. Len(x) - 1 : Tail(x)[k] = x[k + 1]
<1>1. PICK S : x \in Seq(S)
  BY DEF IsSeq
<1>2. Tail(x) \in Seq(S) /\ Len(Tail(x)) = Len(x) - 1 /\ Head(x) = x[1]
      /\ \A k \in 1 .. Len(Tail(x)) : Tail(x)[k] = x[k + 1]
  BY <1>1, HeadTailProperties
<1> QED
  BY <1>2 DEF IsSeq

\* Append, element by element.
LEMMA SeqAppend ==
  ASSUME NEW x, NEW e, IsSeq(x)
  PROVE  /\ IsSeq(Append(x, e)) /\ Len(Append(x, e)) = Len(x) + 1
         /\ Append(x, e)[Len(x) + 1] = e
         /\ \A k \in 1 .. Len(x) : Append(x, e)[k] = x[k]
<1>1. PICK S : x \in Seq(S)
  BY DEF IsSeq
<1>2. x \in Seq(S \union {e})
  BY <1>1
<1> QED
  BY <1>2, AppendProperties DEF IsSeq

\* Sequences with the same elements are equal.
LEMMA SeqSame ==
  ASSUME NEW x, NEW y, IsSeq(x), IsSeq(y), Len(x) = Len(y), \A k \in 1 .. Len(x) : x[k] = y[k]
  PROVE  x = y
<1>1. PICK S : x \in Seq(S) /\ y \in Seq(S)
  BY SeqBoth
<1> QED
  BY <1>1, SeqEqual

\* RemoveAt closes the gap: the rows before k stay, the ones behind move up.
LEMMA SeqRemoveAt ==
  ASSUME NEW x, IsSeq(x), NEW k \in 1 .. Len(x)
  PROVE  /\ IsSeq(RemoveAt(x, k)) /\ Len(RemoveAt(x, k)) = Len(x) - 1
         /\ \A i \in 1 .. Len(x) - 1 : RemoveAt(x, k)[i] = x[IF i < k THEN i ELSE i + 1]
<1>1. PICK S : x \in Seq(S)
  BY DEF IsSeq
<1>2. Len(x) \in Nat /\ \A i \in 1 .. Len(x) : x[i] \in S
  BY <1>1, LenProperties
<1> DEFINE p == SubSeq(x, 1, k - 1)
           q == SubSeq(x, k + 1, Len(x))
<1>3. /\ p \in Seq(S) /\ Len(p) = k - 1
      /\ \A i \in 1 .. k - 1 : p[i] = x[i]
  <2>1. 1 \in Int /\ k - 1 \in Int /\ \A i \in 1 .. k - 1 : x[i] \in S
    BY <1>2
  <2>2. /\ SubSeq(x, 1, k - 1) \in Seq(S)
        /\ Len(SubSeq(x, 1, k - 1)) = IF 1 <= k - 1 THEN k - 1 - 1 + 1 ELSE 0
        /\ \A i \in 1 .. k - 1 - 1 + 1 : SubSeq(x, 1, k - 1)[i] = x[1 + i - 1]
    BY <2>1, SubSeqProperties
  <2> QED
    BY <2>2, <1>2
<1>4. /\ q \in Seq(S) /\ Len(q) = Len(x) - k
      /\ \A i \in 1 .. Len(x) - k : q[i] = x[k + i]
  <2>1. k + 1 \in Int /\ Len(x) \in Int /\ \A i \in k + 1 .. Len(x) : x[i] \in S
    BY <1>2
  <2>2. /\ SubSeq(x, k + 1, Len(x)) \in Seq(S)
        /\ Len(SubSeq(x, k + 1, Len(x))) = IF k + 1 <= Len(x) THEN Len(x) - (k + 1) + 1 ELSE 0
        /\ \A i \in 1 .. Len(x) - (k + 1) + 1 : SubSeq(x, k + 1, Len(x))[i] = x[k + 1 + i - 1]
    BY <2>1, SubSeqProperties
  <2> QED
    BY <2>2, <1>2
<1> HIDE DEF p, q
<1>5. /\ IsSeq(p \o q) /\ Len(p \o q) = Len(p) + Len(q)
      /\ \A i \in 1 .. Len(p) : (p \o q)[i] = p[i]
      /\ \A i \in 1 .. Len(q) : (p \o q)[Len(p) + i] = q[i]
  <2>1. IsSeq(p) /\ IsSeq(q)
    BY <1>3, <1>4 DEF IsSeq
  <2> QED
    BY <2>1, SeqConcat
<1>6. RemoveAt(x, k) = p \o q
  BY DEF RemoveAt, p, q
<1>7. ASSUME NEW i \in 1 .. Len(x) - 1
      PROVE  (p \o q)[i] = x[IF i < k THEN i ELSE i + 1]
  <2>1. CASE i < k
    BY <2>1, <1>2, <1>3, <1>5
  <2>2. CASE ~(i < k)
    <3>1. i - (k - 1) \in 1 .. Len(q) /\ i = Len(p) + (i - (k - 1)) /\ k + (i - (k - 1)) = i + 1
      BY <2>2, <1>2, <1>3, <1>4
    <3>2. (p \o q)[i] = q[i - (k - 1)] /\ q[i - (k - 1)] = x[i + 1]
      BY <3>1, <1>4, <1>5
    <3> QED
      BY <2>2, <3>2
  <2> QED
    BY <2>1, <2>2
<1> QED
  BY <1>2, <1>3, <1>4, <1>5, <1>6, <1>7

-----------------------------------------------------------------------------
(* Commands and tables.                                                     *)

\* The commands the panel sends, by operation and table.
LEMMA CmdCases ==
  ASSUME NEW m \in Cmd
  PROVE  /\ m = Command(m.op, m.tbl, m.id, m.val)
         /\ m.op \in {"print", "add", "set", "remove"}
         /\ m.op = "print" => m.tbl \in {"iface", "addr", "peer"} /\ m = PrintOf(m.tbl)
         /\ m.op = "add" => m.tbl \in {"addr", "peer"}
         /\ m.op = "set" => m.tbl = "iface" \/ (m.tbl \in {"addr", "peer"} /\ m.id \in Ids)
         /\ m.op = "remove" => m.tbl = "peer" /\ m.id \in Ids
<1>1. \/ \E t \in {"iface", "addr", "peer"} : m = PrintOf(t)
      \/ \E k \in Keys : m = Command("set", "iface", 0, k)
      \/ \E a \in Addrs : m = Command("add", "addr", 0, a)
      \/ \E i \in Ids, a \in Addrs : m = Command("set", "addr", i, a)
      \/ \E v \in Bodies : m = Command("add", "peer", 0, v)
      \/ \E i \in Ids, v \in Bodies : m = Command("set", "peer", i, v)
      \/ \E i \in Ids : m = Command("remove", "peer", i, None)
  BY DEF Cmd
<1> QED
  BY <1>1 DEF Command, PrintOf

\* What a command may do to the router's tables, with the conditions of each outcome.
LEMMA EffectCases ==
  ASSUME NEW m \in Cmd, NEW T, NEW o \in Effect(m, T)
  PROVE  \/ m.op = "print" /\ o = [ok |-> TRUE, tbl |-> T, row |-> Rows(T, m.tbl)]
         \/ m.op # "print" /\ o = Refused(T) /\ (m.op = "remove" => ~Has(T.peer, m.id))
         \/ /\ m.op = "add" /\ m.tbl \in {"addr", "peer"} /\ T.next \in Ids
            /\ o = Changed([T EXCEPT !.next = @ + 1,
                                     ![m.tbl] = Append(@, Row(T.next, m.val @@ NewRow(m.tbl), FALSE))], <<T.next>>)
         \/ /\ m.op = "set" /\ m.tbl = "iface"
            /\ o = Changed([T EXCEPT !.key = m.val], <<>>)
         \/ /\ m.op = "set" /\ m.tbl \in {"addr", "peer"}
            /\ o = Changed([T EXCEPT ![m.tbl] = Edited(@, m.id, m.val)], <<>>)
         \/ /\ m.op = "remove" /\ m.tbl = "peer"
            /\ \E k \in Places(T.peer, m.id) : o = Changed([T EXCEPT !.peer = RemoveAt(@, k)], <<>>)
<1>1. CASE m.op = "print"
  BY <1>1 DEF Effect
<1>2. CASE m.op = "add"
  <2>1. /\ m.tbl \in {"addr", "peer"}
        /\ o = Refused(T) \/ /\ T.next \in Ids
                             /\ o = Changed([T EXCEPT !.next = @ + 1,
                                     ![m.tbl] = Append(@, Row(T.next, m.val @@ NewRow(m.tbl), FALSE))], <<T.next>>)
    BY <1>2, CmdCases DEF Effect
  <2> QED
    BY <1>2, <2>1
<1>3. CASE m.op = "set" /\ m.tbl = "iface"
  BY <1>3 DEF Effect
<1>4. CASE m.op = "set" /\ m.tbl # "iface"
  <2>1. /\ m.tbl \in {"addr", "peer"}
        /\ o = Refused(T) \/ o = Changed([T EXCEPT ![m.tbl] = Edited(@, m.id, m.val)], <<>>)
    BY <1>4, CmdCases DEF Effect
  <2> QED
    BY <1>4, <2>1
<1>5. CASE m.op = "remove"
  <2>1. m.tbl = "peer"
    BY <1>5, CmdCases
  <2>2. \/ o = Refused(T) /\ ~Has(T.peer, m.id)
        \/ \E k \in Places(T.peer, m.id) : o = Changed([T EXCEPT !.peer = RemoveAt(@, k)], <<>>)
    BY <1>5, <2>1 DEF Effect
  <2> QED
    BY <1>5, <2>1, <2>2
<1> QED
  BY <1>1, <1>2, <1>3, <1>4, <1>5, CmdCases

\* The rows of one table: each as Row makes it, with an identifier given out
\* before n, and no identifier on two of them.
RowsOK(s, n) ==
  /\ IsSeq(s)
  /\ \A k \in 1 .. Len(s) : s[k] = Row(s[k].id, s[k].val, s[k].off) /\ s[k].id \in 1 .. n - 1
  /\ \A k, l \in 1 .. Len(s) : s[k].id = s[l].id => k = l

\* Well-formed tables, said with RowsOK.
LEMMA WellFormedRows ==
  ASSUME NEW T, WellFormed(T)
  PROVE  /\ T.next \in 1 .. MaxId + 1
         /\ RowsOK(T.addr, T.next) /\ RowsOK(T.peer, T.next)
<1>1. ASSUME NEW t \in {"addr", "peer"}
      PROVE  RowsOK(T[t], T.next)
  <2>1. Len(T[t]) \in Nat /\ T[t] = [k \in 1 .. Len(T[t]) |-> T[t][k]]
    BY DEF WellFormed
  <2>2. IsSeq(T[t])
    BY <2>1, SeqPointwise
  <2> QED
    BY <2>1, <2>2 DEF RowsOK, WellFormed
<1> QED
  BY <1>1 DEF WellFormed

\* Tables put together from well-formed parts are well-formed.
LEMMA WellFormedOf ==
  ASSUME NEW k, NEW a, NEW p, NEW n, n \in 1 .. MaxId + 1, RowsOK(a, n), RowsOK(p, n)
  PROVE  WellFormed([key |-> k, addr |-> a, peer |-> p, next |-> n])
<1> DEFINE T == [key |-> k, addr |-> a, peer |-> p, next |-> n]
<1>1. T.key = k /\ T.addr = a /\ T.peer = p /\ T.next = n
  OBVIOUS
<1>2. ASSUME NEW s, RowsOK(s, n)
      PROVE  /\ s = [i \in 1 .. Len(s) |-> s[i]] /\ Len(s) \in Nat
             /\ \A i \in DOMAIN s : s[i] = Row(s[i].id, s[i].val, s[i].off) /\ s[i].id \in 1 .. n - 1
             /\ \A i, l \in DOMAIN s : s[i].id = s[l].id => i = l
  <2>1. IsSeq(s)
    BY <1>2 DEF RowsOK
  <2>2. PICK S : s \in Seq(S)
    BY <2>1 DEF IsSeq
  <2>3. s \in [1 .. Len(s) -> S] /\ Len(s) \in Nat /\ DOMAIN s = 1 .. Len(s)
    BY <2>2, LenProperties
  <2> QED
    BY <1>2, <2>3 DEF RowsOK
<1> HIDE DEF T
<1>3. T = [key |-> T.key, addr |-> T.addr, peer |-> T.peer, next |-> T.next]
  BY <1>1 DEF T
<1>4. ASSUME NEW t \in {"addr", "peer"}
      PROVE  /\ T[t] = [i \in 1 .. Len(T[t]) |-> T[t][i]] /\ Len(T[t]) \in Nat
             /\ \A i \in DOMAIN T[t] : /\ T[t][i] = Row(T[t][i].id, T[t][i].val, T[t][i].off)
                                       /\ T[t][i].id \in 1 .. T.next - 1
             /\ \A i, l \in DOMAIN T[t] : T[t][i].id = T[t][l].id => i = l
  <2>1. CASE t = "addr"
    <3>1. T[t] = a /\ T.next = n
      BY <1>1, <2>1
    <3> QED
      BY <3>1, <1>2
  <2>2. CASE t = "peer"
    <3>1. T[t] = p /\ T.next = n
      BY <1>1, <2>2
    <3> QED
      BY <3>1, <1>2
  <2> QED
    BY <2>1, <2>2
<1>5. WellFormed(T)
  BY <1>1, <1>3, <1>4 DEF WellFormed
<1> QED
  BY <1>5 DEF T

\* Rows stay well-formed when identifiers are given out.
LEMMA RowsLater ==
  ASSUME NEW s, NEW n \in Nat, NEW i \in Nat, n <= i, RowsOK(s, n)
  PROVE  RowsOK(s, i)
BY DEF RowsOK

\* What add, set and remove do to the rows of a table.
LEMMA RowsAdded ==
  ASSUME NEW s, NEW n \in Nat \ {0}, RowsOK(s, n), NEW v
  PROVE  RowsOK(Append(s, Row(n, v, FALSE)), n + 1)
<1> DEFINE r == Row(n, v, FALSE)
           x == Append(s, r)
<1>1. r = Row(r.id, r.val, r.off) /\ r.id = n
  BY DEF Row
<1> HIDE DEF r
<1>2. Len(s) \in Nat
  BY SeqShape DEF RowsOK
<1>3. /\ IsSeq(x) /\ Len(x) = Len(s) + 1 /\ x[Len(s) + 1] = r
      /\ \A k \in 1 .. Len(s) : x[k] = s[k]
  BY SeqAppend DEF RowsOK
<1> HIDE DEF x
<1>4. ASSUME NEW k \in 1 .. Len(x)
      PROVE  /\ x[k] = Row(x[k].id, x[k].val, x[k].off) /\ x[k].id \in 1 .. n + 1 - 1
             /\ x[k].id = n <=> k = Len(s) + 1
  <2>1. CASE k \in 1 .. Len(s)
    <3>1. x[k] = s[k] /\ s[k] = Row(s[k].id, s[k].val, s[k].off) /\ s[k].id \in 1 .. n - 1
      BY <1>3, <2>1 DEF RowsOK
    <3> QED
      BY <1>2, <2>1, <3>1
  <2>2. CASE k = Len(s) + 1
    BY <1>1, <1>3, <2>2
  <2> QED
    BY <1>2, <1>3, <2>1, <2>2
<1>5. ASSUME NEW k \in 1 .. Len(x), NEW l \in 1 .. Len(x), x[k].id = x[l].id
      PROVE  k = l
  <2>1. CASE k = Len(s) + 1 \/ l = Len(s) + 1
    BY <1>4, <1>5, <2>1
  <2>2. CASE k # Len(s) + 1 /\ l # Len(s) + 1
    <3>1. k \in 1 .. Len(s) /\ l \in 1 .. Len(s)
      BY <1>2, <1>3, <2>2
    <3> QED
      BY <1>3, <1>5, <3>1 DEF RowsOK
  <2> QED
    BY <2>1, <2>2
<1>6. RowsOK(x, n + 1)
  BY <1>3, <1>4, <1>5 DEF RowsOK
<1> QED
  BY <1>6 DEF x, r

\* Setting a row (UpdatePeer, SetInterface) keeps the rows, their order and identifiers.
LEMMA RowsSet ==
  ASSUME NEW s, NEW n \in Nat, RowsOK(s, n), NEW i, NEW w
  PROVE  /\ RowsOK(Edited(s, i, w), n) /\ Len(Edited(s, i, w)) = Len(s)
         /\ \A k \in 1 .. Len(s) : Edited(s, i, w)[k].id = s[k].id
<1> DEFINE x == Edited(s, i, w)
<1>0. x = [k \in DOMAIN s |-> IF s[k].id = i THEN [s[k] EXCEPT !.val = w @@ @] ELSE s[k]]
  BY DEF Edited
<1> HIDE DEF x
<1>1. Len(s) \in Nat /\ DOMAIN s = 1 .. Len(s)
  BY SeqShape DEF RowsOK
<1>2. PICK S : S = {x[k] : k \in 1 .. Len(s)}
  OBVIOUS
<1>3. x \in [1 .. Len(s) -> S]
  BY <1>0, <1>1, <1>2
<1>4. x \in Seq(S) /\ Len(x) = Len(s)
  BY <1>1, <1>3
<1>5. ASSUME NEW k \in 1 .. Len(s)
      PROVE  x[k].id = s[k].id /\ x[k] = Row(x[k].id, x[k].val, x[k].off)
  <2>1. s[k] = Row(s[k].id, s[k].val, s[k].off)
    BY DEF RowsOK
  <2>2. PICK u : u = w @@ s[k].val
    OBVIOUS
  <2>3. x[k] = IF s[k].id = i THEN [s[k] EXCEPT !.val = u] ELSE s[k]
    BY <1>0, <1>1, <2>2
  <2> QED
    BY <2>1, <2>3 DEF Row
<1>6. IsSeq(x)
  BY <1>4 DEF IsSeq
<1>7. ASSUME NEW k \in 1 .. Len(x)
      PROVE  x[k] = Row(x[k].id, x[k].val, x[k].off) /\ x[k].id \in 1 .. n - 1
  BY <1>4, <1>5 DEF RowsOK
<1>8. ASSUME NEW k \in 1 .. Len(x), NEW l \in 1 .. Len(x), x[k].id = x[l].id
      PROVE  k = l
  BY <1>4, <1>5, <1>8 DEF RowsOK
<1>9. RowsOK(x, n)
  BY <1>6, <1>7, <1>8 DEF RowsOK
<1> QED
  BY <1>4, <1>5, <1>9 DEF x

\* EXCEPT on the tables, a part spelled out.
LEMMA TableUpdates ==
  ASSUME NEW T, T = [key |-> T.key, addr |-> T.addr, peer |-> T.peer, next |-> T.next], NEW r, NEW i
  PROVE  /\ [T EXCEPT !.key = r] = [key |-> r, addr |-> T.addr, peer |-> T.peer, next |-> T.next]
         /\ [T EXCEPT !.addr = r] = [key |-> T.key, addr |-> r, peer |-> T.peer, next |-> T.next]
         /\ [T EXCEPT !.peer = r] = [key |-> T.key, addr |-> T.addr, peer |-> r, next |-> T.next]
         /\ [T EXCEPT !.next = i, !.addr = r] = [key |-> T.key, addr |-> r, peer |-> T.peer, next |-> i]
         /\ [T EXCEPT !.next = i, !.peer = r] = [key |-> T.key, addr |-> T.addr, peer |-> r, next |-> i]
<1>0. PICK k, a, p, n : k = T.key /\ a = T.addr /\ p = T.peer /\ n = T.next
  OBVIOUS
<1>x. T = [key |-> k, addr |-> a, peer |-> p, next |-> n]
  BY <1>0
<1>1. /\ [T EXCEPT !.key = r] = [key |-> r, addr |-> a, peer |-> p, next |-> n]
      /\ [T EXCEPT !.addr = r] = [key |-> k, addr |-> r, peer |-> p, next |-> n]
      /\ [T EXCEPT !.peer = r] = [key |-> k, addr |-> a, peer |-> r, next |-> n]
  BY <1>x
<1>2. PICK X : X = [T EXCEPT !.next = i]
  OBVIOUS
<1>3. X = [key |-> k, addr |-> a, peer |-> p, next |-> i]
  BY <1>x, <1>2
<1>4. /\ [T EXCEPT !.next = i, !.addr = r] = [X EXCEPT !.addr = r]
      /\ [T EXCEPT !.next = i, !.peer = r] = [X EXCEPT !.peer = r]
  BY <1>2
<1>5. /\ [X EXCEPT !.addr = r] = [key |-> k, addr |-> r, peer |-> p, next |-> i]
      /\ [X EXCEPT !.peer = r] = [key |-> k, addr |-> a, peer |-> r, next |-> i]
  BY <1>3
<1> QED
  BY <1>0, <1>1, <1>4, <1>5

\* Removing a row (DeletePeer) leaves no row with its identifier.
LEMMA RowsRemoved ==
  ASSUME NEW s, NEW n \in Nat, RowsOK(s, n), NEW i, NEW k \in Places(s, i)
  PROVE  RowsOK(RemoveAt(s, k), n) /\ ~Has(RemoveAt(s, k), i)
         /\ \A l \in 1 .. Len(RemoveAt(s, k)) : \E e \in 1 .. Len(s) : RemoveAt(s, k)[l].id = s[e].id
<1>1. Len(s) \in Nat /\ DOMAIN s = 1 .. Len(s) /\ k \in 1 .. Len(s) /\ s[k].id = i
  BY SeqShape DEF RowsOK, Places
<1> DEFINE x == RemoveAt(s, k)
           At(l) == IF l < k THEN l ELSE l + 1
<1>2. /\ IsSeq(x) /\ Len(x) = Len(s) - 1
      /\ \A l \in 1 .. Len(s) - 1 : x[l] = s[At(l)]
  BY <1>1, SeqRemoveAt DEF RowsOK
<1> HIDE DEF x
<1>3. \A l \in 1 .. Len(x) : At(l) \in 1 .. Len(s) /\ x[l] = s[At(l)] /\ At(l) # k
  BY <1>1, <1>2
<1>4. \A l, e \in 1 .. Len(x) : At(l) = At(e) => l = e
  BY <1>1, <1>2
<1> HIDE DEF At
<1>5. RowsOK(x, n)
  BY <1>2, <1>3, <1>4 DEF RowsOK
<1>6. ~Has(x, i)
  <2>1. DOMAIN x = 1 .. Len(x)
    BY <1>2, SeqShape
  <2>2. \A l \in 1 .. Len(x) : x[l].id # i
    BY <1>1, <1>3 DEF RowsOK
  <2> QED
    BY <2>1, <2>2 DEF Has, Places
<1> QED
  BY <1>3, <1>5, <1>6 DEF x

\* Of an execution (RouterTables.Effect): the tables stay as RouterOS keeps
\* them, identifiers are given out upwards, a row that is gone stays gone, and
\* the answer is a sequence, for a print the rows the table has.
Outcome(m, T, o) ==
  /\ WellFormed(o.tbl) /\ T.next <= o.tbl.next
  /\ o.ok \in BOOLEAN /\ IsSeq(o.row)
  /\ o.ok = TRUE /\ m = PrintOf("addr") => RowsOK(o.row, T.next)
  /\ o.ok = TRUE /\ m.op = "remove" => ~Has(o.tbl.peer, m.id) /\ m.id < o.tbl.next
  /\ \A i \in Ids : i < T.next /\ ~Has(T.peer, i) => ~Has(o.tbl.peer, i)

\* A table has a row if one of its places has the identifier.
LEMMA HasOf ==
  ASSUME NEW s, NEW n, RowsOK(s, n), NEW i
  PROVE  Has(s, i) <=> \E k \in 1 .. Len(s) : s[k].id = i
<1>1. DOMAIN s = 1 .. Len(s)
  BY SeqShape DEF RowsOK
<1> QED
  BY <1>1 DEF Has, Places

\* After any command the tables are well-formed, and a row the router refused to
\* remove is not there.
LEMMA EffectOutcome ==
  ASSUME NEW m \in Cmd, NEW T, WellFormed(T), NEW o \in Effect(m, T)
  PROVE  Outcome(m, T, o)
<1> DEFINE U(a, p, n) == [key |-> T.key, addr |-> a, peer |-> p, next |-> n]
<1>0. /\ T.next \in 1 .. MaxId + 1 /\ RowsOK(T.addr, T.next) /\ RowsOK(T.peer, T.next)
      /\ T.next \in Nat
  BY WellFormedRows, IdsAssumption
<1>a. T = U(T.addr, T.peer, T.next)
  BY DEF WellFormed
<1> HIDE DEF U
<1>b. ASSUME NEW r, NEW i
      PROVE  /\ [T EXCEPT !.key = r] = [key |-> r, addr |-> T.addr, peer |-> T.peer, next |-> T.next]
             /\ [T EXCEPT !.addr = r] = U(r, T.peer, T.next)
             /\ [T EXCEPT !.peer = r] = U(T.addr, r, T.next)
             /\ [T EXCEPT !.next = i, !.addr = r] = U(r, T.peer, i)
             /\ [T EXCEPT !.next = i, !.peer = r] = U(T.addr, r, i)
  <2>1. T = [key |-> T.key, addr |-> T.addr, peer |-> T.peer, next |-> T.next]
    BY <1>a DEF U
  <2> QED
    BY <2>1, TableUpdates DEF U
<1>d. \A a, p, n : U(a, p, n).key = T.key /\ U(a, p, n).addr = a /\ U(a, p, n).peer = p /\ U(a, p, n).next = n
  BY DEF U
<1>c. ASSUME NEW a, NEW p, NEW n \in 1 .. MaxId + 1, RowsOK(a, n), RowsOK(p, n)
      PROVE  WellFormed(U(a, p, n))
  BY <1>c, WellFormedOf DEF U
<1>z. ASSUME WellFormed(o.tbl), T.next <= o.tbl.next, o.ok = TRUE, IsSeq(o.row), m # PrintOf("addr"),
             m.op = "remove" => ~Has(o.tbl.peer, m.id) /\ m.id < o.tbl.next,
             \A i \in Ids : i < T.next /\ ~Has(T.peer, i) => ~Has(o.tbl.peer, i)
      PROVE  Outcome(m, T, o)
  BY <1>z DEF Outcome
<1>s. IsSeq(<<>>) /\ \A e : IsSeq(<<e>>)
  BY SeqSmall
<1>1. CASE m.op = "print" /\ o = [ok |-> TRUE, tbl |-> T, row |-> Rows(T, m.tbl)]
  <2>1. m.tbl \in {"iface", "addr", "peer"} /\ (m = PrintOf("addr") => m.tbl = "addr")
    BY <1>1, CmdCases DEF PrintOf, Command
  <2>2. CASE m.tbl = "iface"
    <3>1. IsSeq(Rows(T, m.tbl))
      BY <2>2, SeqSmall DEF Rows
    <3> QED
      BY <1>0, <1>1, <2>1, <2>2, <3>1 DEF Outcome
  <2>3. CASE m.tbl = "addr"
    <3>1. Rows(T, m.tbl) = T.addr /\ IsSeq(T.addr)
      BY <1>0, <2>3 DEF Rows, RowsOK
    <3> QED
      BY <1>0, <1>1, <3>1 DEF Outcome
  <2>4. CASE m.tbl = "peer"
    <3>1. Rows(T, m.tbl) = T.peer /\ IsSeq(T.peer)
      BY <1>0, <2>4 DEF Rows, RowsOK
    <3> QED
      BY <1>0, <1>1, <2>1, <2>4, <3>1 DEF Outcome
  <2> QED
    BY <2>1, <2>2, <2>3, <2>4
<1>2. CASE m.op # "print" /\ o = Refused(T)
  <2>1. o.ok = FALSE /\ o.tbl = T /\ o.row = <<>>
    BY <1>2 DEF Refused
  <2>2. WellFormed(o.tbl) /\ T.next <= o.tbl.next
    BY <1>0, <2>1
  <2>3.  o.ok \in BOOLEAN /\ IsSeq(o.row)
    BY <1>s, <2>1
  <2>4. /\ o.ok = TRUE /\ m = PrintOf("addr") => RowsOK(o.row, T.next)
        /\ o.ok = TRUE /\ m.op = "remove" => ~Has(o.tbl.peer, m.id) /\ m.id < o.tbl.next
    BY <2>1
  <2>5. \A i \in Ids : i < T.next /\ ~Has(T.peer, i) => ~Has(o.tbl.peer, i)
    BY <2>1
  <2> QED
    BY <2>2, <2>3, <2>4, <2>5 DEF Outcome
<1>3. CASE /\ m.op = "add" /\ m.tbl \in {"addr", "peer"} /\ T.next \in Ids
           /\ o = Changed([T EXCEPT !.next = @ + 1,
                                     ![m.tbl] = Append(@, Row(T.next, m.val @@ NewRow(m.tbl), FALSE))], <<T.next>>)
  <2> DEFINE n == T.next + 1
             v == m.val @@ NewRow(m.tbl)
             a == IF m.tbl = "addr" THEN Append(T.addr, Row(T.next, v, FALSE)) ELSE T.addr
             p == IF m.tbl = "peer" THEN Append(T.peer, Row(T.next, v, FALSE)) ELSE T.peer
  <2> HIDE DEF v
  <2>1. T.next \in Nat \ {0} /\ n \in 1 .. MaxId + 1 /\ n \in Nat /\ T.next <= n
    BY <1>0, <1>3, IdsAssumption DEF Ids
  <2>2. RowsOK(a, n) /\ RowsOK(p, n)
    <3>1. RowsOK(T.addr, n) /\ RowsOK(T.peer, n)
      BY <1>0, <2>1, RowsLater
    <3>2. RowsOK(Append(T.addr, Row(T.next, v, FALSE)), n) /\ RowsOK(Append(T.peer, Row(T.next, v, FALSE)), n)
      BY <1>0, <2>1, RowsAdded
    <3> QED
      BY <3>1, <3>2
  <2>3. [T EXCEPT !.next = @ + 1, ![m.tbl] = Append(@, Row(T.next, v, FALSE))] = U(a, p, n)
    <3>1. CASE m.tbl = "addr"
      <4>1. [T EXCEPT !.next = T.next + 1, !.addr = Append(T.addr, Row(T.next, v, FALSE))]
              = U(Append(T.addr, Row(T.next, v, FALSE)), T.peer, T.next + 1)
        BY <1>b
      <4> QED
        BY <3>1, <4>1
    <3>2. CASE m.tbl = "peer"
      <4>1. [T EXCEPT !.next = T.next + 1, !.peer = Append(T.peer, Row(T.next, v, FALSE))]
              = U(T.addr, Append(T.peer, Row(T.next, v, FALSE)), T.next + 1)
        BY <1>b
      <4> QED
        BY <3>2, <4>1
    <3> QED
      BY <1>3, <3>1, <3>2
  <2>4. ASSUME NEW i \in Ids, i < T.next, ~Has(T.peer, i)
        PROVE  ~Has(p, i)
    <3>1. CASE m.tbl = "peer"
      <4>1. IsSeq(T.peer) /\ Len(T.peer) \in Nat
        BY <1>0, SeqShape DEF RowsOK
      <4>2. /\ p = Append(T.peer, Row(T.next, v, FALSE)) /\ Len(p) = Len(T.peer) + 1
            /\ p[Len(T.peer) + 1] = Row(T.next, v, FALSE)
            /\ \A k \in 1 .. Len(T.peer) : p[k] = T.peer[k]
        BY <3>1, <4>1, SeqAppend
      <4>3. Row(T.next, v, FALSE).id = T.next
        BY DEF Row
      <4>4. \A k \in 1 .. Len(T.peer) : T.peer[k].id # i
        BY <1>0, <2>4, HasOf
      <4> HIDE DEF p
      <4>5. \A k \in 1 .. Len(p) : p[k].id # i
        <5>0. i < T.next
          BY <2>4
        <5> SUFFICES ASSUME NEW k \in 1 .. Len(p) PROVE p[k].id # i
          OBVIOUS
        <5>1. CASE k \in 1 .. Len(T.peer)
          BY <4>2, <4>4, <5>1
        <5>2. CASE k = Len(T.peer) + 1
          <6>1. p[k].id = T.next
            BY <4>2, <4>3, <5>2
          <6> QED
            BY <1>0, <5>0, <6>1
        <5>3. Len(T.peer) \in Nat /\ Len(p) = Len(T.peer) + 1
          BY <4>1, <4>2
        <5> QED
          BY <5>1, <5>2, <5>3
      <4> QED
        BY <2>2, <4>5, HasOf
    <3>2. CASE m.tbl # "peer"
      BY <2>4, <3>2
    <3> QED
      BY <3>1, <3>2
  <2> HIDE DEF a, p, n
  <2>5. o.ok = TRUE /\ o.tbl = U(a, p, n) /\ o.row = <<T.next>>
    BY <1>3, <2>3 DEF Changed, v
  <2>6. m # PrintOf("addr")
    BY <1>3 DEF PrintOf, Command
  <2>7. WellFormed(o.tbl) /\ o.tbl.next = n /\ o.tbl.peer = p
    BY <1>d, <1>c, <2>1, <2>2, <2>5
  <2> QED
    BY <1>3, <1>s, <2>1, <2>4, <2>5, <2>6, <2>7 DEF Outcome
<1>4. CASE m.op = "set" /\ m.tbl = "iface" /\ o = Changed([T EXCEPT !.key = m.val], <<>>)
  <2>1. o.ok = TRUE /\ o.tbl = [key |-> m.val, addr |-> T.addr, peer |-> T.peer, next |-> T.next] /\ o.row = <<>>
    BY <1>4, <1>b DEF Changed
  <2>2. WellFormed(o.tbl)
    BY <1>0, <2>1, WellFormedOf
  <2>3. m # PrintOf("addr")
    BY <1>4 DEF PrintOf, Command
  <2>4. o.tbl.next = T.next /\ o.tbl.peer = T.peer /\ IsSeq(o.row)
    BY <1>s, <2>1
  <2>5. o.ok = TRUE /\ m.op # "remove"
    BY <1>4, <2>1
  <2> QED
    <3>1. T.next <= o.tbl.next
      BY <1>0, <2>4
    <3>2. \A i \in Ids : i < T.next /\ ~Has(T.peer, i) => ~Has(o.tbl.peer, i)
      BY <2>4
    <3> QED
      BY <1>z, <2>2, <2>3, <2>4, <2>5, <3>1, <3>2, Zenon
<1>5. CASE /\ m.op = "set" /\ m.tbl \in {"addr", "peer"}
           /\ o = Changed([T EXCEPT ![m.tbl] = Edited(@, m.id, m.val)], <<>>)
  <2>0. m.op = "set" /\ m.tbl \in {"addr", "peer"}
    BY <1>5
  <2> DEFINE New(s) == Edited(s, m.id, m.val)
             a == IF m.tbl = "addr" THEN New(T.addr) ELSE T.addr
             p == IF m.tbl = "peer" THEN New(T.peer) ELSE T.peer
  <2>1. /\ RowsOK(New(T.addr), T.next) /\ RowsOK(New(T.peer), T.next) /\ Len(New(T.peer)) = Len(T.peer)
        /\ \A k \in 1 .. Len(T.peer) : New(T.peer)[k].id = T.peer[k].id
    BY <1>0, RowsSet
  <2>2. o = Changed([T EXCEPT ![m.tbl] = New(T[m.tbl])], <<>>)
    BY <1>5
  <2> HIDE DEF New
  <2>3. o.ok = TRUE /\ o.tbl = U(a, p, T.next) /\ o.row = <<>>
    <3>1. CASE m.tbl = "addr"
      <4>1. [T EXCEPT !.addr = New(T.addr)] = U(New(T.addr), T.peer, T.next)
        BY <1>b
      <4> QED
        BY <2>2, <3>1, <4>1 DEF Changed
    <3>2. CASE m.tbl = "peer"
      <4>1. [T EXCEPT !.peer = New(T.peer)] = U(T.addr, New(T.peer), T.next)
        BY <1>b
      <4> QED
        BY <2>2, <3>2, <4>1 DEF Changed
    <3> QED
      BY <2>0, <3>1, <3>2
  <2>4. WellFormed(o.tbl) /\ o.tbl.next = T.next /\ o.tbl.peer = p
    BY <1>0, <1>d, <1>c, <2>1, <2>3
  <2>5. m # PrintOf("addr")
    BY <2>0 DEF PrintOf, Command
  <2>6. \A i \in Ids : Has(p, i) <=> Has(T.peer, i)
    BY <1>0, <2>1, HasOf
  <2>7. o.ok = TRUE /\ IsSeq(o.row) /\ m.op # "remove"
    BY <1>s, <2>0, <2>3
  <2> HIDE DEF a, p
  <2> QED
    <3>1. T.next <= o.tbl.next
      BY <1>0, <2>4
    <3>2. \A i \in Ids : i < T.next /\ ~Has(T.peer, i) => ~Has(o.tbl.peer, i)
      BY <2>4, <2>6
    <3> QED
      BY <1>z, <2>4, <2>5, <2>7, <3>1, <3>2, Zenon
<1>6. CASE /\ m.op = "remove" /\ m.tbl = "peer"
           /\ \E k \in Places(T.peer, m.id) : o = Changed([T EXCEPT !.peer = RemoveAt(@, k)], <<>>)
  <2>1. PICK k \in Places(T.peer, m.id) : o = Changed([T EXCEPT !.peer = RemoveAt(@, k)], <<>>)
    BY <1>6
  <2> DEFINE p == RemoveAt(T.peer, k)
  <2>2. /\ RowsOK(p, T.next) /\ ~Has(p, m.id)
        /\ \A l \in 1 .. Len(p) : \E e \in 1 .. Len(T.peer) : p[l].id = T.peer[e].id
    BY <1>0, RowsRemoved
  <2>3. m.id < T.next
    <3>1. k \in 1 .. Len(T.peer) /\ T.peer[k].id = m.id
      BY <1>0, SeqShape DEF RowsOK, Places
    <3> QED
      BY <1>0, <3>1 DEF RowsOK
  <2> HIDE DEF p
  <2>4. o.ok = TRUE /\ o.tbl = U(T.addr, p, T.next) /\ o.row = <<>>
    BY <1>b, <2>1 DEF Changed, p
  <2>5. WellFormed(o.tbl) /\ o.tbl.next = T.next /\ o.tbl.peer = p
    BY <1>0, <1>c, <1>d, <2>2, <2>4
  <2>6. m # PrintOf("addr")
    BY <1>6 DEF PrintOf, Command
  <2>7. \A i \in Ids : ~Has(T.peer, i) => ~Has(p, i)
    BY <1>0, <2>2, HasOf
  <2>8. o.ok = TRUE /\ IsSeq(o.row)
    BY <1>s, <2>4
  <2> QED
    <3>1. T.next <= o.tbl.next /\ m.id < o.tbl.next
      BY <1>0, <2>3, <2>5
    <3>2. \A i \in Ids : i < T.next /\ ~Has(T.peer, i) => ~Has(o.tbl.peer, i)
      BY <2>5, <2>7
    <3>3. ~Has(o.tbl.peer, m.id)
      BY <2>2, <2>5
    <3> QED
      BY <1>z, <2>5, <2>6, <2>8, <3>1, <3>2, <3>3, Zenon
<1> QED
  BY <1>1, <1>2, <1>3, <1>4, <1>5, <1>6, EffectCases

-----------------------------------------------------------------------------
(* The connection.                                                          *)

\* A call is at one of Call's steps, with its command, its attempt and what it
\* has read.
Pcs == {"idle", "lock", "dial", "login", "send", "recv", "ok", "err"}
CallOK(x) ==
  /\ x = CallAt(x.pc, x.cmd, x.try, x.rows)
  /\ x.pc \in Pcs
  /\ x.pc = "idle" => x = NoCall
  /\ x.pc # "idle" => x.cmd \in Cmd /\ x.try \in {1, 2}
  /\ IsSeq(x.rows)
CallShape == call = [c \in Caller |-> call[c]] /\ \A c \in Caller : CallOK(call[c])

\* The mutex is held by the one call that is between Lock and its return; the
\* connection is his alone, and there is one from the login on.
Holds(c) == call[c].pc \in {"dial", "login", "send", "recv"}
OneHolder ==
  /\ \A c \in Caller : Holds(c) => mu = {c}
  /\ mu # {} => \E c \in Caller : Holds(c)
  /\ conn \in {"none", "up", "closed"}
  /\ \A c \in Caller : call[c].pc \in {"dial", "login"} => conn = "none"
  /\ \A c \in Caller : call[c].pc \in {"send", "recv"} => conn # "none"

\* What is on the connection belongs to the attempt under way: its command, or
\* sentences, and nothing once the call has returned.
Attempt(c) == [by |-> c, cmd |-> call[c].cmd, try |-> call[c].try]
Wired ==
  /\ wire # {} => replies = <<>>
  /\ wire # {} \/ replies # <<>> => \E c \in Caller : call[c].pc = "recv" /\ wire \subseteq {Attempt(c)}
  /\ \A c \in Caller : call[c].pc \in {"lock", "dial", "login", "send"} => call[c].rows = <<>>
  /\ \A c \in Caller : call[c].pc = "recv" /\ wire # {} => call[c].rows = <<>>

\* A late command is of an earlier attempt than the one under way.
Fresh ==
  \A w \in late :
    /\ w = [by |-> w.by, cmd |-> w.cmd, try |-> w.try]
    /\ w.by \in Caller /\ w.cmd \in Cmd /\ w.try \in {1, 2} /\ Changing(w)
    /\ InCall(w.by) /\ w.cmd = call[w.by].cmd => w.try < call[w.by].try

ConnShape == CallShape /\ OneHolder /\ Wired /\ Fresh /\ OneConnection

\* How a step moves the call of c; the others stay as they are.
Moved(c, pc, try, rows) ==
  /\ CallShape'
  /\ call'[c].pc = pc /\ call'[c].cmd = call[c].cmd /\ call'[c].try = try /\ call'[c].rows = rows
  /\ \A d \in Caller : d # c => call'[d] = call[d]
MovedAgain(c) ==
  \/ call[c].try = 1 /\ mu' = mu /\ Moved(c, "dial", 2, <<>>)
  \/ call[c].try = 2 /\ mu' = {} /\ Moved(c, "err", 2, <<>>)

\* A call that is rewritten whole keeps its command; the other calls stay.
LEMMA MovedTo ==
  ASSUME CallShape, NEW c \in Caller, call[c].pc # "idle",
         NEW pc \in Pcs \ {"idle"}, NEW try \in {1, 2}, NEW rows, IsSeq(rows),
         call' = [call EXCEPT ![c] = CallAt(pc, call[c].cmd, try, rows)]
  PROVE  Moved(c, pc, try, rows)
<1> DEFINE x == CallAt(pc, call[c].cmd, try, rows)
<1>1. x.pc = pc /\ x.cmd = call[c].cmd /\ x.try = try /\ x.rows = rows
      /\ x = CallAt(x.pc, x.cmd, x.try, x.rows)
  BY DEF CallAt
<1> HIDE DEF x
<1>2. call[c].cmd \in Cmd /\ call = [d \in Caller |-> call[d]]
  BY DEF CallShape, CallOK
<1>3. CallOK(x)
  BY <1>1, <1>2 DEF CallOK
<1>4. call' = [call EXCEPT ![c] = x]
  BY DEF x
<1>5. CallShape'
  BY <1>2, <1>3, <1>4 DEF CallShape
<1> QED
  BY <1>1, <1>2, <1>4, <1>5 DEF Moved

\* The same for a step that only sets the program counter.
LEMMA MovedPc ==
  ASSUME CallShape, NEW c \in Caller, call[c].pc # "idle", NEW pc \in Pcs \ {"idle"},
         call' = [call EXCEPT ![c].pc = pc]
  PROVE  Moved(c, pc, call[c].try, call[c].rows)
<1>1. CallOK(call[c])
  BY DEF CallShape
<1>2. PICK x, m, t, r : x = call[c] /\ m = x.cmd /\ t = x.try /\ r = x.rows
  OBVIOUS
<1>3. x = [pc |-> x.pc, cmd |-> m, try |-> t, rows |-> r] /\ t \in {1, 2} /\ IsSeq(r)
  BY <1>1, <1>2 DEF CallOK, CallAt
<1>4. [x EXCEPT !.pc = pc] = CallAt(pc, m, t, r)
  BY <1>3 DEF CallAt
<1>5. call' = [call EXCEPT ![c] = CallAt(pc, m, t, r)]
  BY <1>2, <1>4
<1> QED
  BY <1>2, <1>3, <1>5, MovedTo

\* The same for a step that only adds rows.
LEMMA MovedRows ==
  ASSUME CallShape, NEW c \in Caller, call[c].pc # "idle", NEW rows, IsSeq(rows),
         call' = [call EXCEPT ![c].rows = rows]
  PROVE  Moved(c, call[c].pc, call[c].try, rows)
<1>1. CallOK(call[c])
  BY DEF CallShape
<1>2. PICK x, p, m, t : x = call[c] /\ p = x.pc /\ m = x.cmd /\ t = x.try
  OBVIOUS
<1>3. x = [pc |-> p, cmd |-> m, try |-> t, rows |-> x.rows] /\ t \in {1, 2} /\ p \in Pcs \ {"idle"}
  BY <1>1, <1>2 DEF CallOK, CallAt
<1>4. [x EXCEPT !.rows = rows] = CallAt(p, m, t, rows)
  BY <1>3 DEF CallAt
<1>5. call' = [call EXCEPT ![c] = CallAt(p, m, t, rows)]
  BY <1>2, <1>4
<1> QED
  BY <1>2, <1>3, <1>5, MovedTo

\* Dialer.Call after an error: to the second dial, or out with the mutex released.
LEMMA AgainMoves ==
  ASSUME CallShape, NEW c \in Caller, call[c].pc # "idle", Again(c)
  PROVE  MovedAgain(c)
<1>1. call[c].try \in {1, 2} /\ IsSeq(<<>>) /\ {"dial", "err"} \subseteq Pcs \ {"idle"}
  BY SeqSmall DEF CallShape, CallOK, Pcs
<1>2. CASE call[c].try = 1
  <2>1. call' = [call EXCEPT ![c] = CallAt("dial", call[c].cmd, 2, <<>>)] /\ mu' = mu
    BY <1>2 DEF Again
  <2>2. Moved(c, "dial", 2, <<>>)
    BY <1>1, <2>1, MovedTo
  <2> QED
    BY <1>2, <2>1, <2>2 DEF MovedAgain
<1>3. CASE call[c].try = 2
  <2>1. call[c].try # 1
    BY <1>3
  <2>2. call' = [call EXCEPT ![c] = CallAt("err", call[c].cmd, 2, <<>>)] /\ mu' = {}
    BY <1>3, <2>1 DEF Again
  <2>3. Moved(c, "err", 2, <<>>)
    BY <1>1, <2>2, MovedTo
  <2> QED
    BY <1>3, <2>2, <2>3 DEF MovedAgain
<1> QED
  BY <1>1, <1>2, <1>3

\* A failed attempt leaves the connection closed and what was on it behind;
\* the wire's command may yet be executed late, but of an earlier attempt.
LEMMA DropAgainKeepsConn ==
  ASSUME ConnShape, NEW c \in Caller, call[c].pc \in {"send", "recv"}, Drop, Again(c)
  PROVE  ConnShape'
<1>0. CallShape /\ call[c].pc # "idle" /\ Holds(c) /\ conn # "none" /\ mu = {c}
  BY DEF ConnShape, OneHolder, Holds
<1>1. MovedAgain(c)
  BY <1>0, AgainMoves
<1>2. conn' = "none" /\ sockets' = sockets - 1 /\ wire' = {} /\ replies' = <<>>
      /\ late' = late \union {w \in wire : Changing(w)}
  BY <1>0 DEF Drop
<1>3. PICK pc \in {"dial", "err"}, try \in {2} : Moved(c, pc, try, <<>>) /\ mu' = IF pc = "dial" THEN mu ELSE {}
  BY <1>1 DEF MovedAgain
<1>4. wire \subseteq {Attempt(c)} /\ (wire # {} => call[c].pc = "recv")
  BY <1>0 DEF ConnShape, Wired, OneHolder, Holds
<1>5. OneHolder'
  BY <1>0, <1>2, <1>3 DEF OneHolder, Holds, Moved, ConnShape
<1>6. Wired'
  BY <1>2, <1>3 DEF Wired, Moved, ConnShape
<1>7. Fresh'
  <2> SUFFICES ASSUME NEW w \in late'
               PROVE  /\ w = [by |-> w.by, cmd |-> w.cmd, try |-> w.try]
                      /\ w.by \in Caller /\ w.cmd \in Cmd /\ w.try \in {1, 2} /\ Changing(w)
                      /\ InCall(w.by)' /\ w.cmd = call'[w.by].cmd => w.try < call'[w.by].try
    BY DEF Fresh, Changing
  <2>1. CASE w \in late
    <3>1. /\ w = [by |-> w.by, cmd |-> w.cmd, try |-> w.try]
          /\ w.by \in Caller /\ w.cmd \in Cmd /\ w.try \in {1, 2} /\ Changing(w)
          /\ InCall(w.by) /\ w.cmd = call[w.by].cmd => w.try < call[w.by].try
      BY <2>1 DEF ConnShape, Fresh
    <3>2. CASE w.by = c
      <4>1. call[c].try \in {1, 2} /\ InCall(c) /\ call'[c].cmd = call[c].cmd /\ call'[c].try = 2
        BY <1>0, <1>3, <3>2 DEF Moved, CallShape, CallOK, InCall
      <4> QED
        BY <3>1, <3>2, <4>1
    <3>3. CASE w.by # c
      BY <1>3, <3>1, <3>3 DEF Moved, InCall
    <3> QED
      BY <3>2, <3>3
  <2>2. CASE w \in wire /\ Changing(w)
    <3>1. w = Attempt(c) /\ w.by = c /\ w.cmd = call[c].cmd /\ w.try = call[c].try
      BY <1>4, <2>2 DEF Attempt
    <3>2. call[c].cmd \in Cmd /\ call[c].try \in {1, 2}
      BY <1>0 DEF CallShape, CallOK
    <3>3. InCall(c)' => call[c].try = 1 /\ call'[c].try = 2
      BY <1>1 DEF MovedAgain, Moved, InCall
    <3> QED
      BY <2>2, <3>1, <3>2, <3>3 DEF Attempt
  <2> QED
    BY <1>2, <2>1, <2>2
<1>8. OneConnection'
  <2>1. sockets = 1
    BY <1>0 DEF ConnShape, OneConnection
  <2>2. \A d \in Caller : call'[d].pc # "login"
    BY <1>0, <1>3 DEF Moved, ConnShape, OneHolder
  <2> QED
    BY <1>2, <2>1, <2>2 DEF OneConnection
<1> QED
  BY <1>3, <1>5, <1>6, <1>7, <1>8 DEF ConnShape, Moved

\* Of any step of a call: who holds the mutex, what is on the connection and
\* how many are open.
LEMMA FreshMoved ==
  ASSUME ConnShape, NEW c \in Caller, NEW pc, NEW try, NEW rows, Moved(c, pc, try, rows),
         try \in {1, 2}, call[c].try <= try, late' = late, call[c].pc \notin {"idle", "ok", "err"}
  PROVE  Fresh'
<1> SUFFICES ASSUME NEW w \in late
             PROVE  /\ w = [by |-> w.by, cmd |-> w.cmd, try |-> w.try]
                    /\ w.by \in Caller /\ w.cmd \in Cmd /\ w.try \in {1, 2} /\ Changing(w)
                    /\ InCall(w.by)' /\ w.cmd = call'[w.by].cmd => w.try < call'[w.by].try
  BY DEF Fresh, Changing
<1>1. /\ w = [by |-> w.by, cmd |-> w.cmd, try |-> w.try]
      /\ w.by \in Caller /\ w.cmd \in Cmd /\ w.try \in {1, 2} /\ Changing(w)
      /\ InCall(w.by) /\ w.cmd = call[w.by].cmd => w.try < call[w.by].try
  BY DEF ConnShape, Fresh
<1>2. CASE w.by = c
  <2>1. InCall(c) /\ call[c].try \in {1, 2} /\ call'[c].cmd = call[c].cmd /\ call'[c].try = try
    BY DEF ConnShape, CallShape, CallOK, InCall, Moved, Pcs
  <2> QED
    BY <1>1, <1>2, <2>1
<1>3. CASE w.by # c
  BY <1>1, <1>3 DEF Moved, InCall
<1> QED
  BY <1>2, <1>3

\* Call takes the mutex: nobody else is on the connection.
LEMMA LockKeepsConn ==
  ASSUME ConnShape, NEW c \in Caller, Lock(c)
  PROVE  ConnShape'
<1> DEFINE pc == IF conn = "none" THEN "dial" ELSE "send"
<1>0. CallShape /\ call[c].try \in {1, 2} /\ pc \in Pcs \ {"idle"}
  BY DEF ConnShape, CallShape, CallOK, Lock, Pcs
<1>1. call[c].pc = "lock" /\ mu = {} /\ mu' = {c} /\ call' = [call EXCEPT ![c].pc = pc]
      /\ UNCHANGED <<table, conn, wire, replies, late, did, sockets>>
  BY DEF Lock
<1>2. Moved(c, pc, call[c].try, call[c].rows)
  BY <1>0, <1>1, MovedPc
<1>3. OneHolder'
  BY <1>1, <1>2 DEF OneHolder, Holds, Moved, ConnShape
<1>4. \A d \in Caller : ~Holds(d)
  BY <1>1 DEF ConnShape, OneHolder
<1>5. Wired'
  BY <1>1, <1>2, <1>4 DEF Wired, Moved, ConnShape, Holds
<1>6. Fresh'
  BY <1>0, <1>1, <1>2, FreshMoved
<1>7. OneConnection'
  BY <1>1, <1>2, <1>4 DEF OneConnection, Moved, ConnShape, Holds
<1> QED
  BY <1>2, <1>3, <1>5, <1>6, <1>7 DEF ConnShape, Moved

\* ensure and Dial: a connection is opened only if there is none, and one whose login
\* fails is closed again.
LEMMA DialKeepsConn ==
  ASSUME ConnShape, NEW c \in Caller, NEW ok \in BOOLEAN, Connect(c, ok) \/ Login(c, ok)
  PROVE  ConnShape'
<1>0. CallShape /\ call[c].try \in {1, 2} /\ {"login", "send"} \subseteq Pcs \ {"idle"}
      /\ call[c].pc \in {"dial", "login"} /\ conn = "none" /\ mu = {c} /\ call[c].rows = <<>>
  BY DEF ConnShape, CallShape, CallOK, Connect, Login, Pcs, OneHolder, Holds, Wired
<1>1. UNCHANGED <<table, wire, replies, late, did>>
  BY DEF Connect, Login
<1>2. wire = {} /\ replies = <<>>
  BY <1>0 DEF ConnShape, Wired, OneHolder, Holds
<1>3. \A d \in Caller : d # c => ~Holds(d)
  BY <1>0 DEF ConnShape, OneHolder
<1>4. sockets = IF call[c].pc = "login" THEN 1 ELSE 0
  BY <1>0, <1>3 DEF ConnShape, OneConnection, Holds
<1>5. \/ /\ call[c].pc = "dial" /\ Moved(c, "login", call[c].try, <<>>)
         /\ sockets' = 1 /\ conn' = conn /\ mu' = mu
      \/ /\ call[c].pc = "login" /\ Moved(c, "send", call[c].try, <<>>)
         /\ sockets' = 1 /\ conn' = "up" /\ mu' = mu
      \/ MovedAgain(c) /\ sockets' = 0 /\ conn' = conn
  <2>1. CASE Connect(c, ok)
    <3>1. CASE ok
      BY <1>0, <1>4, <2>1, <3>1, MovedPc DEF Connect
    <3>2. CASE ~ok
      BY <1>0, <1>4, <2>1, <3>2, AgainMoves DEF Connect
    <3> QED
      BY <3>1, <3>2
  <2>2. CASE Login(c, ok)
    <3>1. CASE ok
      BY <1>0, <1>4, <2>2, <3>1, MovedPc DEF Login
    <3>2. CASE ~ok
      BY <1>0, <1>4, <2>2, <3>2, AgainMoves DEF Login
    <3> QED
      BY <3>1, <3>2
  <2> QED
    BY <2>1, <2>2
<1>6. CASE \/ /\ call[c].pc = "dial" /\ Moved(c, "login", call[c].try, <<>>)
              /\ sockets' = 1 /\ conn' = conn /\ mu' = mu
           \/ /\ call[c].pc = "login" /\ Moved(c, "send", call[c].try, <<>>)
              /\ sockets' = 1 /\ conn' = "up" /\ mu' = mu
  <2>1. OneHolder'
    BY <1>0, <1>3, <1>6 DEF OneHolder, Holds, Moved, ConnShape
  <2>2. Wired'
    BY <1>1, <1>2, <1>6 DEF Wired, Moved, ConnShape
  <2>3. Fresh'
    BY <1>0, <1>1, <1>6, FreshMoved
  <2>4. OneConnection'
    BY <1>0, <1>3, <1>6 DEF OneConnection, Moved, Holds
  <2> QED
    BY <1>6, <2>1, <2>2, <2>3, <2>4 DEF ConnShape, Moved
<1>7. CASE MovedAgain(c) /\ sockets' = 0 /\ conn' = conn
  <2>1. OneHolder'
    BY <1>0, <1>3, <1>7 DEF OneHolder, Holds, Moved, ConnShape, MovedAgain
  <2>2. Wired'
    BY <1>1, <1>2, <1>7 DEF Wired, Moved, ConnShape, MovedAgain
  <2>3. Fresh'
    BY <1>0, <1>1, <1>7, FreshMoved DEF MovedAgain
  <2>4. OneConnection'
    BY <1>0, <1>3, <1>7 DEF OneConnection, Moved, Holds, MovedAgain
  <2> QED
    BY <1>7, <2>1, <2>2, <2>3, <2>4 DEF ConnShape, Moved, MovedAgain
<1> QED
  BY <1>5, <1>6, <1>7

\* Conn.Send: the command is the only one on the connection.
LEMMA SendKeepsConn ==
  ASSUME ConnShape, NEW c \in Caller, Send(c)
  PROVE  ConnShape'
<1>0. CallShape /\ call[c].try \in {1, 2} /\ "recv" \in Pcs \ {"idle"}
  BY DEF ConnShape, CallShape, CallOK, Send, Pcs
<1>1. call[c].pc = "send" /\ wire' \subseteq {Attempt(c)} /\ call' = [call EXCEPT ![c].pc = "recv"]
      /\ UNCHANGED <<table, mu, conn, replies, late, did, sockets>>
  BY DEF Send, Attempt
<1>2. Moved(c, "recv", call[c].try, call[c].rows)
  BY <1>0, <1>1, MovedPc
<1>3. replies = <<>> /\ call[c].rows = <<>> /\ \A d \in Caller : d # c => ~Holds(d)
  BY <1>1 DEF ConnShape, Wired, OneHolder, Holds
<1>4. OneHolder'
  BY <1>1, <1>2 DEF OneHolder, Holds, Moved, ConnShape
<1>5. Wired'
  <2>1. Attempt(c)' = Attempt(c)
    BY <1>2 DEF Attempt, Moved
  <2> QED
    BY <1>1, <1>2, <1>3, <2>1 DEF Wired, Moved, ConnShape, Holds
<1>6. Fresh'
  BY <1>0, <1>1, <1>2, FreshMoved
<1>7. OneConnection'
  BY <1>1, <1>2 DEF OneConnection, Moved, ConnShape
<1> QED
  BY <1>2, <1>4, <1>5, <1>6, <1>7 DEF ConnShape, Moved

-----------------------------------------------------------------------------
(* Answers.                                                                 *)

\* What call c has read and what is on its way make up the answer r to its
\* command.
Reading(c, r) ==
  LET n == Len(call[c].rows) IN
    \/ /\ call[c].cmd.op = "print" /\ n <= Len(r) /\ Len(replies) = Len(r) - n + 1
       /\ \A k \in 1 .. n : call[c].rows[k] = r[k]
       /\ \A k \in 1 .. Len(r) - n : replies[k] = Sentence("re", <<r[n + k]>>)
       /\ replies[Len(replies)] = Sentence("done", <<>>)
    \/ call[c].cmd.op # "print" /\ call[c].rows = <<>> /\ replies = <<Sentence("done", r)>>
Refusing == replies = <<Sentence("trap", <<>>), Sentence("done", <<>>)>>

\* Sentences on their way are a refusal, or the rest of an answer the router
\* has given to this very command during this call.
OnWay ==
  /\ IsSeq(replies)
  /\ replies # <<>> =>
       \A c \in Caller : call[c].pc = "recv" =>
         Refusing \/ \E d \in did[c] : d.cmd = call[c].cmd /\ Reading(c, d.row)

\* So is what a call returns.
Returned ==
  \A c \in Caller : call[c].pc = "ok" => \E d \in did[c] : d.cmd = call[c].cmd /\ d.row = call[c].rows

\* Of what was accepted: rows of a print have identifiers, and what was removed
\* is gone.
NotedOK(d) ==
  /\ d = [cmd |-> d.cmd, row |-> d.row] /\ d.cmd \in Cmd /\ IsSeq(d.row)
  /\ d.cmd = PrintOf("addr") => RowsOK(d.row, MaxId + 1)
  /\ d.cmd.op = "remove" => ~Has(table.peer, d.cmd.id) /\ d.cmd.id < table.next
DidShape == did = [c \in Caller |-> did[c]] /\ \A c \in Caller : \A d \in did[c] : NotedOK(d)

DialerInv == ConnShape /\ OnWay /\ Returned /\ DidShape /\ WellFormed(table)

\* One sentence is read: a row more, the end of the answer, or a refusal.
LEMMA RecvReads ==
  ASSUME DialerInv, NEW c \in Caller, Recv(c)
  PROVE  \/ Drop /\ Again(c)
         \/ /\ UNCHANGED <<mu, conn, wire, late, sockets>> /\ IsSeq(replies')
            /\ \E rows : Moved(c, "recv", call[c].try, rows)
            /\ \E d \in did[c] : d.cmd = call[c].cmd /\ Reading(c, d.row)'
         \/ /\ mu' = {} /\ UNCHANGED <<conn, wire, late, sockets>> /\ replies' = <<>>
            /\ \E d \in did[c] : d.cmd = call[c].cmd /\ Moved(c, "ok", call[c].try, d.row)
<1> DEFINE s == Head(replies)
           rows == call[c].rows
           got == rows \o s.words
<1>1. /\ call[c].pc = "recv" /\ replies # <<>>
      /\ CASE s.reply = "re" ->
               /\ call' = [call EXCEPT ![c].rows = got] /\ replies' = Tail(replies)
               /\ UNCHANGED <<mu, conn, wire, late, sockets>>
          [] s.reply = "done" ->
               /\ call' = [call EXCEPT ![c] = CallAt("ok", call[c].cmd, call[c].try, got)] /\ replies' = Tail(replies)
               /\ mu' = {}
               /\ UNCHANGED <<conn, wire, late, sockets>>
          [] s.reply = "trap" -> Drop /\ Again(c)
  BY DEF Recv
<1>2. /\ CallShape /\ call[c].pc # "idle" /\ call[c].try \in {1, 2} /\ IsSeq(rows) /\ IsSeq(replies)
      /\ "ok" \in Pcs \ {"idle"}
  BY <1>1 DEF DialerInv, ConnShape, CallShape, CallOK, OnWay, Pcs
<1>3. s = replies[1] /\ IsSeq(Tail(replies)) /\ Len(Tail(replies)) = Len(replies) - 1
      /\ \A k \in 1 .. Len(replies) - 1 : Tail(replies)[k] = replies[k + 1]
  BY <1>1, <1>2, SeqTail
<1> HIDE DEF s, got, rows
<1>4. CASE Refusing
  <2>1. s = Sentence("trap", <<>>)
    BY <1>4, <1>3, SeqSmall DEF Refusing
  <2>2. s.reply = "trap"
    BY <2>1 DEF Sentence
  <2> QED
    BY <1>1, <2>2
<1>5. CASE ~Refusing
  <2>1. PICK d \in did[c] : d.cmd = call[c].cmd /\ Reading(c, d.row)
    BY <1>1, <1>5 DEF DialerInv, OnWay
  <2> DEFINE r == d.row
             n == Len(rows)
  <2>2. IsSeq(r) /\ Len(r) \in Nat /\ n \in Nat
    BY <1>2, SeqShape DEF DialerInv, DidShape, NotedOK
  <2> HIDE DEF r, n
  <2>3. CASE /\ call[c].cmd.op = "print" /\ n <= Len(r) /\ Len(replies) = Len(r) - n + 1
             /\ \A k \in 1 .. n : rows[k] = r[k]
             /\ \A k \in 1 .. Len(r) - n : replies[k] = Sentence("re", <<r[n + k]>>)
             /\ replies[Len(replies)] = Sentence("done", <<>>)
    <3>1. CASE n = Len(r)
      <4>1. s = Sentence("done", <<>>) /\ Len(replies) = 1
        BY <1>3, <2>2, <2>3, <3>1
      <4>2. s.reply = "done" /\ s.words = <<>>
        BY <4>1 DEF Sentence
      <4>3. got = r
        <5>1. /\ IsSeq(got) /\ Len(got) = Len(rows) + Len(<<>>)
              /\ \A k \in 1 .. Len(rows) : got[k] = rows[k]
          BY <1>2, <4>2, SeqConcat, SeqSmall DEF got
        <5>2. Len(got) = n
          BY <5>1, <2>2, EmptySeq DEF n
        <5> QED
          BY <2>2, <2>3, <3>1, <5>1, <5>2, SeqSame DEF n
      <4>4. Tail(replies) = <<>>
        <5>1. PICK y : y = Tail(replies)
          OBVIOUS
        <5>2. IsSeq(y) /\ Len(y) = 0
          BY <1>3, <4>1, <5>1
        <5> QED
          BY <5>1, <5>2, SeqShape
      <4>5. /\ call' = [call EXCEPT ![c] = CallAt("ok", call[c].cmd, call[c].try, r)]
            /\ mu' = {} /\ UNCHANGED <<conn, wire, late, sockets>> /\ replies' = <<>>
        BY <1>1, <4>2, <4>3, <4>4
      <4>6. Moved(c, "ok", call[c].try, r)
        BY <1>2, <2>2, <4>5, MovedTo
      <4> QED
        BY <2>1, <4>5, <4>6 DEF r
    <3>2. CASE n < Len(r)
      <4>0. 1 \in 1 .. Len(r) - n
        BY <2>2, <3>2
      <4>1. s = Sentence("re", <<r[n + 1]>>)
        BY <1>3, <2>3, <4>0
      <4>2. s.reply = "re" /\ s.words = <<r[n + 1]>>
        BY <4>1 DEF Sentence
      <4>3. /\ IsSeq(got) /\ Len(got) = n + 1
            /\ \A k \in 1 .. n : got[k] = rows[k]
            /\ got[n + 1] = r[n + 1]
        <5>1. PICK x : x = <<r[n + 1]>>
          OBVIOUS
        <5>2. IsSeq(x) /\ Len(x) = 1 /\ x[1] = r[n + 1]
          BY <5>1, SeqSmall
        <5>a. IsSeq(x) /\ IsSeq(rows)
          BY <1>2, <5>2
        <5>3. /\ IsSeq(rows \o x) /\ Len(rows \o x) = Len(rows) + Len(x)
              /\ \A k \in 1 .. Len(rows) : (rows \o x)[k] = rows[k]
              /\ \A k \in 1 .. Len(x) : (rows \o x)[Len(rows) + k] = x[k]
          BY <5>a, SeqConcat
        <5>4. got = rows \o x
          BY <4>2, <5>1 DEF got
        <5> QED
          BY <5>2, <5>3, <5>4 DEF n
      <4>4. /\ call' = [call EXCEPT ![c].rows = got] /\ replies' = Tail(replies)
            /\ UNCHANGED <<mu, conn, wire, late, sockets>>
        BY <1>1, <4>2
      <4>5. Moved(c, "recv", call[c].try, got)
        BY <1>1, <1>2, <4>3, <4>4, MovedRows
      <4>6. Reading(c, r)'
        <5>1. call'[c].rows = got /\ call'[c].cmd = call[c].cmd
          BY <4>5 DEF Moved
        <5>2. Len(replies') = Len(r) - Len(got) + 1 /\ Len(got) <= Len(r)
          BY <1>3, <2>2, <2>3, <3>2, <4>3, <4>4
        <5>3. \A k \in 1 .. Len(got) : got[k] = r[k]
          <6> TAKE k \in 1 .. Len(got)
          <6>1. k \in 1 .. n \/ k = n + 1
            BY <2>2, <4>3
          <6> QED
            BY <2>3, <4>3, <6>1
        <5>4. \A k \in 1 .. Len(r) - Len(got) : replies'[k] = Sentence("re", <<r[Len(got) + k]>>)
          <6> TAKE k \in 1 .. Len(r) - Len(got)
          <6>1. k + 1 \in 1 .. Len(r) - n /\ k \in 1 .. Len(replies) - 1 /\ n + (k + 1) = Len(got) + k
            BY <2>2, <2>3, <4>3
          <6>2. replies'[k] = replies[k + 1]
            BY <1>3, <4>4, <6>1
          <6>3. replies[k + 1] = Sentence("re", <<r[n + (k + 1)]>>)
            BY <2>3, <6>1
          <6> QED
            BY <6>1, <6>2, <6>3
        <5>5. replies'[Len(replies')] = Sentence("done", <<>>)
          <6>1. Len(replies') = Len(replies) - 1 /\ Len(replies') \in 1 .. Len(replies) - 1
                /\ Len(replies') + 1 = Len(replies)
            BY <1>3, <2>2, <2>3, <3>2, <4>4
          <6>2. replies'[Len(replies')] = replies[Len(replies') + 1]
            BY <1>3, <4>4, <6>1
          <6> QED
            BY <2>3, <6>1, <6>2
        <5> QED
          BY <2>3, <5>1, <5>2, <5>3, <5>4, <5>5 DEF Reading
      <4> QED
        BY <1>3, <2>1, <4>4, <4>5, <4>6 DEF r
    <3> QED
      BY <2>2, <2>3, <3>1, <3>2
  <2>4. CASE call[c].cmd.op # "print" /\ rows = <<>> /\ replies = <<Sentence("done", r)>>
    <3>1. s = Sentence("done", r) /\ Len(replies) = 1
      BY <1>3, <2>4, SeqSmall
    <3>2. s.reply = "done" /\ s.words = r
      BY <3>1 DEF Sentence
    <3>3. got = r
      <4>1. got = <<>> \o r
        BY <2>4, <3>2 DEF got
      <4>2. PICK S : r \in Seq(S)
        BY <2>2 DEF IsSeq
      <4> QED
        BY <4>1, <4>2, ConcatEmptySeq
    <3>4. Tail(replies) = <<>>
      <4>1. PICK y : y = Tail(replies)
        OBVIOUS
      <4>2. IsSeq(y) /\ Len(y) = 0
        BY <1>3, <3>1, <4>1
      <4> QED
        BY <4>1, <4>2, SeqShape
    <3>5. /\ call' = [call EXCEPT ![c] = CallAt("ok", call[c].cmd, call[c].try, r)]
          /\ mu' = {} /\ UNCHANGED <<conn, wire, late, sockets>> /\ replies' = <<>>
      BY <1>1, <3>2, <3>3, <3>4
    <3>6. Moved(c, "ok", call[c].try, r)
      BY <1>2, <2>2, <3>5, MovedTo
    <3> QED
      BY <2>1, <3>5, <3>6 DEF r
  <2> QED
    BY <2>1, <2>3, <2>4 DEF Reading, r, n, rows
<1> QED
  BY <1>4, <1>5

\* A step without effect on the router keeps what was noted about it.
LEMMA SameNoted ==
  ASSUME DidShape, WellFormed(table), UNCHANGED <<table, did>>
  PROVE  DidShape' /\ WellFormed(table)'
BY DEF DidShape, NotedOK, WellFormed

\* A step of a call that is not a successful Recv leaves no answer half read.
LEMMA QuietKeepsAnswers ==
  ASSUME DialerInv, NEW c \in Caller, NEW pc \in Pcs \ {"ok"}, NEW try, NEW rows, Moved(c, pc, try, rows),
         replies = <<>> \/ pc # "recv",
         replies' \in {replies, <<>>}, UNCHANGED <<table, did>>
  PROVE  OnWay' /\ Returned' /\ DidShape' /\ WellFormed(table)'
<1>1. DidShape' /\ WellFormed(table)'
  BY SameNoted DEF DialerInv
<1>2. Returned'
  BY DEF DialerInv, Returned, Moved
<1>3. IsSeq(replies')
  BY SeqSmall DEF DialerInv, OnWay
<1>4. ASSUME replies' # <<>>, NEW d \in Caller, call'[d].pc = "recv"
      PROVE  Refusing' \/ \E e \in did'[d] : e.cmd = call'[d].cmd /\ Reading(d, e.row)'
  <2>1. replies' = replies /\ replies # <<>> /\ d # c
    BY <1>4 DEF Moved
  <2>2. call'[d] = call[d]
    BY <2>1 DEF Moved
  <2>3. Refusing \/ \E e \in did[d] : e.cmd = call[d].cmd /\ Reading(d, e.row)
    BY <1>4, <2>1, <2>2 DEF DialerInv, OnWay
  <2> QED
    BY <2>1, <2>2, <2>3 DEF Reading, Refusing
<1> QED
  BY <1>1, <1>2, <1>3, <1>4 DEF OnWay

\* Recv: a sentence is taken, and after !done nothing is left on the connection.
LEMMA RecvKeepsConn ==
  ASSUME DialerInv, NEW c \in Caller, call[c].pc = "recv", replies # <<>>,
         UNCHANGED <<conn, wire, late, sockets>>,
         \/ mu' = mu /\ \E rows : Moved(c, "recv", call[c].try, rows)
         \/ mu' = {} /\ replies' = <<>> /\ \E rows : Moved(c, "ok", call[c].try, rows)
  PROVE  ConnShape'
<1>0. ConnShape /\ call[c].try \in {1, 2} /\ wire = {} /\ mu = {c} /\ conn # "none"
      /\ \A d \in Caller : d # c => ~Holds(d)
  BY DEF DialerInv, ConnShape, CallShape, CallOK, Wired, OneHolder, Holds
<1>1. PICK pc, rows :
        /\ pc \in {"recv", "ok"} /\ Moved(c, pc, call[c].try, rows)
        /\ mu' = IF pc = "recv" THEN mu ELSE {}
        /\ pc = "ok" => replies' = <<>>
  OBVIOUS
<1>2. OneHolder'
  BY <1>0, <1>1 DEF ConnShape, OneHolder, Holds, Moved
<1>3. Wired'
  BY <1>0, <1>1 DEF ConnShape, Wired, Moved
<1>4. Fresh'
  BY <1>0, <1>1, FreshMoved
<1>5. OneConnection'
  BY <1>0, <1>1 DEF ConnShape, OneConnection, Moved
<1> QED
  BY <1>1, <1>2, <1>3, <1>4, <1>5 DEF ConnShape, Moved

\* Of every step of a call.
LEMMA CallStepKeepsInv ==
  ASSUME DialerInv, NEW c \in Caller, CallStep(c)
  PROVE  DialerInv'
<1>0. ConnShape /\ CallShape /\ Wired /\ OneHolder
  BY DEF DialerInv, ConnShape
<1>1. CASE Drop /\ Again(c) /\ call[c].pc \in {"send", "recv"} /\ UNCHANGED <<table, did>>
  <2>1. ConnShape'
    BY <1>0, <1>1, DropAgainKeepsConn
  <2>2. MovedAgain(c) /\ replies' = <<>>
    BY <1>0, <1>1, AgainMoves DEF Drop
  <2>3. PICK pc, try : pc \in Pcs \ {"ok", "recv"} /\ Moved(c, pc, try, <<>>)
    BY <2>2 DEF MovedAgain, Pcs
  <2>4. OnWay' /\ Returned' /\ DidShape' /\ WellFormed(table)'
    BY <1>1, <2>2, <2>3, QuietKeepsAnswers
  <2> QED
    BY <2>1, <2>4 DEF DialerInv
<1>2. CASE Lock(c)
  <2>1. ConnShape'
    BY <1>0, <1>2, LockKeepsConn
  <2> DEFINE pc == IF conn = "none" THEN "dial" ELSE "send"
  <2>2. call[c].pc = "lock" /\ call' = [call EXCEPT ![c].pc = pc]
        /\ UNCHANGED <<table, replies, did>> /\ pc \in Pcs \ {"idle", "ok", "recv"}
    BY <1>2 DEF Lock, Pcs
  <2>3. Moved(c, pc, call[c].try, call[c].rows)
    BY <1>0, <2>2, MovedPc
  <2>4. OnWay' /\ Returned' /\ DidShape' /\ WellFormed(table)'
    BY <2>2, <2>3, QuietKeepsAnswers
  <2> QED
    BY <2>1, <2>4 DEF DialerInv
<1>3. ASSUME NEW ok \in BOOLEAN, Connect(c, ok) \/ Login(c, ok)
      PROVE  DialerInv'
  <2>1. ConnShape'
    BY <1>0, <1>3, DialKeepsConn
  <2>2. call[c].pc \in {"dial", "login"} /\ UNCHANGED <<table, replies, did>>
    BY <1>3 DEF Connect, Login
  <2>3. \/ call' = [call EXCEPT ![c].pc = "login"]
        \/ call' = [call EXCEPT ![c].pc = "send"]
        \/ Again(c)
    BY <1>3 DEF Connect, Login
  <2>4. \/ Moved(c, "login", call[c].try, call[c].rows) \/ Moved(c, "send", call[c].try, call[c].rows)
        \/ MovedAgain(c)
    BY <1>0, <2>2, <2>3, MovedPc, AgainMoves DEF Pcs
  <2>5. PICK pc, try, rows : pc \in Pcs \ {"ok", "recv"} /\ Moved(c, pc, try, rows)
    BY <2>4 DEF MovedAgain, Pcs
  <2>6. OnWay' /\ Returned' /\ DidShape' /\ WellFormed(table)'
    BY <2>2, <2>5, QuietKeepsAnswers
  <2> QED
    BY <2>1, <2>6 DEF DialerInv
<1>4. CASE Send(c)
  <2>1. ConnShape'
    BY <1>0, <1>4, SendKeepsConn
  <2>2. call[c].pc = "send" /\ call' = [call EXCEPT ![c].pc = "recv"]
        /\ UNCHANGED <<table, replies, did>> /\ "recv" \in Pcs \ {"idle", "ok"}
    BY <1>4 DEF Send, Pcs
  <2>3. Moved(c, "recv", call[c].try, call[c].rows) /\ replies = <<>>
    BY <1>0, <2>2, MovedPc DEF Wired, OneHolder, Holds
  <2>4. OnWay' /\ Returned' /\ DidShape' /\ WellFormed(table)'
    BY <2>2, <2>3, QuietKeepsAnswers
  <2> QED
    BY <2>1, <2>4 DEF DialerInv
<1>5. CASE Recv(c)
  <2>1. call[c].pc = "recv" /\ replies # <<>> /\ UNCHANGED <<table, did>>
    BY <1>5 DEF Recv
  <2>2. DidShape' /\ WellFormed(table)'
    BY <2>1, SameNoted DEF DialerInv
  <2>3. CASE Drop /\ Again(c)
    BY <1>1, <2>1, <2>3
  <2>4. CASE /\ UNCHANGED <<mu, conn, wire, late, sockets>> /\ IsSeq(replies')
             /\ \E rows : Moved(c, "recv", call[c].try, rows)
             /\ \E d \in did[c] : d.cmd = call[c].cmd /\ Reading(c, d.row)'
    <3>1. ConnShape'
      BY <2>1, <2>4, RecvKeepsConn
    <3>2. \A d \in Caller : call[d].pc = "recv" => d = c
      BY <1>0, <2>1 DEF OneHolder, Holds
    <3>3. OnWay'
      BY <2>1, <2>4, <3>2 DEF OnWay, Moved
    <3>4. Returned'
      BY <2>1, <2>4 DEF DialerInv, Returned, Moved
    <3> QED
      BY <2>2, <3>1, <3>3, <3>4 DEF DialerInv
  <2>5. CASE /\ mu' = {} /\ UNCHANGED <<conn, wire, late, sockets>> /\ replies' = <<>>
             /\ \E d \in did[c] : d.cmd = call[c].cmd /\ Moved(c, "ok", call[c].try, d.row)
    <3>1. ConnShape'
      BY <2>1, <2>5, RecvKeepsConn
    <3>2. OnWay'
      BY <2>5, SeqSmall DEF OnWay
    <3>3. Returned'
      BY <2>1, <2>5 DEF DialerInv, Returned, Moved
    <3> QED
      BY <2>2, <3>1, <3>2, <3>3 DEF DialerInv
  <2> QED
    BY <1>5, <2>3, <2>4, <2>5, RecvReads
<1>6. CASE Break(c)
  BY <1>1, <1>6 DEF Break
<1> QED
  BY <1>2, <1>3, <1>4, <1>5, <1>6 DEF CallStep

-----------------------------------------------------------------------------
(* The router, and what a handler does with an answer.                      *)

\* The router's answer: one !re per row and !done, or !trap and !done.
LEMMA AnswerShape ==
  ASSUME NEW m, NEW o, IsSeq(o.row)
  PROVE  /\ IsSeq(Answer(m, o))
         /\ ~o.ok => Answer(m, o) = <<Sentence("trap", <<>>), Sentence("done", <<>>)>>
         /\ o.ok /\ m.op # "print" => Answer(m, o) = <<Sentence("done", o.row)>>
         /\ o.ok /\ m.op = "print" =>
              /\ Len(Answer(m, o)) = Len(o.row) + 1
              /\ \A k \in 1 .. Len(o.row) : Answer(m, o)[k] = Sentence("re", <<o.row[k]>>)
              /\ Answer(m, o)[Len(o.row) + 1] = Sentence("done", <<>>)
<1>1. CASE ~o.ok
  BY <1>1, SeqSmall DEF Answer
<1>2. CASE o.ok /\ m.op # "print"
  BY <1>2, SeqSmall DEF Answer
<1>3. CASE o.ok /\ m.op = "print"
  <2> DEFINE x == [k \in DOMAIN o.row |-> Sentence("re", <<o.row[k]>>)]
             y == <<Sentence("done", <<>>)>>
  <2>1. Len(o.row) \in Nat /\ DOMAIN o.row = 1 .. Len(o.row)
    BY SeqShape
  <2>2. IsSeq(x) /\ Len(x) = Len(o.row) /\ \A k \in 1 .. Len(o.row) : x[k] = Sentence("re", <<o.row[k]>>)
    <3>1. PICK S : S = {Sentence("re", <<o.row[k]>>) : k \in 1 .. Len(o.row)}
      OBVIOUS
    <3>2. x \in [1 .. Len(o.row) -> S]
      BY <2>1, <3>1
    <3>3. x \in Seq(S) /\ Len(x) = Len(o.row)
      BY <2>1, <3>2
    <3>4. IsSeq(x)
      BY <3>3 DEF IsSeq
    <3> QED
      BY <2>1, <3>3, <3>4
  <2>3. IsSeq(y) /\ Len(y) = 1 /\ y[1] = Sentence("done", <<>>)
    BY SeqSmall
  <2>4. Answer(m, o) = x \o y
    BY <1>3 DEF Answer
  <2> HIDE DEF x, y
  <2>5. /\ IsSeq(x \o y) /\ Len(x \o y) = Len(x) + Len(y)
        /\ \A k \in 1 .. Len(x) : (x \o y)[k] = x[k]
        /\ \A k \in 1 .. Len(y) : (x \o y)[Len(x) + k] = y[k]
    <3>1. IsSeq(x) /\ IsSeq(y)
      BY <2>2, <2>3
    <3> QED
      BY <3>1, SeqConcat
  <2>6. (x \o y)[Len(o.row) + 1] = Sentence("done", <<>>)
    BY <2>2, <2>3, <2>5
  <2> QED
    BY <1>3, <2>2, <2>3, <2>4, <2>5, <2>6
<1> QED
  BY <1>1, <1>2, <1>3

\* An execution on behalf of w: what was accepted is noted while w's caller is
\* in a call, and stays as it was otherwise.
LEMMA ExecutionNoted ==
  ASSUME DialerInv, NEW w, w.by \in Caller, w.cmd \in Cmd, NEW o \in Effect(w.cmd, table),
         table' = o.tbl, did' = Noted(w, o)
  PROVE  /\ DidShape' /\ WellFormed(table)' /\ o.ok \in BOOLEAN /\ IsSeq(o.row)
         /\ \A c \in Caller : did[c] \subseteq did'[c]
         /\ \A c \in Caller : \A d \in did'[c] : d \in did[c] \/ (c = w.by /\ d = [cmd |-> w.cmd, row |-> o.row])
         /\ o.ok /\ InCall(w.by) => [cmd |-> w.cmd, row |-> o.row] \in did'[w.by]
<1>1. Outcome(w.cmd, table, o)
  BY EffectOutcome DEF DialerInv
<1>2. WellFormed(table)' /\ o.ok \in BOOLEAN /\ IsSeq(o.row) /\ table.next <= table'.next
  BY <1>1 DEF Outcome, WellFormed
<1>3. table.next \in 1 .. MaxId + 1 /\ table'.next \in 1 .. MaxId + 1
  BY <1>2, WellFormedRows DEF DialerInv
<1>a. MaxId \in Nat
  BY IdsAssumption
<1> DEFINE e == [cmd |-> w.cmd, row |-> o.row]
<1>4. did = [c \in Caller |-> did[c]]
  BY DEF DialerInv, DidShape
<1>5. /\ did' = [c \in Caller |-> did'[c]]
      /\ \A c \in Caller : did[c] \subseteq did'[c]
      /\ \A c \in Caller : \A d \in did'[c] : d \in did[c] \/ (o.ok /\ c = w.by /\ d = e)
      /\ o.ok /\ InCall(w.by) => e \in did'[w.by]
  <2> HIDE DEF e
  <2>1. did' = IF o.ok /\ call[w.by].pc \notin {"idle", "ok", "err"}
               THEN [did EXCEPT ![w.by] = @ \union {e}] ELSE did
    BY DEF Noted, e
  <2>2. CASE o.ok /\ call[w.by].pc \notin {"idle", "ok", "err"}
    <3>1. did' = [did EXCEPT ![w.by] = @ \union {e}]
      BY <2>1, <2>2
    <3>2. did' = [c \in Caller |-> IF c = w.by THEN did[c] \union {e} ELSE did[c]]
      BY <1>4, <3>1
    <3>3. did' = [c \in Caller |-> did'[c]]
      BY <3>2
    <3>4. \A c \in Caller : did'[c] = IF c = w.by THEN did[c] \union {e} ELSE did[c]
      BY <3>2
    <3>5. \A c \in Caller : \A d \in did'[c] : d \in did[c] \/ (c = w.by /\ d = e)
      BY <3>4
    <3>6. e \in did'[w.by] /\ \A c \in Caller : did[c] \subseteq did'[c]
      BY <3>4
    <3> QED
      BY <2>2, <3>3, <3>5, <3>6
  <2>3. CASE ~(o.ok /\ call[w.by].pc \notin {"idle", "ok", "err"})
    <3>1. did' = did
      BY <2>1, <2>3
    <3> QED
      BY <1>4, <2>3, <3>1 DEF InCall
  <2> QED
    BY <2>2, <2>3
<1>6. ASSUME NEW c \in Caller, NEW d \in did[c]
      PROVE  NotedOK(d)'
  <2>1. NotedOK(d)
    BY DEF DialerInv, DidShape
  <2>2. CASE d.cmd.op = "remove"
    <3>1. d.cmd.id \in Ids /\ d.cmd.id < table.next /\ ~Has(table.peer, d.cmd.id)
      BY <2>1, <2>2, CmdCases DEF NotedOK
    <3>2. ~Has(table'.peer, d.cmd.id)
      BY <1>1, <3>1 DEF Outcome
    <3>3. d.cmd.id < table'.next
      BY <1>2, <1>3, <1>a, <3>1 DEF Ids
    <3> QED
      BY <2>1, <3>2, <3>3 DEF NotedOK
  <2>3. CASE d.cmd.op # "remove"
    BY <2>1, <2>3 DEF NotedOK
  <2> QED
    BY <2>2, <2>3
<1>7. ASSUME o.ok
      PROVE  NotedOK(e)'
  <2>1. e.cmd = w.cmd /\ e.row = o.row /\ e = [cmd |-> e.cmd, row |-> e.row]
    OBVIOUS
  <2> HIDE DEF e
  <2>2. w.cmd = PrintOf("addr") => RowsOK(o.row, table.next)
    BY <1>1, <1>7 DEF Outcome
  <2>3. w.cmd = PrintOf("addr") => RowsOK(o.row, MaxId + 1)
    <3>1. table.next \in Nat /\ MaxId + 1 \in Nat /\ table.next <= MaxId + 1
      BY <1>3, <1>a
    <3> QED
      BY <2>2, <3>1, RowsLater
  <2>4. w.cmd.op = "remove" => ~Has(table'.peer, w.cmd.id) /\ w.cmd.id < table'.next
    BY <1>1, <1>7 DEF Outcome
  <2> QED
    BY <1>2, <2>1, <2>3, <2>4 DEF NotedOK
<1> HIDE DEF e
<1>8. DidShape'
  BY <1>5, <1>6, <1>7 DEF DidShape
<1> QED
  BY <1>2, <1>5, <1>8 DEF e

\* Of every step of the router.
LEMMA RouterStepKeepsInv ==
  ASSUME DialerInv, RouterStep
  PROVE  DialerInv'
<1>0. ConnShape /\ CallShape /\ Wired /\ OneHolder
  BY DEF DialerInv, ConnShape
<1>1. ASSUME NEW w \in wire, NEW o \in Effect(w.cmd, table), Execute(w, o)
      PROVE  DialerInv'
  <2>1. PICK c \in Caller : call[c].pc = "recv" /\ wire = {Attempt(c)} /\ w = Attempt(c)
    BY <1>0 DEF Wired
  <2>2. w.by = c /\ w.cmd = call[c].cmd /\ w.cmd \in Cmd /\ InCall(c) /\ call[c].rows = <<>> /\ replies = <<>>
    BY <1>0, <2>1 DEF Attempt, CallShape, CallOK, InCall, Wired
  <2>3. /\ table' = o.tbl /\ did' = Noted(w, o) /\ wire' = {} /\ replies' = Answer(w.cmd, o)
        /\ UNCHANGED <<mu, conn, late, call, sockets>>
    BY <1>1 DEF Execute
  <2>4. \A d \in Caller : call[d].pc = "recv" => d = c
    BY <1>0, <2>1 DEF OneHolder, Holds
  <2>5. /\ DidShape' /\ WellFormed(table)' /\ o.ok \in BOOLEAN /\ IsSeq(o.row)
        /\ \A d \in Caller : did[d] \subseteq did'[d]
        /\ o.ok => [cmd |-> w.cmd, row |-> o.row] \in did'[c]
    BY <2>2, <2>3, ExecutionNoted
  <2>6. Returned'
    BY <2>3, <2>5 DEF DialerInv, Returned
  <2>7. ConnShape'
    <3>1. CallShape' /\ OneHolder' /\ OneConnection'
      BY <1>0, <2>3 DEF ConnShape, CallShape, OneHolder, Holds, OneConnection
    <3>2. Wired'
      BY <1>0, <2>1, <2>3 DEF Wired
    <3>3. Fresh'
      BY <2>3 DEF ConnShape, DialerInv, Fresh, InCall, Changing
    <3> QED
      BY <3>1, <3>2, <3>3 DEF ConnShape
  <2>8. OnWay'
    <3>1. IsSeq(replies')
      BY <2>3, <2>5, AnswerShape
    <3>2. CASE ~o.ok
      <4>1. replies' = <<Sentence("trap", <<>>), Sentence("done", <<>>)>>
        BY <2>3, <2>5, <3>2, AnswerShape
      <4>2. Refusing'
        BY <4>1 DEF Refusing
      <4> QED
        BY <3>1, <4>2 DEF OnWay
    <3>3. CASE o.ok
      <4> DEFINE d == [cmd |-> w.cmd, row |-> o.row]
      <4>1. d \in did'[c] /\ d.cmd = call'[c].cmd /\ d.row = o.row
        BY <2>2, <2>3, <2>5, <3>3
      <4> HIDE DEF d
      <4>2. call' = call /\ Len(call[c].rows) = 0 /\ Len(o.row) \in Nat
        BY <2>2, <2>3, <2>5, SeqShape, EmptySeq
      <4>3. Reading(c, o.row)'
        <5>1. CASE w.cmd.op # "print"
          <6>1. replies' = <<Sentence("done", o.row)>>
            BY <2>3, <2>5, <3>3, <5>1, AnswerShape
          <6> QED
            BY <2>2, <4>2, <5>1, <6>1 DEF Reading
        <5>2. CASE w.cmd.op = "print"
          <6>1. /\ Len(replies') = Len(o.row) + 1
                /\ \A k \in 1 .. Len(o.row) : replies'[k] = Sentence("re", <<o.row[k]>>)
                /\ replies'[Len(o.row) + 1] = Sentence("done", <<>>)
            BY <2>3, <2>5, <3>3, <5>2, AnswerShape
          <6>2. call'[c].cmd.op = "print"
            BY <2>2, <4>2, <5>2
          <6> QED
            BY <4>2, <6>1, <6>2 DEF Reading
        <5> QED
          BY <5>1, <5>2
      <4> QED
        BY <2>4, <3>1, <4>1, <4>2, <4>3 DEF OnWay
    <3> QED
      BY <3>2, <3>3
  <2> QED
    BY <2>5, <2>6, <2>7, <2>8 DEF DialerInv
<1>2. ASSUME NEW w \in late, NEW o \in Effect(w.cmd, table), ExecuteLate(w, o)
      PROVE  DialerInv'
  <2>1. w.by \in Caller /\ w.cmd \in Cmd
    BY DEF DialerInv, ConnShape, Fresh
  <2>2. /\ table' = o.tbl /\ did' = Noted(w, o) /\ late' = late \ {w}
        /\ UNCHANGED <<mu, conn, wire, replies, call, sockets>>
    BY <1>2 DEF ExecuteLate
  <2>3. DidShape' /\ WellFormed(table)' /\ \A d \in Caller : did[d] \subseteq did'[d]
    BY <2>1, <2>2, ExecutionNoted
  <2>4. Returned'
    BY <2>2, <2>3 DEF DialerInv, Returned
  <2>5. ConnShape'
    <3>1. CallShape' /\ OneHolder' /\ OneConnection' /\ Wired'
      BY <1>0, <2>2 DEF ConnShape, CallShape, OneHolder, Holds, OneConnection, Wired, Attempt
    <3>2. Fresh'
      BY <2>2 DEF ConnShape, DialerInv, Fresh, InCall, Changing
    <3> QED
      BY <3>1, <3>2 DEF ConnShape
  <2>6. OnWay'
    BY <2>2, <2>3 DEF DialerInv, OnWay, Refusing, Reading
  <2> QED
    BY <2>3, <2>4, <2>5, <2>6 DEF DialerInv
<1>3. CASE RouterCloses
  <2>1. conn = "up" /\ conn' = "closed" /\ wire' = {}
        /\ UNCHANGED <<table, mu, replies, late, call, did, sockets>>
    BY <1>3 DEF RouterCloses
  <2>2. DidShape' /\ WellFormed(table)'
    BY <2>1, SameNoted DEF DialerInv
  <2>3. OnWay' /\ Returned'
    BY <2>1 DEF DialerInv, OnWay, Returned, Refusing, Reading
  <2>4. CallShape' /\ OneHolder' /\ OneConnection' /\ Wired'
    BY <1>0, <2>1 DEF ConnShape, CallShape, OneHolder, Holds, OneConnection, Wired, Attempt
  <2>5. Fresh'
    BY <2>1 DEF ConnShape, DialerInv, Fresh, InCall, Changing
  <2> QED
    BY <2>2, <2>3, <2>4, <2>5 DEF DialerInv, ConnShape
<1> QED
  BY <1>1, <1>2, <1>3 DEF RouterStep

\* A handler takes an answer and asks for more, or is done.  A new command was
\* not asked for before by the same handler.
LEMMA PerformKeepsInv ==
  ASSUME DialerInv, NEW c \in Caller, ~InCall(c), NEW s, Perform(c, s),
         s.do = "call" => s.cmd \in Cmd /\ \A w \in late : w.by = c => w.cmd # s.cmd
  PROVE  DialerInv'
<1>0. ConnShape /\ CallShape /\ Wired /\ OneHolder
  BY DEF DialerInv, ConnShape
<1> DEFINE x == IF s.do = "call" THEN Calling(s.cmd) ELSE NoCall
<1>1. /\ call' = [call EXCEPT ![c] = x]
      /\ did' = [did EXCEPT ![c] = {d \in @ : Changing(d)}]
      /\ UNCHANGED <<table, mu, conn, wire, replies, late, sockets>>
  BY DEF Perform
<1>2. CallOK(x) /\ x.pc \in {"lock", "idle"} /\ (x.pc = "lock" => s.do = "call" /\ x.cmd = s.cmd)
      /\ (x.pc = "lock" => x.rows = <<>>)
  <2>1. IsSeq(<<>>)
    BY SeqSmall
  <2> QED
    BY <2>1 DEF CallOK, Calling, NoCall, CallAt, Pcs
<1> HIDE DEF x
<1>3. call = [d \in Caller |-> call[d]] /\ call[c].pc \in {"idle", "ok", "err"}
  BY <1>0 DEF CallShape, CallOK, InCall, Pcs
<1>4. call'[c] = x /\ \A d \in Caller : d # c => call'[d] = call[d]
  BY <1>1, <1>3
<1>5. CallShape'
  BY <1>0, <1>1, <1>2, <1>3 DEF CallShape
<1>6. OneHolder'
  BY <1>0, <1>1, <1>2, <1>3, <1>4 DEF OneHolder, Holds
<1>7. Wired'
  BY <1>0, <1>1, <1>2, <1>3, <1>4 DEF Wired, Attempt
<1>8. Fresh'
  <2> SUFFICES ASSUME NEW w \in late
               PROVE  /\ w = [by |-> w.by, cmd |-> w.cmd, try |-> w.try]
                      /\ w.by \in Caller /\ w.cmd \in Cmd /\ w.try \in {1, 2} /\ Changing(w)
                      /\ InCall(w.by)' /\ w.cmd = call'[w.by].cmd => w.try < call'[w.by].try
    BY <1>1 DEF Fresh, Changing
  <2>1. /\ w = [by |-> w.by, cmd |-> w.cmd, try |-> w.try]
        /\ w.by \in Caller /\ w.cmd \in Cmd /\ w.try \in {1, 2} /\ Changing(w)
        /\ InCall(w.by) /\ w.cmd = call[w.by].cmd => w.try < call[w.by].try
    BY <1>0 DEF ConnShape, Fresh
  <2>2. CASE w.by = c
    BY <1>2, <1>4, <2>1, <2>2 DEF InCall
  <2>3. CASE w.by # c
    BY <1>4, <2>1, <2>3 DEF InCall
  <2> QED
    BY <2>2, <2>3
<1>9. OneConnection'
  BY <1>0, <1>1, <1>2, <1>3, <1>4 DEF ConnShape, OneConnection
<1>10. did = [d \in Caller |-> did[d]]
  BY DEF DialerInv, DidShape
<1>11. /\ did' = [d \in Caller |-> did'[d]] /\ did'[c] \subseteq did[c]
       /\ \A d \in Caller : d # c => did'[d] = did[d]
  BY <1>1, <1>10
<1>12. DidShape' /\ WellFormed(table)'
  BY <1>1, <1>11 DEF DialerInv, DidShape, NotedOK, WellFormed
<1>13. Returned'
  BY <1>2, <1>4, <1>11 DEF DialerInv, Returned
<1>14. OnWay'
  <2>1. IsSeq(replies')
    BY <1>1 DEF DialerInv, OnWay
  <2>2. ASSUME replies' # <<>>, NEW d \in Caller, call'[d].pc = "recv"
        PROVE  Refusing' \/ \E e \in did'[d] : e.cmd = call'[d].cmd /\ Reading(d, e.row)'
    <3>1. replies # <<>> /\ d # c /\ call'[d] = call[d] /\ did'[d] = did[d]
      BY <1>1, <1>2, <1>4, <1>11, <2>2
    <3>2. Refusing \/ \E e \in did[d] : e.cmd = call[d].cmd /\ Reading(d, e.row)
      BY <2>2, <3>1 DEF DialerInv, OnWay
    <3> QED
      BY <1>1, <3>1, <3>2 DEF Reading, Refusing
  <2> QED
    BY <2>1, <2>2 DEF OnWay
<1> QED
  BY <1>5, <1>6, <1>7, <1>8, <1>9, <1>12, <1>13, <1>14 DEF DialerInv, ConnShape

-----------------------------------------------------------------------------
(* The handlers.                                                            *)

\* The order in which a handler issues its commands.
Rank(m) ==
  IF m.tbl = "iface" THEN IF m.op = "print" THEN 1 ELSE 2
  ELSE IF m.op = "print" THEN 3 ELSE 4

SetKey(j) == Command("set", "iface", 0, j.key)
AddressChange(m) == m.tbl = "addr" /\ m.op \in {"add", "set"}

\* The commands the handler of j issues.
Issues(j, m) ==
  \/ m = First(j)
  \/ j.kind = "interfaces" /\ m = PrintOf("addr")
  \/ /\ j.kind = "import"
     /\ \/ j.key # None /\ m = SetKey(j)
        \/ j.val # None /\ m = PrintOf("addr")
        \/ j.val # None /\ AddressChange(m) /\ m.val = NormalizeIfaceAddress(j.val)

\* A handler goes on upwards, and past the address only with its key set.
Onwards(j, m, s) ==
  /\ s.cmd \in Cmd /\ Issues(j, s.cmd) /\ Rank(m) < Rank(s.cmd) /\ s.code = None
  /\ j.kind = "import" /\ j.key # None => m = SetKey(j) \/ Rank(m) >= 3 \/ Rank(s.cmd) < 3

\* A handler says that it is done.
Done(j, m) ==
  /\ j.kind \in {"add", "update", "delete"} => m = First(j)
  /\ j.kind = "import" => /\ j.key # None => m = SetKey(j) \/ Rank(m) >= 3
                          /\ j.val # None => AddressChange(m) /\ m.val = NormalizeIfaceAddress(j.val)

\* The two things a handler does after a call.
LEMMA GiveIssue ==
  /\ \A code, rows : LET s == Give(code, rows) IN s.do = "answer" /\ s.code = code /\ s.rows = rows
  /\ \A m : LET s == Issue(m) IN s.do = "call" /\ s.cmd = m /\ s.code = None
BY DEF Give, Issue

\* SetInterface goes on with a later call of its order (interface, key, address list,
\* address), or is done.
LEMMA SetInterfaceGoesOn ==
  ASSUME NEW j, Fits(j), j.kind = "import", NEW m \in Cmd, Issues(j, m), NEW rows, IsSeq(rows),
         m = PrintOf("addr") => RowsOK(rows, MaxId + 1),
         NEW s, s = SetInterface(j, m, rows)
  PROVE  \/ s.do = "call" /\ Onwards(j, m, s)
         \/ s.do = "answer" /\ s.code \in {"ok", "err"} /\ (s.code = "ok" => Done(j, m))
<1> DEFINE a == NormalizeIfaceAddress(j.val)
           address == IF a = None THEN Give("ok", <<>>) ELSE Issue(PrintOf("addr"))
<1>1. /\ j.val = None <=> a = None
      /\ j.val # None => a \in Addrs
  BY AddrsAssumption DEF Fits, NormalizeIfaceAddress
<1>2. First(j) = PrintOf("iface") /\ SetKey(j) = Command("set", "iface", 0, j.key)
  BY DEF First, SetKey
<1>3. /\ s = CASE m = PrintOf("iface") -> IF rows = <<>> THEN Give("err", <<>>)
                                          ELSE IF j.key = None THEN address
                                          ELSE Issue(Command("set", "iface", 0, j.key))
               [] m.op # "print" /\ m.tbl = "iface" -> address
               [] m = PrintOf("addr") -> Issue(IF rows = <<>> THEN Command("add", "addr", 0, a)
                                               ELSE Command("set", "addr", rows[1].id, a))
               [] m.op # "print" /\ m.tbl = "addr" -> Give("ok", <<>>)
  BY DEF SetInterface
<1> HIDE DEF a
<1>4. a # None => PrintOf("addr") \in Cmd /\ Issues(j, PrintOf("addr")) /\ Rank(PrintOf("addr")) = 3
  BY <1>1 DEF Cmd, Issues, Rank, PrintOf, Command
<1>5. CASE m = PrintOf("iface")
  <2>1. m.op = "print" /\ m.tbl = "iface" /\ Rank(m) = 1 /\ m # PrintOf("addr")
    BY <1>5 DEF PrintOf, Command, Rank
  <2>2. CASE rows = <<>>
    <3>1. s = Give("err", <<>>)
      BY <1>3, <1>5, <2>1, <2>2
    <3> QED
      BY <3>1, GiveIssue
  <2>3. CASE rows # <<>> /\ j.key = None
    <3>1. s = address
      BY <1>3, <1>5, <2>1, <2>3
    <3>2. CASE a = None
      BY <1>1, <2>3, <3>1, <3>2, GiveIssue DEF Done
    <3>3. CASE a # None
      BY <1>4, <2>1, <2>3, <3>1, <3>3, GiveIssue DEF Onwards
    <3> QED
      BY <3>2, <3>3
  <2>4. CASE rows # <<>> /\ j.key # None
    <3>1. s = Issue(SetKey(j))
      BY <1>2, <1>3, <1>5, <2>1, <2>4
    <3>2. SetKey(j) \in Cmd /\ Issues(j, SetKey(j)) /\ Rank(SetKey(j)) = 2
      BY <2>4 DEF Fits, Cmd, Issues, Rank, SetKey, Command
    <3> QED
      BY <2>1, <3>1, <3>2, GiveIssue DEF Onwards
  <2> QED
    BY <2>2, <2>3, <2>4
<1>6. CASE m.op # "print" /\ m.tbl = "iface"
  <2>1. m # PrintOf("iface") /\ m # PrintOf("addr") /\ Rank(m) = 2 /\ ~AddressChange(m)
    BY <1>6 DEF PrintOf, Command, Rank, AddressChange
  <2>2. m = SetKey(j) /\ j.key # None
    BY <1>2, <2>1 DEF Issues
  <2>3. s = address
    BY <1>3, <1>6, <2>1
  <2>4. CASE a = None
    BY <1>1, <2>2, <2>3, <2>4, GiveIssue DEF Done
  <2>5. CASE a # None
    BY <1>4, <2>1, <2>2, <2>3, <2>5, GiveIssue DEF Onwards
  <2> QED
    BY <2>4, <2>5
<1>7. CASE m = PrintOf("addr")
  <2>1. m.op = "print" /\ m.tbl = "addr" /\ Rank(m) = 3 /\ m # PrintOf("iface") /\ m # SetKey(j)
    BY <1>7 DEF PrintOf, Command, Rank, SetKey
  <2>2. j.val # None
    BY <1>2, <2>1 DEF Issues, AddressChange
  <2> DEFINE n == IF rows = <<>> THEN Command("add", "addr", 0, a) ELSE Command("set", "addr", rows[1].id, a)
  <2>3. s = Issue(n)
    BY <1>3, <1>7, <2>1
  <2>4. n \in Cmd
    <3>1. CASE rows = <<>>
      BY <1>1, <2>2, <3>1 DEF Cmd
    <3>2. CASE rows # <<>>
      <4>1. 1 \in 1 .. Len(rows)
        BY <3>2, SeqShape
      <4>2. rows[1].id \in Ids
        BY <1>7, <4>1, IdsAssumption DEF RowsOK, Ids
      <4> QED
        BY <1>1, <2>2, <3>2, <4>2 DEF Cmd
    <3> QED
      BY <3>1, <3>2
  <2>5. AddressChange(n) /\ n.val = a /\ Rank(n) = 4
    BY DEF AddressChange, Rank, Command
  <2> HIDE DEF n
  <2>6. Issues(j, n)
    BY <2>2, <2>5 DEF Issues, a
  <2> QED
    BY <2>1, <2>3, <2>4, <2>5, <2>6, GiveIssue DEF Onwards
<1>8. CASE m.op # "print" /\ m.tbl = "addr"
  <2>1. m # PrintOf("iface") /\ m # PrintOf("addr") /\ m # SetKey(j) /\ Rank(m) = 4
    BY <1>8 DEF PrintOf, Command, Rank, SetKey
  <2>2. AddressChange(m) /\ m.val = NormalizeIfaceAddress(j.val)
    BY <1>2, <2>1 DEF Issues
  <2>3. s = Give("ok", <<>>)
    BY <1>3, <1>8, <2>1
  <2> QED
    BY <2>1, <2>2, <2>3, GiveIssue DEF Done
<1> QED
  BY <1>2, <1>5, <1>6, <1>7, <1>8 DEF Issues, AddressChange, SetKey, Command, PrintOf

\* What follows the answer to a command of a handler.
LEMMA FollowingGoesOn ==
  ASSUME NEW j, Fits(j), NEW m \in Cmd, Issues(j, m), NEW rows, IsSeq(rows),
         m = PrintOf("addr") => RowsOK(rows, MaxId + 1),
         NEW s, s = Following(j, m, rows)
  PROVE  \/ s.do = "call" /\ Onwards(j, m, s)
         \/ s.do = "answer" /\ s.code \in {"ok", "err"} /\ (s.code = "ok" => Done(j, m))
<1>1. CASE j.kind = "import"
  BY <1>1, SetInterfaceGoesOn DEF Following
<1>2. CASE j.kind = "interfaces"
  <2>1. First(j) = PrintOf("iface") /\ m \in {PrintOf("iface"), PrintOf("addr")}
        /\ PrintOf("iface") # PrintOf("addr")
    BY <1>2 DEF First, Issues, PrintOf, Command
  <2>2. CASE m = PrintOf("iface")
    <3>1. s = Issue(PrintOf("addr"))
      BY <1>2, <2>1, <2>2 DEF Following
    <3>2. PrintOf("addr") \in Cmd /\ Issues(j, PrintOf("addr")) /\ Rank(PrintOf("addr")) = 3 /\ Rank(m) = 1
      BY <1>2, <2>2 DEF Cmd, Issues, Rank, PrintOf, Command
    <3> QED
      BY <1>2, <3>1, <3>2, GiveIssue DEF Onwards
  <2>3. CASE m = PrintOf("addr")
    <3>1. s = Give("ok", FirstOf(Active(rows)))
      BY <1>2, <2>1, <2>3 DEF Following
    <3> QED
      BY <1>2, <3>1, GiveIssue DEF Done
  <2> QED
    BY <2>1, <2>2, <2>3
<1>3. CASE j.kind \in {"peers", "addresses", "add", "update", "delete"}
  <2>1. m = First(j)
    BY <1>3 DEF Issues
  <2>2. Done(j, m)
    BY <1>3, <2>1 DEF Done
  <2>3. \E code, r : code \in {"ok", "err"} /\ s = Give(code, r)
    BY <1>3 DEF Following
  <2> QED
    BY <2>2, <2>3, GiveIssue
<1> QED
  BY <1>1, <1>2, <1>3 DEF Fits, Kinds

\* After a call that failed a handler answers with an error, or with what it has.
LEMMA FollowingErrorGoesOn ==
  ASSUME NEW j, NEW m, NEW s, s = FollowingError(j, m)
  PROVE  s.do = "answer" /\ s.code \in {"ok", "err"} /\ (s.code = "ok" => Done(j, m))
<1>1. CASE j.kind = "interfaces" /\ m = PrintOf("addr")
  BY <1>1, GiveIssue DEF FollowingError, Done
<1>2. CASE ~(j.kind = "interfaces" /\ m = PrintOf("addr"))
  <2>1. s = Give("err", <<>>)
    BY <1>2 DEF FollowingError
  <2> QED
    BY <2>1, GiveIssue
<1> QED
  BY <1>1, <1>2

\* Of the steps of a call that matter to its handler: it stays the call of the
\* same command.
LEMMA CallStepMoves ==
  ASSUME DialerInv, NEW c \in Caller, CallStep(c)
  PROVE  /\ InCall(c) /\ call'[c].pc # "idle" /\ call'[c].cmd = call[c].cmd
         /\ \A d \in Caller : d # c => call'[d] = call[d]
         /\ UNCHANGED <<table, did>> /\ late' \subseteq late \union wire
<1>0. CallShape /\ call[c].try \in {1, 2} \union {0}
  BY DEF DialerInv, ConnShape, CallShape, CallOK, NoCall, CallAt
<1>1. CASE Drop /\ Again(c) /\ call[c].pc \in {"send", "recv"} /\ UNCHANGED <<table, did>>
  <2>1. MovedAgain(c)
    BY <1>0, <1>1, AgainMoves
  <2>2. late' \subseteq late \union wire
    BY <1>1 DEF Drop
  <2> QED
    BY <1>1, <2>1, <2>2 DEF MovedAgain, Moved, InCall
<1>2. CASE Lock(c)
  <2> DEFINE pc == IF conn = "none" THEN "dial" ELSE "send"
  <2>1. call[c].pc = "lock" /\ call' = [call EXCEPT ![c].pc = pc] /\ pc \in Pcs \ {"idle"}
        /\ UNCHANGED <<table, did, late>>
    BY <1>2 DEF Lock, Pcs
  <2>2. Moved(c, pc, call[c].try, call[c].rows)
    BY <1>0, <2>1, MovedPc
  <2> QED
    BY <2>1, <2>2 DEF Moved, InCall
<1>3. ASSUME NEW ok \in BOOLEAN, Connect(c, ok) \/ Login(c, ok)
      PROVE  /\ InCall(c) /\ call'[c].pc # "idle" /\ call'[c].cmd = call[c].cmd
             /\ \A d \in Caller : d # c => call'[d] = call[d]
             /\ UNCHANGED <<table, did>> /\ late' \subseteq late \union wire
  <2>1. call[c].pc \in {"dial", "login"} /\ UNCHANGED <<table, did, late>>
    BY <1>3 DEF Connect, Login
  <2>2. \/ call' = [call EXCEPT ![c].pc = "login"]
        \/ call' = [call EXCEPT ![c].pc = "send"]
        \/ Again(c)
    BY <1>3 DEF Connect, Login
  <2>3. \/ Moved(c, "login", call[c].try, call[c].rows) \/ Moved(c, "send", call[c].try, call[c].rows)
        \/ MovedAgain(c)
    BY <1>0, <2>1, <2>2, MovedPc, AgainMoves DEF Pcs
  <2> QED
    BY <2>1, <2>3 DEF MovedAgain, Moved, InCall
<1>4. CASE Send(c)
  <2>1. call[c].pc = "send" /\ call' = [call EXCEPT ![c].pc = "recv"] /\ "recv" \in Pcs \ {"idle"}
        /\ UNCHANGED <<table, did, late>>
    BY <1>4 DEF Send, Pcs
  <2>2. Moved(c, "recv", call[c].try, call[c].rows)
    BY <1>0, <2>1, MovedPc
  <2> QED
    BY <2>1, <2>2 DEF Moved, InCall
<1>5. CASE Recv(c)
  <2>1. call[c].pc = "recv" /\ UNCHANGED <<table, did>>
    BY <1>5 DEF Recv
  <2>2. CASE Drop /\ Again(c)
    BY <1>1, <2>1, <2>2
  <2>3. CASE late' = late /\ \E pc, rows : pc \in {"recv", "ok"} /\ Moved(c, pc, call[c].try, rows)
    BY <2>1, <2>3 DEF Moved, InCall
  <2> QED
    BY <1>5, <2>2, <2>3, RecvReads
<1>6. CASE Break(c)
  BY <1>1, <1>6 DEF Break
<1> QED
  BY <1>2, <1>3, <1>4, <1>5, <1>6 DEF CallStep

\* What an answer says, in terms of what was accepted.
Truthful(c) ==
  LET j == job[c] IN
    answer[c].code = "ok" =>
      /\ j.kind \in {"add", "update", "delete"} => Accepted(c, First(j))
      /\ j.kind = "import" => /\ j.key # None => Accepted(c, SetKey(j))
                              /\ j.val # None => AddressSet(c, NormalizeIfaceAddress(j.val))

\* m was issued by c's handler, and not after its present command.
Past(c, m) == call[c].pc # "idle" => m = call[c].cmd \/ Rank(m) < Rank(call[c].cmd)

\* The key of an import was set.
KeySet(c) == job[c].key # None => Accepted(c, SetKey(job[c]))

\* What a handler has done so far.
HandlerOK(c) ==
  /\ job[c] = None => /\ call[c].pc = "idle" /\ did[c] = {} /\ answer[c] = Nothing
                      /\ \A w \in late : w.by # c
  /\ job[c] # None => Fits(job[c])
  /\ call[c].pc # "idle" =>
       /\ job[c] # None /\ Issues(job[c], call[c].cmd)
       /\ answer[c].code = None
       /\ job[c].kind = "import" /\ Rank(call[c].cmd) >= 3 => KeySet(c)
  /\ \A d \in did[c] : Past(c, d.cmd)
  /\ \A w \in late : w.by = c => /\ Past(c, w.cmd)
                                 /\ AddressChange(w.cmd) => KeySet(c)
  /\ Truthful(c)

AdminShape == job = [c \in Caller |-> job[c]] /\ answer = [c \in Caller |-> answer[c]]
AdminInv == DialerInv /\ AdminShape /\ \A c \in Caller : HandlerOK(c)

\* A change that was accepted stays so.
LEMMA AcceptedStays ==
  ASSUME NEW c \in Caller, \A d \in did[c] : Changing(d) => d \in did'[c], job'[c] = job[c]
  PROVE  /\ \A m : m.op # "print" /\ Accepted(c, m) => Accepted(c, m)'
         /\ \A a : AddressSet(c, a) => AddressSet(c, a)'
         /\ KeySet(c) => KeySet(c)'
<1>1. \A m : m.op # "print" /\ Accepted(c, m) => Accepted(c, m)'
  BY DEF Accepted, Changing
<1>2. \A a : AddressSet(c, a) => AddressSet(c, a)'
  BY DEF AddressSet, Changing
<1>3. SetKey(job[c]).op # "print"
  BY DEF SetKey, Command
<1> QED
  BY <1>1, <1>2, <1>3 DEF KeySet

\* What was truthfully answered stays so while nothing is forgotten.
LEMMA TruthfulStays ==
  ASSUME NEW c \in Caller, Truthful(c), \A d \in did[c] : Changing(d) => d \in did'[c],
         job'[c] = job[c], answer'[c] = answer[c]
  PROVE  Truthful(c)'
<1>1. /\ \A m : m.op # "print" /\ Accepted(c, m) => Accepted(c, m)'
      /\ \A a : AddressSet(c, a) => AddressSet(c, a)'
  BY AcceptedStays
<1>2. job[c].kind \in {"add", "update", "delete"} => First(job[c]).op # "print"
  BY DEF First, Command
<1>3. SetKey(job[c]).op # "print"
  BY DEF SetKey, Command
<1> QED
  BY <1>1, <1>2, <1>3 DEF Truthful

\* An address goes out after the key.
LEMMA AddressAfterKey ==
  ASSUME AdminInv, NEW c \in Caller, call[c].pc # "idle", AddressChange(call[c].cmd)
  PROVE  KeySet(c)
<1>1. Issues(job[c], call[c].cmd) /\ Fits(job[c])
  BY DEF AdminInv, HandlerOK
<1>2. job[c].kind = "import"
  BY <1>1 DEF Issues, AddressChange, First, Fits, Kinds, PrintOf, Command
<1>3. Rank(call[c].cmd) = 4
  BY DEF AddressChange, Rank
<1> QED
  BY <1>2, <1>3 DEF AdminInv, HandlerOK

\* Steps inside Dialer.Call keep the handlers' invariant.
LEMMA CallStepKeepsAdmin ==
  ASSUME AdminInv, NEW c \in Caller, CallStep(c), UNCHANGED <<job, answer>>
  PROVE  AdminInv'
<1>1. DialerInv'
  BY CallStepKeepsInv DEF AdminInv
<1>2. /\ InCall(c) /\ call'[c].pc # "idle" /\ call'[c].cmd = call[c].cmd
      /\ \A d \in Caller : d # c => call'[d] = call[d]
      /\ UNCHANGED <<table, did>> /\ late' \subseteq late \union wire
  BY CallStepMoves DEF AdminInv
<1>3. call[c].pc # "idle"
  BY <1>2 DEF InCall
<1>4. \A w \in wire : \E d \in Caller : w.by = d /\ w.cmd = call[d].cmd /\ call[d].pc = "recv"
  BY DEF AdminInv, DialerInv, ConnShape, Wired, Attempt
<1>5. ASSUME NEW d \in Caller
      PROVE  HandlerOK(d)'
  <2>1. HandlerOK(d)
    BY DEF AdminInv
  <2>2. KeySet(d)' <=> KeySet(d)
    BY <1>2 DEF KeySet, Accepted
  <2>3. \A m : Past(d, m) => Past(d, m)'
    BY <1>2, <1>3 DEF Past
  <2>4. Truthful(d)'
    BY <1>2, <2>1, TruthfulStays DEF HandlerOK
  <2>5. ASSUME NEW w \in late', w.by = d
        PROVE  Past(d, w.cmd)' /\ (AddressChange(w.cmd) => KeySet(d)')
    <3>1. CASE w \in late
      BY <2>1, <2>2, <2>3, <2>5, <3>1 DEF HandlerOK
    <3>2. CASE w \in wire
      <4>1. w.cmd = call[d].cmd /\ call[d].pc = "recv"
        BY <1>4, <2>5, <3>2
      <4>2. AddressChange(w.cmd) => KeySet(d)
        BY <4>1, AddressAfterKey
      <4>3. Past(d, w.cmd)
        BY <4>1 DEF Past
      <4> QED
        BY <2>2, <2>3, <4>2, <4>3
    <3> QED
      BY <1>2, <3>1, <3>2
  <2>6. job[d] = None => \A w \in late' : w.by # d
    BY <1>2, <1>4, <2>1 DEF HandlerOK
  <2>7. call'[d].pc # "idle" => call[d].pc # "idle" /\ call'[d].cmd = call[d].cmd
    BY <1>2, <1>3
  <2>8. call[d].pc = "idle" => call'[d].pc = "idle"
    BY <1>2, <1>3
  <2>9. \A e \in did'[d] : Past(d, e.cmd)'
    BY <1>2, <2>1, <2>3 DEF HandlerOK
  <2> QED
    BY <1>2, <2>1, <2>2, <2>4, <2>5, <2>6, <2>7, <2>8, <2>9 DEF HandlerOK
<1>6. AdminShape'
  BY DEF AdminInv, AdminShape
<1> QED
  BY <1>1, <1>5, <1>6 DEF AdminInv

\* What the router does by itself, late executions included, keeps it.
LEMMA RouterMovesKeepsAdmin ==
  ASSUME AdminInv, RouterStep, UNCHANGED <<job, answer>>
  PROVE  AdminInv'
<1>1. DialerInv'
  BY RouterStepKeepsInv DEF AdminInv
<1>2. AdminShape'
  BY DEF AdminInv, AdminShape
<1>3. CASE RouterCloses
  <2>1. UNCHANGED <<call, did, late>>
    BY <1>3 DEF RouterCloses
  <2>2. \A c \in Caller : HandlerOK(c)'
    BY <2>1 DEF AdminInv, HandlerOK, Past, KeySet, Truthful, Accepted, AddressSet
  <2> QED
    BY <1>1, <1>2, <2>2 DEF AdminInv
<1>4. ASSUME NEW w \in wire \union late, NEW o \in Effect(w.cmd, table), Execute(w, o) \/ (w \in late /\ ExecuteLate(w, o)),
             w \in wire \/ (w \in late /\ ExecuteLate(w, o))
      PROVE  AdminInv'
  <2>1. UNCHANGED call /\ late' \subseteq late /\ table' = o.tbl /\ did' = Noted(w, o)
    BY <1>4 DEF Execute, ExecuteLate
  <2>2. /\ w.by \in Caller /\ w.cmd \in Cmd
        /\ w \in wire => call[w.by].pc = "recv" /\ w.cmd = call[w.by].cmd
    <3>1. CASE w \in wire
      BY <3>1 DEF AdminInv, DialerInv, ConnShape, Wired, CallShape, CallOK, Attempt
    <3>2. CASE w \notin wire
      BY <3>2 DEF AdminInv, DialerInv, ConnShape, Fresh
    <3> QED
      BY <3>1, <3>2
  <2>3. /\ \A c \in Caller : did[c] \subseteq did'[c]
        /\ \A c \in Caller : \A d \in did'[c] : d \in did[c] \/ (c = w.by /\ d = [cmd |-> w.cmd, row |-> o.row])
    BY <2>1, <2>2, ExecutionNoted DEF AdminInv
  <2>4. ASSUME NEW c \in Caller
        PROVE  HandlerOK(c)'
    <3>1. HandlerOK(c)
      BY DEF AdminInv
    <3>2. Truthful(c)'
      BY <2>3, <3>1, TruthfulStays DEF HandlerOK
    <3>3. KeySet(c) => KeySet(c)'
      BY <2>3, AcceptedStays
    <3>4. \A m : Past(c, m) => Past(c, m)'
      BY <2>1 DEF Past
    <3>5. ASSUME NEW d \in did'[c]
          PROVE  Past(c, d.cmd)
      <4>1. CASE d \in did[c]
        BY <3>1, <4>1 DEF HandlerOK
      <4>2. CASE c = w.by /\ d = [cmd |-> w.cmd, row |-> o.row]
        <5>1. d.cmd = w.cmd
          BY <4>2
        <5> QED
          BY <2>2, <3>1, <4>2, <5>1 DEF HandlerOK, Past
      <4> QED
        BY <2>3, <4>1, <4>2
    <3>6. job[c] = None => did'[c] = {}
      <4>1. job[c] = None => w.by # c
        BY <2>2, <3>1 DEF HandlerOK
      <4> QED
        BY <2>3, <3>1, <4>1 DEF HandlerOK
    <3>7. \A e \in late' : e.by = c => /\ Past(c, e.cmd)'
                                       /\ AddressChange(e.cmd) => KeySet(c)'
      BY <2>1, <3>1, <3>3, <3>4 DEF HandlerOK
    <3>8. \A d \in did'[c] : Past(c, d.cmd)'
      BY <3>4, <3>5
    <3>9. call[c].pc # "idle" /\ job[c].kind = "import" /\ Rank(call[c].cmd) >= 3 => KeySet(c)'
      BY <3>1, <3>3 DEF HandlerOK
    <3> QED
      BY <2>1, <3>1, <3>2, <3>6, <3>7, <3>8, <3>9 DEF HandlerOK
  <2> QED
    BY <1>1, <1>2, <2>4 DEF AdminInv
<1> QED
  BY <1>3, <1>4 DEF RouterStep

\* A handler that begins, goes on or is done; the command it issues is new.
LEMMA PerformKeepsAdmin ==
  ASSUME AdminInv, NEW c \in Caller, ~InCall(c), NEW s, Perform(c, s),
         NEW j, Fits(j), job' = [job EXCEPT ![c] = j], job[c] \in {None, j},
         \/ /\ s.do = "call" /\ s.cmd \in Cmd /\ Issues(j, s.cmd) /\ s.code = None
            /\ \A d \in did[c] : Rank(d.cmd) < Rank(s.cmd)
            /\ \A w \in late : w.by = c => Rank(w.cmd) < Rank(s.cmd)
            /\ j.kind = "import" /\ Rank(s.cmd) >= 3 /\ j.key # None => Accepted(c, SetKey(j))
         \/ /\ s.do = "answer" /\ s.code \in {"ok", "err"}
            /\ s.code = "ok" =>
                 /\ j.kind \in {"add", "update", "delete"} => Accepted(c, First(j))
                 /\ j.kind = "import" => /\ j.key # None => Accepted(c, SetKey(j))
                                         /\ j.val # None => AddressSet(c, NormalizeIfaceAddress(j.val))
  PROVE  AdminInv'
<1>0. DialerInv /\ AdminShape /\ CallShape
  BY DEF AdminInv, DialerInv, ConnShape
<1> DEFINE x == IF s.do = "call" THEN Calling(s.cmd) ELSE NoCall
           y == [code |-> s.code, rows |-> s.rows]
<1>1. /\ call' = [call EXCEPT ![c] = x] /\ answer' = [answer EXCEPT ![c] = y]
      /\ did' = [did EXCEPT ![c] = {d \in @ : Changing(d)}] /\ late' = late
  BY DEF Perform
<1>2. /\ x.pc # "idle" => s.do = "call" /\ x.cmd = s.cmd
      /\ s.do = "call" => x.pc # "idle"
      /\ y.code = s.code
  BY DEF Calling, NoCall, CallAt
<1> HIDE DEF x, y
<1>3. /\ call = [d \in Caller |-> call[d]] /\ did = [d \in Caller |-> did[d]]
      /\ job = [d \in Caller |-> job[d]] /\ answer = [d \in Caller |-> answer[d]]
  BY <1>0 DEF CallShape, DialerInv, DidShape, AdminShape
<1>4. /\ call'[c] = x /\ answer'[c] = y /\ job'[c] = j
      /\ did'[c] = {d \in did[c] : Changing(d)}
      /\ \A d \in Caller : d # c => call'[d] = call[d] /\ answer'[d] = answer[d] /\ job'[d] = job[d] /\ did'[d] = did[d]
  BY <1>1, <1>3
<1>5. AdminShape'
  BY <1>1, <1>3 DEF AdminShape
<1>6. DialerInv'
  <2>1. s.do = "call" => s.cmd \in Cmd /\ \A w \in late : w.by = c => w.cmd # s.cmd
    <3>1. \A m : Rank(m) \in 1 .. 4
      BY DEF Rank
    <3> QED
      BY <3>1
  <2> QED
    BY <1>0, <2>1, PerformKeepsInv
<1>7. ASSUME NEW d \in Caller, d # c
      PROVE  HandlerOK(d)'
  <2>1. HandlerOK(d)
    BY DEF AdminInv
  <2>2. call'[d] = call[d] /\ answer'[d] = answer[d] /\ job'[d] = job[d] /\ did'[d] = did[d]
    BY <1>4, <1>7
  <2> QED
    BY <1>1, <2>1, <2>2 DEF HandlerOK, Past, KeySet, Truthful, Accepted, AddressSet, Nothing
<1>8. HandlerOK(c)'
  <2>1. \A d \in did[c] : Changing(d) => d \in did'[c]
    BY <1>4
  <2>2. /\ \A m : m.op # "print" /\ Accepted(c, m) => Accepted(c, m)'
        /\ \A a : AddressSet(c, a) => AddressSet(c, a)'
    <3>1. \A m : m.op # "print" /\ Accepted(c, m) => Accepted(c, m)'
      BY <2>1 DEF Accepted, Changing
    <3>2. \A a : AddressSet(c, a) => AddressSet(c, a)'
      BY <2>1 DEF AddressSet, Changing
    <3> QED
      BY <3>1, <3>2
  <2>3. /\ SetKey(j).op # "print"
        /\ j.kind \in {"add", "update", "delete"} => First(j).op # "print"
    BY DEF SetKey, First, Command
  <2>4. j # None
    BY DEF Fits
  <2>5. Truthful(c)'
    <3>1. CASE s.do = "call"
      <4>1. answer'[c].code = None
        BY <1>2, <1>4, <3>1
      <4> QED
        BY <4>1, AddrsAssumption DEF Truthful
    <3>2. CASE s.do = "answer"
      BY <1>2, <1>4, <2>2, <2>3, <3>2 DEF Truthful
    <3> QED
      BY <3>1, <3>2
  <2>6. \A d \in did'[c] : Past(c, d.cmd)'
    BY <1>2, <1>4 DEF Past
  <2>7. ASSUME NEW w \in late', w.by = c
        PROVE  Past(c, w.cmd)' /\ (AddressChange(w.cmd) => KeySet(c)')
    <3>1. w \in late /\ HandlerOK(c)
      BY <1>1 DEF AdminInv
    <3>2. job[c] = j
      BY <2>7, <3>1 DEF HandlerOK
    <3>3. AddressChange(w.cmd) => KeySet(c)
      BY <2>7, <3>1 DEF HandlerOK
    <3>4. KeySet(c) => KeySet(c)'
      BY <1>4, <2>2, <2>3, <3>2 DEF KeySet
    <3>5. Past(c, w.cmd)'
      BY <1>2, <1>4, <2>7, <3>1 DEF Past
    <3> QED
      BY <3>3, <3>4, <3>5
  <2>8. call'[c].pc # "idle" =>
          /\ Issues(j, call'[c].cmd) /\ answer'[c].code = None
          /\ j.kind = "import" /\ Rank(call'[c].cmd) >= 3 => KeySet(c)'
    BY <1>2, <1>4, <2>2, <2>3 DEF KeySet
  <2> QED
    BY <1>4, <2>4, <2>5, <2>6, <2>7, <2>8 DEF HandlerOK
<1> QED
  BY <1>5, <1>6, <1>7, <1>8 DEF AdminInv

\* A handler's first call keeps it.
LEMMA StartKeepsAdmin ==
  ASSUME AdminInv, NEW c \in Caller, NEW j, Fits(j), NEW configured \in BOOLEAN, Start(c, j, configured)
  PROVE  AdminInv'
<1> DEFINE s == IF configured THEN Issue(First(j)) ELSE Give("err", <<>>)
<1>1. job[c] = None /\ job' = [job EXCEPT ![c] = j] /\ Perform(c, s)
  BY DEF Start
<1>2. ~InCall(c) /\ did[c] = {} /\ \A w \in late : w.by # c
  BY <1>1 DEF AdminInv, HandlerOK, InCall
<1>3. \/ s.do = "call" /\ s.cmd = First(j) /\ s.code = None
      \/ s.do = "answer" /\ s.code = "err"
  BY GiveIssue
<1> HIDE DEF s
<1>4. First(j) \in Cmd /\ Issues(j, First(j))
  BY DEF Fits, Issues
<1>5. j.kind = "import" => Rank(First(j)) = 1
  BY DEF First, Rank, PrintOf, Command
<1>6. \/ /\ s.do = "call" /\ s.cmd \in Cmd /\ Issues(j, s.cmd) /\ s.code = None
         /\ \A d \in did[c] : Rank(d.cmd) < Rank(s.cmd)
         /\ \A w \in late : w.by = c => Rank(w.cmd) < Rank(s.cmd)
         /\ j.kind = "import" /\ Rank(s.cmd) >= 3 /\ j.key # None => Accepted(c, SetKey(j))
      \/ s.do = "answer" /\ s.code = "err"
  BY <1>2, <1>3, <1>4, <1>5
<1> QED
  BY <1>1, <1>2, <1>6, PerformKeepsAdmin

\* What a handler does next, from the answer it got.
LEMMA ResumeGoesOn ==
  ASSUME AdminInv, NEW c \in Caller, call[c].pc \in {"ok", "err"},
         NEW s, s = IF call[c].pc = "ok" THEN Following(job[c], call[c].cmd, call[c].rows)
                    ELSE FollowingError(job[c], call[c].cmd)
  PROVE  /\ Fits(job[c]) /\ job[c] # None
         /\ \/ s.do = "call" /\ Onwards(job[c], call[c].cmd, s)
            \/ s.do = "answer" /\ s.code \in {"ok", "err"} /\ (s.code = "ok" => Done(job[c], call[c].cmd))
         /\ s.do = "call" => call[c].pc = "ok"
         /\ call[c].pc = "ok" => Accepted(c, call[c].cmd)
         /\ s.code = "ok" /\ job[c].kind # "interfaces" => call[c].pc = "ok"
<1>1. HandlerOK(c) /\ DialerInv
  BY DEF AdminInv
<1>2. job[c] # None /\ Fits(job[c]) /\ Issues(job[c], call[c].cmd) /\ call[c].cmd \in Cmd
  BY <1>1 DEF HandlerOK, DialerInv, ConnShape, CallShape, CallOK
<1>3. CASE call[c].pc = "ok"
  <2>1. PICK d \in did[c] : d.cmd = call[c].cmd /\ d.row = call[c].rows
    BY <1>1, <1>3 DEF DialerInv, Returned
  <2>2. IsSeq(call[c].rows) /\ (call[c].cmd = PrintOf("addr") => RowsOK(call[c].rows, MaxId + 1))
    BY <1>1, <2>1 DEF DialerInv, DidShape, NotedOK
  <2>3. s = Following(job[c], call[c].cmd, call[c].rows)
    BY <1>3
  <2>4. \/ s.do = "call" /\ Onwards(job[c], call[c].cmd, s)
        \/ s.do = "answer" /\ s.code \in {"ok", "err"} /\ (s.code = "ok" => Done(job[c], call[c].cmd))
    BY <1>2, <2>2, <2>3, FollowingGoesOn
  <2> QED
    BY <1>2, <1>3, <2>1, <2>4 DEF Accepted
<1>4. CASE call[c].pc = "err"
  <2>1. s = FollowingError(job[c], call[c].cmd)
    BY <1>4
  <2>2. s.do = "answer" /\ s.code \in {"ok", "err"} /\ (s.code = "ok" => Done(job[c], call[c].cmd))
    BY <2>1, FollowingErrorGoesOn
  <2>3. job[c].kind # "interfaces" => s.code = "err"
    BY <2>1, GiveIssue DEF FollowingError
  <2> QED
    BY <1>2, <1>4, <2>2, <2>3
<1> QED
  BY <1>3, <1>4

\* A handler that takes an answer and goes on keeps it.
LEMMA ResumeKeepsAdmin ==
  ASSUME AdminInv, NEW c \in Caller, Resume(c)
  PROVE  AdminInv'
<1> DEFINE s == IF call[c].pc = "ok" THEN Following(job[c], call[c].cmd, call[c].rows)
                ELSE FollowingError(job[c], call[c].cmd)
           j == job[c]
           m == call[c].cmd
<1>1. call[c].pc \in {"ok", "err"} /\ Perform(c, s) /\ job' = job
  BY DEF Resume
<1>2. /\ Fits(j) /\ j # None
      /\ \/ s.do = "call" /\ Onwards(j, m, s)
         \/ s.do = "answer" /\ s.code \in {"ok", "err"} /\ (s.code = "ok" => Done(j, m))
      /\ s.do = "call" => call[c].pc = "ok"
      /\ call[c].pc = "ok" => Accepted(c, m)
      /\ s.code = "ok" /\ j.kind # "interfaces" => call[c].pc = "ok"
  BY <1>1, ResumeGoesOn
<1> HIDE DEF s
<1>3. HandlerOK(c) /\ ~InCall(c) /\ call[c].pc # "idle"
  BY <1>1 DEF AdminInv, InCall
<1>4. job' = [job EXCEPT ![c] = j]
  BY <1>1 DEF AdminInv, AdminShape
<1>5. j.kind = "import" /\ j.key # None /\ Rank(m) >= 3 => Accepted(c, SetKey(j))
  BY <1>3 DEF HandlerOK, KeySet
<1>6. CASE s.do = "call"
  <2>1. s.cmd \in Cmd /\ Issues(j, s.cmd) /\ Rank(m) < Rank(s.cmd) /\ s.code = None /\ Accepted(c, m)
    BY <1>2, <1>6 DEF Onwards
  <2>2. Rank(m) \in Nat /\ Rank(s.cmd) \in Nat /\ \A n : Rank(n) \in 1 .. 4
    BY DEF Rank
  <2>3. \A d \in did[c] : Rank(d.cmd) < Rank(s.cmd)
    <3> SUFFICES ASSUME NEW d \in did[c] PROVE Rank(d.cmd) < Rank(s.cmd)
      OBVIOUS
    <3>1. d.cmd = m \/ Rank(d.cmd) < Rank(m)
      BY <1>3 DEF HandlerOK, Past
    <3>2. Rank(d.cmd) \in 1 .. 4 /\ Rank(m) \in 1 .. 4 /\ Rank(s.cmd) \in 1 .. 4
      BY <2>2
    <3> QED
      BY <2>1, <3>1, <3>2
  <2>4. \A w \in late : w.by = c => Rank(w.cmd) < Rank(s.cmd)
    <3> SUFFICES ASSUME NEW w \in late, w.by = c PROVE Rank(w.cmd) < Rank(s.cmd)
      OBVIOUS
    <3>1. w.cmd = m \/ Rank(w.cmd) < Rank(m)
      BY <1>3 DEF HandlerOK, Past
    <3>2. Rank(w.cmd) \in 1 .. 4 /\ Rank(m) \in 1 .. 4 /\ Rank(s.cmd) \in 1 .. 4
      BY <2>2
    <3> QED
      BY <2>1, <3>1, <3>2
  <2>5. j.kind = "import" /\ Rank(s.cmd) >= 3 /\ j.key # None => Accepted(c, SetKey(j))
    <3> SUFFICES ASSUME j.kind = "import", Rank(s.cmd) >= 3, j.key # None
                 PROVE  Accepted(c, SetKey(j))
      OBVIOUS
    <3>1. m = SetKey(j) \/ Rank(m) >= 3 \/ Rank(s.cmd) < 3
      BY <1>2, <1>6 DEF Onwards
    <3>2. Rank(s.cmd) \in 1 .. 4
      BY <2>2
    <3> QED
      BY <1>5, <2>1, <3>1, <3>2
  <2> HIDE DEF j, m
  <2>6. job[c] \in {None, j}
    BY DEF j
  <2> QED
    BY <1>1, <1>2, <1>3, <1>4, <1>6, <2>1, <2>3, <2>4, <2>5, <2>6, PerformKeepsAdmin
<1>7. CASE s.do = "answer"
  <2>1. s.code \in {"ok", "err"}
    BY <1>2, <1>7, GiveIssue DEF Onwards
  <2>2. ASSUME s.code = "ok"
        PROVE  /\ j.kind \in {"add", "update", "delete"} => Accepted(c, First(j))
               /\ j.kind = "import" => /\ j.key # None => Accepted(c, SetKey(j))
                                       /\ j.val # None => AddressSet(c, NormalizeIfaceAddress(j.val))
    <3>1. Done(j, m)
      BY <1>2, <1>7, <2>2
    <3>2. j.kind \in {"add", "update", "delete", "import"} => Accepted(c, m)
      BY <1>2, <2>2
    <3>3. j.kind = "import" /\ j.val # None => AddressSet(c, NormalizeIfaceAddress(j.val))
      BY <3>1, <3>2 DEF Done, Accepted, AddressSet, AddressChange
    <3> QED
      BY <1>5, <3>1, <3>2, <3>3 DEF Done
  <2> HIDE DEF j, m
  <2>3. job[c] \in {None, j}
    BY DEF j
  <2> QED
    BY <1>1, <1>2, <1>3, <1>4, <1>7, <2>1, <2>2, <2>3, PerformKeepsAdmin
<1> QED
  BY <1>2, <1>6, <1>7

-----------------------------------------------------------------------------
(* What the invariant says.                                                 *)

\* The handlers' invariant holds at first.
LEMMA AdminStarts ==
  ASSUME AdminInit
  PROVE  AdminInv
<1>0. /\ table \in InitTables /\ mu = {} /\ conn = "none" /\ wire = {} /\ replies = <<>> /\ late = {}
      /\ call = [c \in Caller |-> NoCall] /\ did = [c \in Caller |-> {}] /\ sockets = 0
      /\ job = [c \in Caller |-> None] /\ answer = [c \in Caller |-> Nothing]
  BY DEF AdminInit, DialerInit
<1>1. NoCall.pc = "idle" /\ NoCall.rows = <<>> /\ NoCall = CallAt(NoCall.pc, NoCall.cmd, NoCall.try, NoCall.rows)
  BY DEF NoCall, CallAt
<1>2. \A c \in Caller : call[c] = NoCall /\ did[c] = {} /\ job[c] = None /\ answer[c] = Nothing
  BY <1>0
<1>3. IsSeq(<<>>)
  BY SeqSmall
<1>4. CallShape
  <2>1. CallOK(NoCall)
    BY <1>1, <1>3 DEF CallOK, Pcs
  <2>2. call = [c \in Caller |-> call[c]]
    BY <1>0
  <2> QED
    BY <1>2, <2>1, <2>2 DEF CallShape
<1>5. OneHolder /\ Wired /\ Fresh /\ OneConnection
  BY <1>0, <1>1, <1>2 DEF OneHolder, Holds, Wired, Fresh, OneConnection
<1>6. OnWay /\ Returned /\ WellFormed(table)
  BY <1>0, <1>1, <1>2, <1>3, TablesAssumption DEF OnWay, Returned
<1>7. DidShape
  <2>1. did = [c \in Caller |-> did[c]]
    BY <1>0
  <2> QED
    BY <1>2, <2>1 DEF DidShape
<1>8. AdminShape
  BY <1>0 DEF AdminShape
<1>9. Nothing.code = None
  BY DEF Nothing
<1>10. ASSUME NEW c \in Caller
       PROVE  HandlerOK(c)
  BY <1>0, <1>1, <1>2, <1>9, AddrsAssumption DEF HandlerOK, Truthful
<1> QED
  BY <1>4, <1>5, <1>6, <1>7, <1>8, <1>10 DEF AdminInv, DialerInv, ConnShape

\* At most one connection is open: the mutex is held from ensure to the last !done.
LEMMA AdminOneConnection ==
  ASSUME AdminInv
  PROVE  OneConnection
BY DEF AdminInv, DialerInv, ConnShape

\* A command on the connection, or on one that was dropped, is one the handler
\* has issued: an address only after the key.
LEMMA AdminImportInOrder ==
  ASSUME AdminInv
  PROVE  ImportInOrder
<1> SUFFICES ASSUME NEW w \in wire \union late,
                    w.cmd.tbl = "addr", w.cmd.op # "print", job[w.by].key # None
             PROVE  Accepted(w.by, SetKey(job[w.by]))
  BY DEF ImportInOrder, SetKey
<1>1. /\ w.by \in Caller /\ w.cmd \in Cmd
      /\ w \in wire => call[w.by].pc # "idle" /\ w.cmd = call[w.by].cmd
  <2>1. CASE w \in wire
    BY <2>1 DEF AdminInv, DialerInv, ConnShape, Wired, CallShape, CallOK, Attempt
  <2>2. CASE w \notin wire
    BY <2>2 DEF AdminInv, DialerInv, ConnShape, Fresh
  <2> QED
    BY <2>1, <2>2
<1>2. AddressChange(w.cmd)
  BY <1>1, CmdCases DEF AddressChange
<1>3. KeySet(w.by)
  <2>1. CASE w \in wire
    BY <1>1, <1>2, <2>1, AddressAfterKey
  <2>2. CASE w \in late
    BY <1>1, <1>2, <2>2 DEF AdminInv, HandlerOK
  <2> QED
    BY <2>1, <2>2
<1> QED
  BY <1>3 DEF KeySet

\* normalizeIfaceAddress leaves no host mask on an IPv4 address.
LEMMA NormalizedMask ==
  ASSUME NEW a \in Addrs, NEW b, b = NormalizeIfaceAddress(a)
  PROVE  b \in Addrs /\ b.host = a.host /\ (b.six \/ b.mask \notin {0, 32})
<1>1. /\ a # None /\ a = [host |-> a.host, mask |-> a.mask, six |-> a.six] /\ a.six \in BOOLEAN
      /\ b \in Addrs
  BY AddrsAssumption
<1>2. CASE a.six \/ a.mask \notin {0, 32}
  BY <1>1, <1>2 DEF NormalizeIfaceAddress
<1>3. CASE ~(a.six \/ a.mask \notin {0, 32})
  <2>1. b = [a EXCEPT !.mask = 24]
    BY <1>1, <1>3 DEF NormalizeIfaceAddress
  <2>2. b = [host |-> a.host, mask |-> 24, six |-> a.six]
    BY <1>1, <2>1
  <2> QED
    BY <1>1, <2>2
<1> QED
  BY <1>2, <1>3

\* A request that was answered with success had its changes accepted; what was
\* removed stays away, because identifiers are never given out twice.
LEMMA AdminAnswerTruthful ==
  ASSUME AdminInv
  PROVE  AnswerTruthful
<1> SUFFICES ASSUME NEW c \in Caller, answer[c].code = "ok"
             PROVE  LET j == job[c] IN
                      /\ j.kind \in {"add", "update", "delete"} => Accepted(c, First(j))
                      /\ j.kind = "delete" => ~Has(table.peer, j.id)
                      /\ j.kind = "import" =>
                           /\ j.key # None => Accepted(c, Command("set", "iface", 0, j.key))
                           /\ j.val # None => \E a \in Addrs : /\ AddressSet(c, a) /\ a.host = j.val.host
                                                               /\ a.six \/ a.mask \notin {0, 32}
  BY DEF AnswerTruthful
<1> DEFINE j == job[c]
<1>1. HandlerOK(c) /\ Nothing.code = None
  BY DEF AdminInv, Nothing
<1>2. Fits(j)
  BY <1>1, AddrsAssumption DEF HandlerOK
<1>3. /\ j.kind \in {"add", "update", "delete"} => Accepted(c, First(j))
      /\ j.kind = "import" => /\ j.key # None => Accepted(c, SetKey(j))
                              /\ j.val # None => AddressSet(c, NormalizeIfaceAddress(j.val))
  BY <1>1 DEF HandlerOK, Truthful
<1>4. ASSUME j.kind = "delete"
      PROVE  ~Has(table.peer, j.id)
  <2>1. PICK d \in did[c] : d.cmd = First(j)
    BY <1>3, <1>4 DEF Accepted
  <2>2. d.cmd.op = "remove" /\ d.cmd.id = j.id
    BY <1>4, <2>1 DEF First, Command
  <2> QED
    BY <2>2 DEF AdminInv, DialerInv, DidShape, NotedOK
<1>5. ASSUME j.kind = "import", j.val # None
      PROVE  \E a \in Addrs : AddressSet(c, a) /\ a.host = j.val.host /\ (a.six \/ a.mask \notin {0, 32})
  <2>1. j.val \in Addrs
    BY <1>2, <1>5 DEF Fits
  <2> QED
    BY <1>3, <1>5, <2>1, NormalizedMask
<1> QED
  BY <1>3, <1>4, <1>5 DEF SetKey

-----------------------------------------------------------------------------
(* What RouterCall promises: how the steps look with connections left out.  *)

AbsCall(c) ==
  [st |-> IF InCall(c) THEN "called" ELSE call[c].pc, cmd |-> call[c].cmd,
   row |-> IF call[c].pc = "ok" THEN call[c].rows ELSE <<>>]
AbsSeen(c) == IF InCall(c) THEN {d.row : d \in {e \in did[c] : e.cmd = call[c].cmd}} ELSE {}
absCall == [c \in Caller |-> AbsCall(c)]
absSeen == [c \in Caller |-> AbsSeen(c)]
absDue == late \union wire \union UNION {Unsent(c) : c \in Caller}
absVars == <<table, absCall, absSeen, absDue>>

\* The steps of RouterCall in these terms: Lose, Execute, Return, Begin, Leave.
LEMMA LoseStep ==
  ASSUME NEW a, a \in absDue \ absDue', absDue' = absDue \ {a}, UNCHANGED <<table, absCall, absSeen>>
  PROVE  Calls!Next
BY DEF Calls!Next, Calls!Lose, absCall, absSeen, absDue, AbsCall, AbsSeen

\* An attempt that is due takes effect: a step of RouterCall.
LEMMA ExecuteStep ==
  ASSUME NEW a, NEW o, a \in absDue \ absDue', absDue' = absDue \ {a}, o \in Effect(a.cmd, table),
         table' = o.tbl, absCall' = absCall,
         absSeen' = IF o.ok /\ absCall[a.by].st = "called" /\ absCall[a.by].cmd = a.cmd
                    THEN [absSeen EXCEPT ![a.by] = @ \union {o.row}] ELSE absSeen
  PROVE  Calls!Next
BY DEF Calls!Next, Calls!Execute, absCall, absSeen, absDue, AbsCall, AbsSeen

\* A call returns what an attempt of it read or was told, or an error: a step of RouterCall.
LEMMA ReturnStep ==
  ASSUME NEW c \in Caller, NEW ok \in BOOLEAN, NEW row,
         (ok = FALSE /\ row = <<>>) \/ (ok = TRUE /\ row \in absSeen[c]),
         absCall[c].st = "called",
         absCall' = [absCall EXCEPT ![c] = [st |-> IF ok THEN "ok" ELSE "err", cmd |-> @.cmd, row |-> row]],
         absSeen' = [absSeen EXCEPT ![c] = {}],
         absDue' \subseteq absDue, \A a \in absDue \ absDue' : a.by = c /\ a.cmd = absCall[c].cmd,
         table' = table
  PROVE  Calls!Next
BY DEF Calls!Next, Calls!Return, absCall, absSeen, absDue, AbsCall, AbsSeen

\* A call begins, with two attempts due: a step of RouterCall.
LEMMA BeginStep ==
  ASSUME NEW c \in Caller, absCall[c].st # "called", absCall'[c].st = "called",
         absCall'[c].cmd \in Cmd, absCall'[c].row = <<>>,
         absCall' = [absCall EXCEPT ![c] = absCall'[c]],
         absSeen' = [absSeen EXCEPT ![c] = {}],
         absDue' = absDue \union {[by |-> c, cmd |-> absCall'[c].cmd, try |-> n] : n \in 1 .. 2},
         table' = table
  PROVE  Calls!Next
BY DEF Calls!Next, Calls!Begin, Calls!Attempt, absCall, absSeen, absDue, AbsCall, AbsSeen

\* The caller takes the answer: a step of RouterCall.
LEMMA LeaveStep ==
  ASSUME NEW c \in Caller, absCall[c].st \in {"ok", "err"},
         absCall' = [absCall EXCEPT ![c] = [st |-> "idle", cmd |-> None, row |-> <<>>]],
         UNCHANGED <<table, absSeen, absDue>>
  PROVE  Calls!Next
BY DEF Calls!Next, Calls!Leave, absCall, absSeen, absDue, AbsCall, AbsSeen

\* A step that keeps the mapped variables is a stutter of RouterCall.
LEMMA SameAbstract ==
  ASSUME UNCHANGED absVars
  PROVE  UNCHANGED Calls!callVars
BY DEF Calls!callVars, absVars, absCall, absSeen, absDue, AbsCall, AbsSeen

\* At first no call is under way: an initial state of RouterCall.
LEMMA AbstractStart ==
  ASSUME AdminInit
  PROVE  Calls!Init
<1>1. table \in InitTables /\ late = {} /\ wire = {} /\ call = [c \in Caller |-> NoCall]
  BY DEF AdminInit, DialerInit
<1>2. \A c \in Caller : call[c].pc = "idle" /\ call[c].cmd = None
  BY <1>1 DEF NoCall, CallAt
<1>3. \A c \in Caller : AbsCall(c) = [st |-> "idle", cmd |-> None, row |-> <<>>] /\ AbsSeen(c) = {} /\ Unsent(c) = {}
  BY <1>2 DEF AbsCall, AbsSeen, Unsent, InCall
<1>4. /\ absCall = [c \in Caller |-> [st |-> "idle", cmd |-> None, row |-> <<>>]]
      /\ absSeen = [c \in Caller |-> {}] /\ absDue = {}
  BY <1>1, <1>3 DEF absCall, absSeen, absDue
<1> QED
  BY <1>1, <1>4 DEF Calls!Init, absCall, absSeen, absDue, AbsCall, AbsSeen

\* The attempts still to come are numbered from the present one on.
Going(x) == x.pc \in {"lock", "dial", "login", "send", "recv"}
Coming(c, x) ==
  LET first == IF x.pc = "recv" THEN x.try + 1 ELSE x.try
  IN IF Going(x) THEN {[by |-> c, cmd |-> x.cmd, try |-> n] : n \in first .. 2} ELSE {}

\* The attempts a call may still send, by its program counter and its try.
LEMMA ComingAre ==
  ASSUME NEW c, NEW x, CallOK(x)
  PROVE  LET T(n) == [by |-> c, cmd |-> x.cmd, try |-> n] IN
         /\ ~Going(x) => Coming(c, x) = {}
         /\ Going(x) /\ x.pc # "recv" /\ x.try = 1 => Coming(c, x) = {T(1), T(2)}
         /\ Going(x) /\ x.pc # "recv" /\ x.try = 2 => Coming(c, x) = {T(2)}
         /\ x.pc = "recv" /\ x.try = 1 => Coming(c, x) = {T(2)}
         /\ x.pc = "recv" /\ x.try = 2 => Coming(c, x) = {}
<1> DEFINE T(n) == [by |-> c, cmd |-> x.cmd, try |-> n]
<1>1. 1 .. 2 = {1, 2} /\ 2 .. 2 = {2} /\ 3 .. 2 = {} /\ 1 + 1 = 2 /\ 2 + 1 = 3
  OBVIOUS
<1>2. {T(n) : n \in {1, 2}} = {T(1), T(2)} /\ {T(n) : n \in {2}} = {T(2)} /\ {T(n) : n \in {}} = {}
  OBVIOUS
<1>3. Going(x) /\ x.pc # "recv" => Coming(c, x) = {T(n) : n \in x.try .. 2}
  BY DEF Coming
<1>4. x.pc = "recv" => Coming(c, x) = {T(n) : n \in x.try + 1 .. 2}
  BY DEF Coming, Going
<1>5. ~Going(x) => Coming(c, x) = {}
  BY DEF Coming
<1> HIDE DEF T
<1>6. /\ Going(x) /\ x.pc # "recv" /\ x.try = 1 => Coming(c, x) = {T(1), T(2)}
      /\ Going(x) /\ x.pc # "recv" /\ x.try = 2 => Coming(c, x) = {T(2)}
  BY <1>1, <1>2, <1>3
<1>7. /\ x.pc = "recv" /\ x.try = 1 => Coming(c, x) = {T(2)}
      /\ x.pc = "recv" /\ x.try = 2 => Coming(c, x) = {}
  BY <1>1, <1>2, <1>4
<1> QED
  BY <1>5, <1>6, <1>7 DEF T

\* Unsent, the part of the mapping that speaks of one caller, depends on its call only.
LEMMA UnsentComing ==
  ASSUME NEW c \in Caller
  PROVE  Unsent(c) = Coming(c, call[c]) /\ Unsent(c)' = Coming(c, call'[c])
BY DEF Unsent, Coming, Going, InCall

\* A step of c leaves the calls of the others alone.
LEMMA OneCall ==
  ASSUME NEW c \in Caller, \A d \in Caller : d # c => call'[d] = call[d] /\ did'[d] = did[d]
  PROVE  /\ absCall' = [absCall EXCEPT ![c] = AbsCall(c)']
         /\ absSeen' = [absSeen EXCEPT ![c] = AbsSeen(c)']
         /\ \E R : /\ \A a \in R : a.by # c
                   /\ absDue = R \union late \union wire \union Unsent(c)
                   /\ absDue' = R \union late' \union wire' \union Unsent(c)'
<1>1. ASSUME NEW d \in Caller, d # c
      PROVE  AbsCall(d)' = AbsCall(d) /\ AbsSeen(d)' = AbsSeen(d) /\ Unsent(d)' = Unsent(d)
  BY <1>1 DEF AbsCall, AbsSeen, Unsent, InCall
<1>2. absCall' = [absCall EXCEPT ![c] = AbsCall(c)']
  BY <1>1 DEF absCall
<1>3. absSeen' = [absSeen EXCEPT ![c] = AbsSeen(c)']
  BY <1>1 DEF absSeen
<1> DEFINE R == UNION {Unsent(d) : d \in Caller \ {c}}
<1>4. \A a \in R : a.by # c
  BY DEF Unsent
<1>5. absDue = R \union late \union wire \union Unsent(c)
  BY DEF absDue
<1>6. absDue' = R \union late' \union wire' \union Unsent(c)'
  <2>1. UNION {Unsent(d)' : d \in Caller} = R \union Unsent(c)'
    BY <1>1
  <2> QED
    BY <2>1 DEF absDue
<1> QED
  BY <1>2, <1>3, <1>4, <1>5, <1>6

\* A call goes on: at most its present attempt has come to nothing.
LEMMA StaysCalled ==
  ASSUME NEW c \in Caller, InCall(c), NEW pc \in {"dial", "login", "send", "recv"},
         NEW try, NEW rows, Moved(c, pc, try, rows), UNCHANGED <<table, did>>,
         late' \union wire' \union Unsent(c)'
           \in {late \union wire \union Unsent(c), (late \union wire \union Unsent(c)) \ {Attempt(c)}}
  PROVE  Calls!Next \/ UNCHANGED Calls!callVars
<1>1. InCall(c)' /\ call'[c].cmd = call[c].cmd /\ call[c].pc # "ok" /\ call'[c].pc # "ok"
      /\ \A d \in Caller : d # c => call'[d] = call[d]
  BY DEF InCall, Moved
<1>2. AbsCall(c)' = AbsCall(c) /\ AbsSeen(c)' = AbsSeen(c)
  BY <1>1 DEF AbsCall, AbsSeen
<1>3. absCall' = absCall /\ absSeen' = absSeen
  BY <1>1, <1>2, OneCall DEF absCall, absSeen
<1>4. PICK R : /\ \A a \in R : a.by # c
               /\ absDue = R \union late \union wire \union Unsent(c)
               /\ absDue' = R \union late' \union wire' \union Unsent(c)'
  BY <1>1, OneCall
<1>5. Attempt(c) \notin R
  BY <1>4 DEF Attempt
<1>6. absDue' = absDue \/ absDue' = absDue \ {Attempt(c)}
  BY <1>4, <1>5
<1>7. CASE absDue' = absDue
  BY <1>3, <1>7, SameAbstract DEF absVars
<1>8. CASE absDue' # absDue
  BY <1>3, <1>6, <1>8, LoseStep
<1> QED
  BY <1>7, <1>8

\* A call returns; what was not sent is given up.
LEMMA Returns ==
  ASSUME NEW c \in Caller, InCall(c), NEW pc \in {"ok", "err"},
         NEW try, NEW rows, Moved(c, pc, try, rows), UNCHANGED <<table, did>>,
         pc = "ok" => rows \in AbsSeen(c),
         late' \union wire' \subseteq late \union wire,
         \A w \in late \union wire : w \in late' \union wire' \/ w = Attempt(c)
  PROVE  Calls!Next
<1>1. ~InCall(c)' /\ call'[c].cmd = call[c].cmd /\ call'[c].pc = pc /\ call'[c].rows = rows
      /\ \A d \in Caller : d # c => call'[d] = call[d]
  BY DEF InCall, Moved
<1> DEFINE ok == pc = "ok"
           row == IF ok THEN rows ELSE <<>>
<1>2. AbsCall(c).st = "called" /\ AbsCall(c).cmd = call[c].cmd
  BY DEF AbsCall
<1>3. AbsCall(c)' = [st |-> IF ok THEN "ok" ELSE "err", cmd |-> call[c].cmd, row |-> row]
  BY <1>1 DEF AbsCall
<1>4. AbsSeen(c)' = {} /\ Unsent(c)' = {}
  BY <1>1 DEF AbsSeen, Unsent, InCall
<1>5. /\ absCall[c] = AbsCall(c) /\ absSeen[c] = AbsSeen(c)
      /\ absCall' = [absCall EXCEPT ![c] = AbsCall(c)'] /\ absSeen' = [absSeen EXCEPT ![c] = {}]
  BY <1>1, <1>4, OneCall DEF absCall, absSeen
<1>6. PICK R : /\ absDue = R \union late \union wire \union Unsent(c)
               /\ absDue' = R \union late' \union wire' \union Unsent(c)'
  BY <1>1, OneCall
<1>7. absDue' \subseteq absDue
  BY <1>4, <1>6
<1>8. \A a \in absDue \ absDue' : a = Attempt(c) \/ a \in Unsent(c)
  BY <1>6
<1>9. \A a \in absDue \ absDue' : a.by = c /\ a.cmd = absCall[c].cmd
  BY <1>2, <1>5, <1>8 DEF Attempt, Unsent
<1>10. absCall' = [absCall EXCEPT ![c] = [st |-> IF ok THEN "ok" ELSE "err", cmd |-> @.cmd, row |-> row]]
  BY <1>2, <1>3, <1>5
<1>11. (ok = FALSE /\ row = <<>>) \/ (ok = TRUE /\ row \in absSeen[c])
  BY <1>5
<1>12. ok \in BOOLEAN /\ absCall[c].st = "called" /\ table' = table
  BY <1>2, <1>5
<1> HIDE DEF ok, row
<1> QED
  BY <1>5, <1>7, <1>9, <1>10, <1>11, <1>12, ReturnStep

\* Before its command is sent, nothing of a call is on the connection; later
\* its present attempt is, and it is not among the late ones.
LEMMA OwnAttempt ==
  ASSUME DialerInv, NEW c \in Caller, Holds(c)
  PROVE  /\ InCall(c) /\ CallOK(call[c]) /\ Going(call[c]) /\ call[c].try \in {1, 2}
         /\ Attempt(c) \notin late
         /\ wire \subseteq {Attempt(c)}
         /\ call[c].pc # "recv" => wire = {}
<1>1. InCall(c) /\ CallOK(call[c]) /\ Going(call[c]) /\ call[c].try \in {1, 2}
  BY DEF DialerInv, ConnShape, CallShape, CallOK, Holds, InCall, Going
<1>2. Attempt(c) \notin late
  BY <1>1 DEF DialerInv, ConnShape, Fresh, Attempt
<1>3. \A d \in Caller : call[d].pc = "recv" => d = c
  BY DEF DialerInv, ConnShape, OneHolder, Holds
<1>4. wire # {} => call[c].pc = "recv" /\ wire \subseteq {Attempt(c)}
  BY <1>3 DEF DialerInv, ConnShape, Wired
<1> QED
  BY <1>1, <1>2, <1>4

\* An attempt has failed.
LEMMA AgainImplements ==
  ASSUME DialerInv, NEW c \in Caller, Holds(c), MovedAgain(c), UNCHANGED <<table, did>>,
         wire' = {}, late' = late \union {w \in wire : Changing(w)}
  PROVE  Calls!Next \/ UNCHANGED Calls!callVars
<1>1. /\ InCall(c) /\ CallOK(call[c]) /\ Going(call[c]) /\ call[c].try \in {1, 2}
      /\ Attempt(c) \notin late
      /\ wire \subseteq {Attempt(c)}
      /\ call[c].pc # "recv" => wire = {}
  BY OwnAttempt
<1> DEFINE T(n) == [by |-> c, cmd |-> call[c].cmd, try |-> n]
<1>2. T(1) # T(2)
  <2>1. T(1).try = 1 /\ T(2).try = 2
    OBVIOUS
  <2> QED
    BY <2>1
<1>3. CASE call[c].try = 1
  <2>1. Moved(c, "dial", 2, <<>>)
    BY <1>3 DEF MovedAgain
  <2>2. CallOK(call'[c]) /\ Going(call'[c]) /\ call'[c].pc = "dial" /\ call'[c].try = 2 /\ call'[c].cmd = call[c].cmd
    BY <2>1 DEF Moved, CallShape, Going
  <2>3. Unsent(c)' = {T(2)}
    BY <2>2, UnsentComing, ComingAre
  <2>4. Unsent(c) = IF call[c].pc = "recv" THEN {T(2)} ELSE {T(1), T(2)}
    BY <1>1, <1>3, UnsentComing, ComingAre
  <2>5. Attempt(c) = T(1)
    BY <1>3 DEF Attempt
  <2> HIDE DEF T
  <2>6. late' \union wire' \union Unsent(c)'
          \in {late \union wire \union Unsent(c), (late \union wire \union Unsent(c)) \ {Attempt(c)}}
    <3>1. CASE call[c].pc = "recv"
      <4>1. Unsent(c) = {T(2)}
        BY <2>4, <3>1
      <4>2. CASE late' = late \union wire
        BY <2>3, <4>1, <4>2
      <4>3. CASE late' = late
        <5>1. CASE wire = {}
          BY <2>3, <4>1, <4>3, <5>1
        <5>2. CASE wire = {T(1)}
          BY <1>1, <1>2, <2>3, <2>5, <4>1, <4>3, <5>2
        <5> QED
          BY <1>1, <2>5, <5>1, <5>2
      <4>4. late' = late \/ late' = late \union wire
        BY <1>1
      <4> QED
        BY <4>2, <4>3, <4>4
    <3>2. CASE call[c].pc # "recv"
      BY <1>1, <1>2, <2>3, <2>4, <2>5, <3>2
    <3> QED
      BY <3>1, <3>2
  <2> QED
    BY <1>1, <2>1, <2>6, StaysCalled
<1>4. CASE call[c].try = 2
  <2>1. Moved(c, "err", 2, <<>>)
    BY <1>4 DEF MovedAgain
  <2>2. late' \union wire' \subseteq late \union wire /\ \A w \in late \union wire : w \in late' \union wire' \/ w = Attempt(c)
    BY <1>1
  <2> QED
    BY <1>1, <2>1, <2>2, Returns
<1> QED
  BY <1>1, <1>3, <1>4

\* Every step inside Dialer.Call is a step of RouterCall or a stutter.
LEMMA CallStepImplements ==
  ASSUME DialerInv, NEW c \in Caller, CallStep(c)
  PROVE  Calls!Next \/ UNCHANGED Calls!callVars
<1>0. CallShape
  BY DEF DialerInv, ConnShape
<1>1. ASSUME NEW pc \in {"dial", "login", "send", "recv"}, NEW rows, Moved(c, pc, call[c].try, rows),
             InCall(c), pc = "recv" <=> call[c].pc = "recv", UNCHANGED <<table, did, late, wire>>
      PROVE  Calls!Next \/ UNCHANGED Calls!callVars
  <2>1. Unsent(c)' = Unsent(c)
    BY <1>1 DEF Unsent, InCall, Moved
  <2>2. late' \union wire' \union Unsent(c)' = late \union wire \union Unsent(c)
    BY <1>1, <2>1
  <2> QED
    BY <1>1, <2>2, StaysCalled
<1>2. CASE Drop /\ Again(c) /\ call[c].pc \in {"send", "recv"} /\ UNCHANGED <<table, did>>
  <2>1. MovedAgain(c)
    BY <1>0, <1>2, AgainMoves
  <2> QED
    BY <1>2, <2>1, AgainImplements DEF Drop, Holds
<1>3. CASE Lock(c)
  <2> DEFINE pc == IF conn = "none" THEN "dial" ELSE "send"
  <2>1. call[c].pc = "lock" /\ call' = [call EXCEPT ![c].pc = pc] /\ pc \in Pcs \ {"idle"}
        /\ UNCHANGED <<table, did, late, wire>>
    BY <1>3 DEF Lock, Pcs
  <2>2. Moved(c, pc, call[c].try, call[c].rows)
    BY <1>0, <2>1, MovedPc
  <2> QED
    BY <1>1, <2>1, <2>2 DEF InCall
<1>4. ASSUME NEW ok \in BOOLEAN, Connect(c, ok) \/ Login(c, ok)
      PROVE  Calls!Next \/ UNCHANGED Calls!callVars
  <2>1. call[c].pc \in {"dial", "login"} /\ UNCHANGED <<table, did, late, wire>>
    BY <1>4 DEF Connect, Login
  <2>2. \/ call' = [call EXCEPT ![c].pc = "login"]
        \/ call' = [call EXCEPT ![c].pc = "send"]
        \/ Again(c)
    BY <1>4 DEF Connect, Login
  <2>3. CASE call' = [call EXCEPT ![c].pc = "login"]
    <3>1. Moved(c, "login", call[c].try, call[c].rows)
      BY <1>0, <2>1, <2>3, MovedPc DEF Pcs
    <3> QED
      BY <1>1, <2>1, <3>1 DEF InCall
  <2>4. CASE call' = [call EXCEPT ![c].pc = "send"]
    <3>1. Moved(c, "send", call[c].try, call[c].rows)
      BY <1>0, <2>1, <2>4, MovedPc DEF Pcs
    <3> QED
      BY <1>1, <2>1, <3>1 DEF InCall
  <2>5. CASE Again(c)
    <3>1. MovedAgain(c) /\ Holds(c)
      BY <1>0, <2>1, <2>5, AgainMoves DEF Holds
    <3>2. wire = {}
      BY <2>1, <3>1, OwnAttempt
    <3> QED
      BY <2>1, <3>1, <3>2, AgainImplements
  <2> QED
    BY <2>2, <2>3, <2>4, <2>5
<1>5. CASE Send(c)
  <2>1. /\ call[c].pc = "send" /\ call' = [call EXCEPT ![c].pc = "recv"] /\ "recv" \in Pcs \ {"idle"}
        /\ wire' \in {{Attempt(c)}, {}} /\ UNCHANGED <<table, did, late>>
    BY <1>5 DEF Send, Pcs, Attempt
  <2>2. Moved(c, "recv", call[c].try, call[c].rows)
    BY <1>0, <2>1, MovedPc
  <2>3. CallOK(call'[c]) /\ call'[c].pc = "recv" /\ call'[c].try = call[c].try /\ call'[c].cmd = call[c].cmd
    BY <2>2 DEF Moved, CallShape
  <2>4. /\ InCall(c) /\ CallOK(call[c]) /\ Going(call[c]) /\ call[c].try \in {1, 2}
        /\ Attempt(c) \notin late /\ wire = {}
    BY <2>1, OwnAttempt DEF Holds
  <2> DEFINE T(n) == [by |-> c, cmd |-> call[c].cmd, try |-> n]
  <2>5. T(1) # T(2) /\ Attempt(c) = T(call[c].try)
    <3>1. T(1).try = 1 /\ T(2).try = 2
      OBVIOUS
    <3> QED
      BY <3>1 DEF Attempt
  <2>6. Unsent(c) = (IF call[c].try = 1 THEN {T(1), T(2)} ELSE {T(2)})
    BY <2>1, <2>4, UnsentComing, ComingAre
  <2>7. Unsent(c)' = (IF call[c].try = 1 THEN {T(2)} ELSE {})
    BY <2>3, <2>4, UnsentComing, ComingAre
  <2> HIDE DEF T
  <2>8. Unsent(c) = Unsent(c)' \union {Attempt(c)} /\ Attempt(c) \notin Unsent(c)'
    BY <2>4, <2>5, <2>6, <2>7
  <2>9. late' \union wire' \union Unsent(c)'
          \in {late \union wire \union Unsent(c), (late \union wire \union Unsent(c)) \ {Attempt(c)}}
    <3>1. CASE wire' = {}
      BY <2>1, <2>4, <2>8, <3>1
    <3>2. CASE wire' = {Attempt(c)}
      BY <2>1, <2>4, <2>8, <3>2
    <3> QED
      BY <2>1, <3>1, <3>2
  <2> QED
    BY <2>1, <2>2, <2>4, <2>9, StaysCalled
<1>6. CASE Recv(c)
  <2>1. call[c].pc = "recv" /\ UNCHANGED <<table, did>> /\ InCall(c)
    BY <1>6 DEF Recv, InCall
  <2>2. CASE Drop /\ Again(c)
    BY <1>2, <2>1, <2>2
  <2>3. CASE UNCHANGED <<wire, late>> /\ \E rows : Moved(c, "recv", call[c].try, rows)
    BY <1>1, <2>1, <2>3
  <2>4. CASE UNCHANGED <<wire, late>> /\ \E d \in did[c] : d.cmd = call[c].cmd /\ Moved(c, "ok", call[c].try, d.row)
    <3>1. PICK d \in did[c] : d.cmd = call[c].cmd /\ Moved(c, "ok", call[c].try, d.row)
      BY <2>4
    <3>2. d.row \in AbsSeen(c)
      BY <2>1, <3>1 DEF AbsSeen
    <3> QED
      BY <2>1, <2>4, <3>1, <3>2, Returns
  <2> QED
    BY <1>6, <2>2, <2>3, <2>4, RecvReads
<1>7. CASE Break(c)
  BY <1>2, <1>7 DEF Break
<1> QED
  BY <1>3, <1>4, <1>5, <1>6, <1>7 DEF CallStep

\* The router executes an attempt.
LEMMA ExecutionImplements ==
  ASSUME DialerInv, NEW w \in late \union wire, w.by \in Caller, NEW o \in Effect(w.cmd, table),
         table' = o.tbl, did' = Noted(w, o), call' = call,
         late' \union wire' = (late \union wire) \ {w},
         \A c \in Caller : w \notin Unsent(c)
  PROVE  Calls!Next
<1> DEFINE d == [cmd |-> w.cmd, row |-> o.row]
<1>1. absCall' = absCall /\ \A c \in Caller : Unsent(c)' = Unsent(c) /\ (InCall(c)' <=> InCall(c))
  BY DEF absCall, AbsCall, Unsent, InCall
<1>2. w \in absDue /\ absDue' = absDue \ {w}
  <2>1. UNION {Unsent(c)' : c \in Caller} = UNION {Unsent(c) : c \in Caller}
    BY <1>1
  <2>2. w \notin UNION {Unsent(c) : c \in Caller}
    OBVIOUS
  <2> QED
    BY <2>1, <2>2 DEF absDue
<1>3. /\ absCall[w.by].cmd = call[w.by].cmd
      /\ absCall[w.by].st = "called" <=> InCall(w.by)
  BY DEF absCall, AbsCall, DialerInv, ConnShape, CallShape, CallOK, Pcs
<1>4. InCall(w.by) <=> call[w.by].pc \notin {"idle", "ok", "err"}
  BY DEF DialerInv, ConnShape, CallShape, CallOK, Pcs, InCall
<1>5. did = [c \in Caller |-> did[c]]
  BY DEF DialerInv, DidShape
<1>6. CASE o.ok /\ InCall(w.by)
  <2>1. did' = [did EXCEPT ![w.by] = did[w.by] \union {d}]
    BY <1>4, <1>6 DEF Noted
  <2>2. did'[w.by] = did[w.by] \union {d} /\ \A c \in Caller : c # w.by => did'[c] = did[c]
    BY <1>5, <2>1
  <2>3. \A c \in Caller : c # w.by => AbsSeen(c)' = AbsSeen(c)
    BY <1>1, <2>2 DEF AbsSeen
  <2>4. d.cmd = w.cmd /\ d.row = o.row
    OBVIOUS
  <2> HIDE DEF d
  <2>5. CASE w.cmd = call[w.by].cmd
    <3>1. AbsSeen(w.by)' = AbsSeen(w.by) \union {o.row}
      BY <1>1, <1>6, <2>2, <2>4, <2>5 DEF AbsSeen
    <3>2. absSeen' = [absSeen EXCEPT ![w.by] = @ \union {o.row}]
      BY <2>3, <3>1 DEF absSeen
    <3> QED
      BY <1>1, <1>2, <1>3, <1>6, <2>5, <3>2, ExecuteStep
  <2>6. CASE w.cmd # call[w.by].cmd
    <3>1. AbsSeen(w.by)' = AbsSeen(w.by)
      BY <1>1, <1>6, <2>2, <2>4, <2>6 DEF AbsSeen
    <3>2. absSeen' = absSeen
      BY <2>3, <3>1 DEF absSeen
    <3> QED
      BY <1>1, <1>2, <1>3, <2>6, <3>2, ExecuteStep
  <2> QED
    BY <2>5, <2>6
<1>7. CASE ~(o.ok /\ InCall(w.by))
  <2>1. did' = did
    BY <1>4, <1>7 DEF Noted
  <2>2. absSeen' = absSeen
    BY <1>1, <2>1 DEF absSeen, AbsSeen
  <2> QED
    BY <1>1, <1>2, <1>3, <1>7, <2>2, ExecuteStep
<1> QED
  BY <1>6, <1>7

\* So is everything the router does, a late execution and a lost connection included.
LEMMA RouterStepImplements ==
  ASSUME DialerInv, RouterStep
  PROVE  Calls!Next \/ UNCHANGED Calls!callVars
<1>0. \A c \in Caller : CallOK(call[c])
  BY DEF DialerInv, ConnShape, CallShape
<1>1. ASSUME NEW w \in wire
      PROVE  /\ w.by \in Caller /\ w \notin late /\ wire = {w}
             /\ \A c \in Caller : w \notin Unsent(c)
  <2>1. PICK c \in Caller : call[c].pc = "recv" /\ w = Attempt(c) /\ wire \subseteq {Attempt(c)}
    BY <1>1 DEF DialerInv, ConnShape, Wired
  <2>2. w.by = c /\ w \notin late /\ wire = {w}
    BY <1>1, <2>1, OwnAttempt DEF Holds, Attempt
  <2>3. \A d \in Caller : \A a \in Unsent(d) : a.by = d
    BY DEF Unsent
  <2>4. w \notin Unsent(c)
    <3>1. call[c].try \in {1, 2}
      BY <2>1, OwnAttempt DEF Holds
    <3>2. \A a \in Unsent(c) : a.try \in call[c].try + 1 .. 2
      BY <2>1 DEF Unsent
    <3> QED
      BY <2>1, <3>1, <3>2 DEF Attempt
  <2> QED
    BY <2>2, <2>3, <2>4
<1>2. ASSUME NEW w \in wire, NEW o \in Effect(w.cmd, table), Execute(w, o)
      PROVE  Calls!Next
  <2>1. table' = o.tbl /\ did' = Noted(w, o) /\ wire' = {} /\ UNCHANGED <<late, call>>
    BY <1>2 DEF Execute
  <2>2. late' \union wire' = (late \union wire) \ {w}
    BY <1>1, <2>1
  <2> QED
    BY <1>1, <2>1, <2>2, ExecutionImplements
<1>3. ASSUME NEW w \in late, NEW o \in Effect(w.cmd, table), ExecuteLate(w, o)
      PROVE  Calls!Next
  <2>1. table' = o.tbl /\ did' = Noted(w, o) /\ late' = late \ {w} /\ UNCHANGED <<wire, call>>
    BY <1>3 DEF ExecuteLate
  <2>2. /\ w.by \in Caller /\ w.try \in {1, 2}
        /\ InCall(w.by) /\ w.cmd = call[w.by].cmd => w.try < call[w.by].try
    BY DEF DialerInv, ConnShape, Fresh
  <2>3. w \notin wire
    BY <1>1
  <2>4. \A c \in Caller : w \notin Unsent(c)
    <3> SUFFICES ASSUME NEW c \in Caller, w \in Unsent(c) PROVE FALSE
      OBVIOUS
    <3>1. /\ w.by = c /\ InCall(c) /\ w.cmd = call[c].cmd
          /\ w.try \in call[c].try .. 2 \/ w.try \in call[c].try + 1 .. 2
      BY DEF Unsent
    <3>2. call[c].try \in {1, 2}
      BY <1>0, <3>1 DEF CallOK, InCall
    <3> QED
      BY <2>2, <3>1, <3>2
  <2>5. late' \union wire' = (late \union wire) \ {w}
    BY <2>1, <2>3
  <2> QED
    BY <2>1, <2>2, <2>4, <2>5, ExecutionImplements
<1>4. CASE RouterCloses
  <2>1. wire' = {} /\ UNCHANGED <<table, late, call, did>>
    BY <1>4 DEF RouterCloses
  <2>2. absCall' = absCall /\ absSeen' = absSeen /\ \A c \in Caller : Unsent(c)' = Unsent(c)
    BY <2>1 DEF absCall, absSeen, AbsCall, AbsSeen, Unsent, InCall
  <2>3. UNION {Unsent(c)' : c \in Caller} = UNION {Unsent(c) : c \in Caller}
    BY <2>2
  <2>4. CASE wire = {}
    <3>1. absDue' = absDue
      BY <2>1, <2>3, <2>4 DEF absDue
    <3> QED
      BY <2>1, <2>2, <3>1, SameAbstract DEF absVars
  <2>5. CASE wire # {}
    <3>1. PICK w : w \in wire
      BY <2>5
    <3>2. wire = {w} /\ w \notin late /\ w \notin UNION {Unsent(c) : c \in Caller}
      BY <1>1, <3>1
    <3>3. w \in absDue \ absDue' /\ absDue' = absDue \ {w}
      BY <2>1, <2>3, <3>1, <3>2 DEF absDue
    <3> QED
      BY <2>1, <2>2, <3>3, LoseStep
  <2> QED
    BY <2>4, <2>5
<1> QED
  BY <1>2, <1>3, <1>4 DEF RouterStep

\* A handler asks for more, or is done with its call.
LEMMA PerformImplements ==
  ASSUME DialerInv, NEW c \in Caller, ~InCall(c), NEW s, Perform(c, s), s.do \in {"call", "answer"},
         s.do = "call" => s.cmd \in Cmd /\ \A d \in did[c] : d.cmd # s.cmd
  PROVE  Calls!Next \/ UNCHANGED Calls!callVars
<1> DEFINE x == IF s.do = "call" THEN Calling(s.cmd) ELSE NoCall
<1>1. /\ call' = [call EXCEPT ![c] = x]
      /\ did' = [did EXCEPT ![c] = {d \in @ : Changing(d)}]
      /\ UNCHANGED <<table, wire, late>>
  BY DEF Perform
<1>2. /\ s.do = "call" => x.pc = "lock" /\ x.cmd = s.cmd /\ x.try = 1 /\ x.rows = <<>>
      /\ s.do = "answer" => x = NoCall
      /\ NoCall.pc = "idle" /\ NoCall.cmd = None
  BY DEF Calling, NoCall, CallAt
<1> HIDE DEF x
<1>3. /\ call = [d \in Caller |-> call[d]] /\ did = [d \in Caller |-> did[d]]
      /\ call[c].pc \in {"idle", "ok", "err"} /\ (call[c].pc = "idle" => call[c] = NoCall)
  BY DEF DialerInv, ConnShape, CallShape, CallOK, DidShape, InCall, Pcs
<1>4. /\ call'[c] = x /\ did'[c] \subseteq did[c]
      /\ \A d \in Caller : d # c => call'[d] = call[d] /\ did'[d] = did[d]
  BY <1>1, <1>3
<1>5. /\ absCall' = [absCall EXCEPT ![c] = AbsCall(c)'] /\ absSeen' = [absSeen EXCEPT ![c] = AbsSeen(c)']
      /\ absCall[c] = AbsCall(c) /\ absSeen[c] = {}
      /\ absCall' = [d \in Caller |-> absCall'[d]] /\ absCall = [d \in Caller |-> absCall[d]]
      /\ absSeen = [d \in Caller |-> absSeen[d]]
  BY <1>4, OneCall DEF absCall, absSeen, AbsSeen
<1>6. PICK R : absDue = R \union late \union wire \union Unsent(c) /\ absDue' = R \union late' \union wire' \union Unsent(c)'
  BY <1>4, OneCall
<1>7. Unsent(c) = {}
  BY DEF Unsent
<1>8. absCall[c].st = call[c].pc
  BY <1>5 DEF AbsCall
<1>9. CASE s.do = "call"
  <2>1. InCall(c)' /\ call'[c].cmd = s.cmd /\ call'[c].pc = "lock"
    BY <1>2, <1>4, <1>9 DEF InCall
  <2>2. AbsSeen(c)' = {}
    BY <1>4, <1>9, <2>1 DEF AbsSeen
  <2>3. AbsCall(c)' = [st |-> "called", cmd |-> s.cmd, row |-> <<>>]
    BY <2>1 DEF AbsCall
  <2>4. Unsent(c)' = {[by |-> c, cmd |-> s.cmd, try |-> n] : n \in 1 .. 2}
    BY <1>2, <1>4, <1>9, <2>1 DEF Unsent
  <2>5. absCall'[c] = AbsCall(c)'
    BY <1>5
  <2>6. /\ absCall[c].st # "called" /\ absCall'[c].st = "called"
        /\ absCall'[c].cmd = s.cmd /\ absCall'[c].row = <<>> /\ s.cmd \in Cmd
    BY <1>3, <1>8, <1>9, <2>3, <2>5
  <2>7. absCall' = [absCall EXCEPT ![c] = absCall'[c]] /\ absSeen' = [absSeen EXCEPT ![c] = {}]
    BY <1>5, <2>2, <2>5
  <2>8. absDue' = absDue \union {[by |-> c, cmd |-> absCall'[c].cmd, try |-> n] : n \in 1 .. 2}
    BY <1>1, <1>6, <1>7, <2>4, <2>6
  <2> QED
    BY <1>1, <2>6, <2>7, <2>8, BeginStep
<1>10. CASE s.do = "answer"
  <2>1. AbsCall(c)' = [st |-> "idle", cmd |-> None, row |-> <<>>] /\ AbsSeen(c)' = {} /\ Unsent(c)' = {}
    BY <1>2, <1>4, <1>10 DEF AbsCall, AbsSeen, Unsent, InCall
  <2>2. absSeen' = absSeen /\ absDue' = absDue
    BY <1>1, <1>5, <1>6, <1>7, <2>1
  <2>3. CASE call[c].pc = "idle"
    <3>1. AbsCall(c) = AbsCall(c)'
      BY <1>2, <1>3, <1>4, <1>10, <2>3 DEF AbsCall, InCall
    <3>2. absCall' = absCall
      BY <1>5, <3>1
    <3> QED
      BY <1>1, <2>2, <3>2, SameAbstract DEF absVars
  <2>4. CASE call[c].pc \in {"ok", "err"}
    BY <1>1, <1>5, <1>8, <2>1, <2>2, <2>4, LeaveStep
  <2> QED
    BY <1>3, <2>3, <2>4
<1> QED
  BY <1>9, <1>10

\* A handler begins.
LEMMA StartImplements ==
  ASSUME AdminInv, NEW c \in Caller, NEW j, Fits(j), NEW configured \in BOOLEAN, Start(c, j, configured)
  PROVE  Calls!Next \/ UNCHANGED Calls!callVars
<1> DEFINE s == IF configured THEN Issue(First(j)) ELSE Give("err", <<>>)
<1>1. job[c] = None /\ Perform(c, s)
  BY DEF Start
<1>2. ~InCall(c) /\ did[c] = {} /\ DialerInv
  BY <1>1 DEF AdminInv, HandlerOK, InCall
<1>3. (s.do = "call" /\ s.cmd = First(j)) \/ s.do = "answer"
  BY GiveIssue
<1> HIDE DEF s
<1>4. First(j) \in Cmd
  BY DEF Fits
<1> QED
  BY <1>1, <1>2, <1>3, <1>4, PerformImplements

\* A handler goes on, always to a command it has not issued before.
LEMMA ResumeImplements ==
  ASSUME AdminInv, NEW c \in Caller, Resume(c)
  PROVE  Calls!Next \/ UNCHANGED Calls!callVars
<1> DEFINE s == IF call[c].pc = "ok" THEN Following(job[c], call[c].cmd, call[c].rows)
                ELSE FollowingError(job[c], call[c].cmd)
<1>1. call[c].pc \in {"ok", "err"} /\ Perform(c, s)
  BY DEF Resume
<1>2. \/ s.do = "call" /\ Onwards(job[c], call[c].cmd, s)
      \/ s.do = "answer"
  BY <1>1, ResumeGoesOn
<1> HIDE DEF s
<1>3. HandlerOK(c) /\ DialerInv /\ ~InCall(c) /\ call[c].pc # "idle"
  BY <1>1 DEF AdminInv, InCall
<1>4. ASSUME s.do = "call", NEW d \in did[c]
      PROVE  d.cmd # s.cmd
  <2>1. Rank(call[c].cmd) < Rank(s.cmd)
    BY <1>2, <1>4 DEF Onwards
  <2>2. d.cmd = call[c].cmd \/ Rank(d.cmd) < Rank(call[c].cmd)
    BY <1>3 DEF HandlerOK, Past
  <2>3. \A m : Rank(m) \in 1 .. 4
    BY DEF Rank
  <2>4. PICK a \in 1 .. 4, b \in 1 .. 4, e \in 1 .. 4 : a = Rank(d.cmd) /\ b = Rank(call[c].cmd) /\ e = Rank(s.cmd)
    BY <2>3
  <2>5. Rank(d.cmd) < Rank(s.cmd)
    BY <2>1, <2>2, <2>4
  <2> QED
    BY <2>4, <2>5
<1>5. s.do = "call" => s.cmd \in Cmd
  BY <1>2 DEF Onwards
<1> QED
  BY <1>1, <1>2, <1>3, <1>4, <1>5, PerformImplements
=============================================================================
