----------------------------- MODULE WireProofs -----------------------------
(* Proofs about Wire, for any senders, lengths below 2^31, client frames   *)
(* and cut writes.                                                         *)
EXTENDS Wire, SequenceTheorems, TLAPS

----------------------------------------------------------------------------
(* Lengths and octets.                                                     *)

Sizes == {n \in Nat : n <= 2147483647}
Bytes == 0..255

\* The value of four octets.
Value(a, b, c, d) == d + Weight[2] * c + Weight[3] * b + Weight[4] * a

\* The weights as numbers.
LEMMA Weights ==
    Weight[1] = 1 /\ Weight[2] = 256 /\ Weight[3] = 65536 /\ Weight[4] = 16777216
  BY SMT DEF Weight

\* The octets of the number with octets a to d are a to d.
LEMMA OctetsOfValue ==
    ASSUME NEW a \in 0..127, NEW b \in Bytes, NEW c \in Bytes, NEW d \in Bytes
    PROVE  /\ Value(a, b, c, d) \in Sizes
           /\ Octet(Value(a, b, c, d), 0) = d /\ Octet(Value(a, b, c, d), 1) = c
           /\ Octet(Value(a, b, c, d), 2) = b /\ Octet(Value(a, b, c, d), 3) = a
  <1>0. PICK n : n = Value(a, b, c, d)
    OBVIOUS
  <1>1. n = d + 256 * c + 65536 * b + 16777216 * a /\ n \in Nat /\ n <= 2147483647
    BY <1>0, Weights, SMT DEF Value, Bytes
  <1>2. PICK p, q \in Nat : p = c + 256 * b + 65536 * a /\ q = b + 256 * a
    BY SMT DEF Bytes
  <1>3. n = 256 * p + d /\ p = 256 * q + c /\ q = 256 * a + b
    BY <1>1, <1>2, SMT DEF Bytes
  <1>4. /\ n % 256 = d /\ n \div 256 = p /\ p % 256 = c /\ p \div 256 = q
        /\ q % 256 = b /\ q \div 256 = a /\ a % 256 = a
    BY <1>1, <1>2, <1>3, SMT DEF Bytes
  <1>5. n \div 65536 = (n \div 256) \div 256 /\ n \div 1 = n
    BY <1>1, SMT
  <1>6. n \div 16777216 = (n \div 65536) \div 256
    BY <1>1, SMT
  <1>7. /\ Octet(n, 0) = (n \div 1) % 256 /\ Octet(n, 1) = (n \div 256) % 256
        /\ Octet(n, 2) = (n \div 65536) % 256 /\ Octet(n, 3) = (n \div 16777216) % 256
    BY Weights, SMT DEF Octet
  <1>8. n \in Sizes
    BY <1>1, SMT DEF Sizes
  <1> QED BY <1>0, <1>4, <1>5, <1>6, <1>7, <1>8, SMT

\* A length below 2^31 is the number of its octets.
LEMMA ValueOfOctets ==
    ASSUME NEW n \in Sizes
    PROVE  /\ Octet(n, 0) \in Bytes /\ Octet(n, 1) \in Bytes /\ Octet(n, 2) \in Bytes
           /\ Octet(n, 3) \in 0..127
           /\ n = Value(Octet(n, 3), Octet(n, 2), Octet(n, 1), Octet(n, 0))
           /\ n <= 65535 => Octet(n, 2) = 0 /\ Octet(n, 3) = 0
  <1>0. n \in Nat /\ n <= 2147483647
    BY SMT DEF Sizes
  <1>1. PICK p, q, a \in Nat : p = n \div 256 /\ q = p \div 256 /\ a = q \div 256
    BY <1>0, SMT
  <1>2. PICK d, c, b \in Nat : d = n % 256 /\ c = p % 256 /\ b = q % 256
    BY <1>0, <1>1, SMT
  <1>3. /\ d \in 0..255 /\ c \in 0..255 /\ b \in 0..255
        /\ n = 256 * p + d /\ p = 256 * q + c /\ q = 256 * a + b
    BY <1>0, <1>1, <1>2, SMT
  <1>4. a \in 0..127 /\ a % 256 = a
    BY <1>0, <1>3, SMT
  <1>5. n \div 65536 = q /\ n \div 1 = n
    BY <1>0, <1>1, SMT
  <1>6. n \div 16777216 = a
    BY <1>0, <1>1, SMT
  <1>7. Octet(n, 0) = d /\ Octet(n, 1) = c /\ Octet(n, 2) = b /\ Octet(n, 3) = a
    <2>1. /\ Octet(n, 0) = (n \div 1) % 256 /\ Octet(n, 1) = (n \div 256) % 256
          /\ Octet(n, 2) = (n \div 65536) % 256 /\ Octet(n, 3) = (n \div 16777216) % 256
      BY Weights, SMT DEF Octet
    <2> QED BY <1>1, <1>2, <1>4, <1>5, <1>6, <2>1, SMT
  <1>8. n = d + 256 * c + 65536 * b + 16777216 * a
    BY <1>3, <1>4, SMT
  <1>9. n <= 65535 => a = 0 /\ b = 0
    BY <1>3, <1>4, <1>8, SMT
  <1>10. Value(a, b, c, d) = d + 256 * c + 65536 * b + 16777216 * a
    BY Weights, SMT DEF Value
  <1> QED BY <1>3, <1>4, <1>7, <1>8, <1>9, <1>10, SMT DEF Bytes

\* What Number reads from eight octets of a length below 2^31, or from two.
LEMMA NumberOfOctets ==
    /\ \A e \in [1..8 -> Bytes] : Number(e) = Value(e[5], e[6], e[7], e[8])
    /\ \A e \in [1..2 -> Bytes] : Number(e) = Value(0, 0, e[1], e[2])
  <1>1. ASSUME NEW e \in [1..8 -> Bytes]
        PROVE  Number(e) = Value(e[5], e[6], e[7], e[8])
    <2>1. Len(e) = 8
      BY SMT
    <2> QED BY <2>1, SMT DEF Number, Value
  <1>2. ASSUME NEW e \in [1..2 -> Bytes]
        PROVE  Number(e) = Value(0, 0, e[1], e[2])
    <2>1. Len(e) = 2
      BY SMT
    <2> QED BY <2>1, Weights, SMT DEF Number, Value
  <1> QED BY <1>1, <1>2

\* A length below 2^31 is spelled by one sequence of eight octets.
LEMMA EightOctets ==
    ASSUME NEW e \in [1..8 -> Bytes], NEW n,
           n = Value(e[5], e[6], e[7], e[8]), e[5] \in 0..127,
           \A i \in 1..4 : e[i] = 0
    PROVE  n \in Sizes /\ BigEndian(n, 8) = e
  <1>1. e[6] \in Bytes /\ e[7] \in Bytes /\ e[8] \in Bytes
    BY SMT
  <1>2. /\ n \in Sizes
        /\ Octet(n, 0) = e[8] /\ Octet(n, 1) = e[7] /\ Octet(n, 2) = e[6] /\ Octet(n, 3) = e[5]
    BY <1>1, OctetsOfValue, SMT
  <1>3. \A j \in 4..7 : Octet(n, j) = 0
    BY SMT DEF Octet
  <1>4. \A i \in 1..8 : Octet(n, 8 - i) = e[i]
    BY <1>2, <1>3, SMT
  <1> QED BY <1>2, <1>4, SMT DEF BigEndian

\* Extended by cases, on octets with and without the mask bit.
LEMMA ExtendedForms ==
    ASSUME NEW b
    PROVE  /\ b % 128 = 126 => Extended(b) = 2
           /\ b % 128 = 127 => Extended(b) = 8
           /\ b % 128 # 126 /\ b % 128 # 127 => Extended(b) = 0
  <1>1. ASSUME b % 128 = 126 PROVE Extended(b) = 2
    <2>1. ~(b % 128 = 127)
      BY <1>1, SMT
    <2> QED BY <1>1, <2>1, Zenon DEF Extended
  <1>2. ASSUME b % 128 = 127 PROVE Extended(b) = 8
    <2>1. ~(b % 128 = 126)
      BY <1>2, SMT
    <2> QED BY <1>2, <2>1, Zenon DEF Extended
  <1>3. ASSUME b % 128 # 126, b % 128 # 127 PROVE Extended(b) = 0
    BY <1>3, Zenon DEF Extended
  <1> QED BY <1>1, <1>2, <1>3

\* The header of a frame of the client.
LEMMA MaskedHeads ==
    ASSUME NEW c \in Clients
    PROVE  LET h == MaskedHead(c)
           IN  /\ h \in Seq(Bytes) /\ Len(h) = 2 + c.form /\ c.form \in {0, 2, 8}
               /\ Extended(h[2]) = c.form /\ h[1] % 16 = c.op
               /\ h[2] >= 128 <=> c.masked
               /\ SubSeq(h, 3, Len(h)) = LengthOctets(c)
               /\ ~TooLarge(LengthOctets(c)) =>
                     PayloadLen(h) \in Sizes /\ BigEndian(PayloadLen(h), 8) = c.len
  <1> DEFINE low == CASE c.form = 0 -> c.len[8] [] c.form = 2 -> 126 [] c.form = 8 -> 127
             b2 == (IF c.masked THEN 128 ELSE 0) + low
             e == LengthOctets(c)
             h == MaskedHead(c)
  <1>1. /\ c.op \in {1, 9, 10, 8} /\ c.form \in {0, 2, 8} /\ c.masked \in BOOLEAN
        /\ c.len \in [1..8 -> Bytes]
        /\ c.form = 0 => c.len[8] <= 125 /\ \A i \in 1..7 : c.len[i] = 0
        /\ c.form = 2 => \A i \in 1..6 : c.len[i] = 0
    BY ClientsAssumption, SMT DEF opcodeText, opcodePing, opcodePong, opcodeClose, Bytes
  <1> HIDE DEF low
  <1>2. low \in 0..127 /\ Extended(low) = c.form /\ (c.form = 0 => low = c.len[8])
    <2>1. CASE c.form = 0
      <3>1. ~(c.form = 2) /\ ~(c.form = 8)
        BY <2>1, SMT
      <3>2. low = c.len[8]
        BY <2>1, <3>1, Zenon DEF low
      <3> QED BY <1>1, <2>1, <3>2, ExtendedForms, SMT DEF Bytes
    <2>2. CASE c.form = 2
      <3>1. ~(c.form = 0) /\ ~(c.form = 8)
        BY <2>2, SMT
      <3>2. low = 126
        BY <2>2, <3>1, Zenon DEF low
      <3> QED BY <2>2, <3>2, ExtendedForms, SMT
    <2>3. CASE c.form = 8
      <3>1. ~(c.form = 0) /\ ~(c.form = 2)
        BY <2>3, SMT
      <3>2. low = 127
        BY <2>3, <3>1, Zenon DEF low
      <3> QED BY <2>3, <3>2, ExtendedForms, SMT
    <2> QED BY <1>1, <2>1, <2>2, <2>3
  <1>3. b2 = (IF c.masked THEN 128 ELSE 0) + low
    OBVIOUS
  <1>4. b2 \in Bytes /\ b2 % 128 = low /\ low % 128 = low /\ (b2 >= 128 <=> c.masked)
    BY <1>1, <1>2, <1>3, SMT DEF Bytes
  <1>5. Extended(b2) = c.form
    <2>1. Extended(b2) = Extended(low)
      BY <1>4, ExtendedForms, SMT
    <2> QED BY <1>2, <2>1
  <1>6. e \in [1..c.form -> Bytes] /\ e \in Seq(Bytes) /\ Len(e) = c.form
    <2>1. PICK k, l : k = c.form /\ l = c.len
      OBVIOUS
    <2>2. k \in {0, 2, 8} /\ l \in [1..8 -> Bytes]
      BY <1>1, <2>1
    <2>3. k \in Nat /\ \A i \in 1..k : 8 - k + i \in 1..8
      BY <2>2, SMT
    <2>4. \A i \in 1..k : l[8 - k + i] \in Bytes
      BY <2>2, <2>3
    <2>5. e = [i \in 1..k |-> l[8 - k + i]]
      BY <2>1 DEF LengthOctets
    <2> HIDE DEF e
    <2>6. e \in [1..k -> Bytes]
      BY <2>4, <2>5
    <2>7. e \in Seq(Bytes) /\ Len(e) = k
      BY <2>3, <2>6, SMT
    <2> QED BY <2>1, <2>6, <2>7
  <1>7. h = <<128 + c.op, b2>> \o e
    BY DEF MaskedHead, low
  <1> HIDE DEF b2
  <1>8. <<128 + c.op, b2>> \in Seq(Bytes) /\ Len(<<128 + c.op, b2>>) = 2
    BY <1>1, <1>4, SMT DEF Bytes
  <1>9. h \in Seq(Bytes) /\ Len(h) = 2 + c.form /\ h[1] = 128 + c.op /\ h[2] = b2
    BY <1>1, <1>6, <1>7, <1>8, SMT
  <1>10. h[1] % 16 = c.op
    BY <1>1, <1>9, SMT
  <1>11. SubSeq(h, 3, Len(h)) = e
    BY <1>1, <1>6, <1>7, <1>8, <1>9, SMT
  <1>12. ASSUME ~TooLarge(e)
         PROVE  PayloadLen(h) \in Sizes /\ BigEndian(PayloadLen(h), 8) = c.len
    <2>1. /\ c.len[5] \in 0..127 /\ \A i \in 1..4 : c.len[i] = 0
      <3>1. CASE c.form = 8
        <4>1. Len(e) = 8 /\ \A i \in 1..8 : e[i] = c.len[i]
          BY <1>1, <1>6, <3>1, SMT DEF LengthOctets
        <4>2. ~(e[5] >= 128) /\ \A i \in 1..4 : e[i] = 0
          BY <1>12, <4>1 DEF TooLarge
        <4> HIDE DEF e
        <4> QED BY <1>1, <4>1, <4>2, SMT DEF Bytes
      <3>2. CASE c.form # 8
        BY <1>1, <3>2, SMT DEF Bytes
      <3> QED BY <3>1, <3>2
    <2>2. PayloadLen(h) = IF c.form = 0 THEN low ELSE Number(e)
      <3>1. Extended(h[2]) = c.form /\ h[2] % 128 = low
        BY <1>4, <1>5, <1>9
      <3>2. Number(SubSeq(h, 3, Len(h))) = Number(e)
        BY <1>11
      <3> QED BY <3>1, <3>2, Zenon DEF PayloadLen
    <2>3. PayloadLen(h) = Value(c.len[5], c.len[6], c.len[7], c.len[8])
      <3>1. CASE c.form = 0
        BY <1>1, <1>2, <2>2, <3>1, Weights, SMT DEF Value, Bytes
      <3>2. CASE c.form = 2
        <4>1. e \in [1..2 -> Bytes] /\ e[1] = c.len[7] /\ e[2] = c.len[8]
          BY <1>1, <1>6, <3>2, SMT DEF LengthOctets
        <4>2. c.len[5] = 0 /\ c.len[6] = 0
          BY <1>1, <3>2, SMT
        <4> QED BY <2>2, <3>2, <4>1, <4>2, NumberOfOctets, SMT
      <3>3. CASE c.form = 8
        <4>1. e \in [1..8 -> Bytes] /\ e[5] = c.len[5] /\ e[6] = c.len[6] /\ e[7] = c.len[7]
              /\ e[8] = c.len[8]
          BY <1>1, <1>6, <3>3, SMT DEF LengthOctets
        <4> QED BY <2>2, <3>3, <4>1, NumberOfOctets, SMT
      <3> QED BY <1>1, <3>1, <3>2, <3>3
    <2> QED BY <1>1, <2>1, <2>3, EightOctets, SMT
  <1> QED BY <1>1, <1>4, <1>5, <1>9, <1>10, <1>11, <1>12

\* The header writeFrame builds, read back: the opcode and the length are in it.
LEMMA FrameHeads ==
    ASSUME NEW op \in 0..15, NEW n \in Sizes
    PROVE  LET h == FrameHead(op, n)
           IN  /\ h \in Seq(Bytes) /\ Len(h) \in Nat /\ Len(h) >= 2
               /\ Len(h) = 2 + Extended(h[2])
               /\ h[1] >= 128 /\ h[1] % 16 = op /\ h[2] < 128 /\ PayloadLen(h) = n
  <1> DEFINE h == FrameHead(op, n)
             Parts(b, e) == /\ b \in 0..127 /\ e \in Seq(Bytes)
                            /\ h = <<128 + op>> \o (<<b>> \o e) /\ Len(e) = Extended(b)
                            /\ n = IF Extended(b) = 0 THEN b ELSE Number(e)
  <1> HIDE DEF h
  <1>0. n \in Nat
    BY SMT DEF Sizes
  <1>1. ASSUME n <= 125 PROVE \E b, e : Parts(b, e)
    <2>1. n \in 0..127 /\ n % 128 # 126 /\ n % 128 # 127
      BY <1>0, <1>1, SMT
    <2>2. h = <<128 + op>> \o <<n>>
      BY <1>1, SMT DEF FrameHead, h
    <2>3. h = <<128 + op>> \o (<<n>> \o <<>>) /\ <<>> \in Seq(Bytes) /\ Len(<<>>) = 0
      BY <2>2, SMT
    <2>4. Extended(n) = 0
      BY <2>1, ExtendedForms
    <2>5. Parts(n, <<>>)
      BY <2>1, <2>3, <2>4
    <2> HIDE DEF Parts
    <2> QED BY <2>5
  <1>2. ASSUME ~(n <= 125) /\ n <= 65535 PROVE \E b, e : Parts(b, e)
    <2>1. PICK e : e = BigEndian(n, 2)
      OBVIOUS
    <2>2. h = <<128 + op>> \o (<<126>> \o e) /\ 126 \in 0..127
      BY <1>2, <2>1, SMT DEF FrameHead, h
    <2>3. e \in [1..2 -> Bytes] /\ e[1] = Octet(n, 1) /\ e[2] = Octet(n, 0)
      BY <2>1, ValueOfOctets, SMT DEF BigEndian
    <2>4. e \in Seq(Bytes) /\ Len(e) = 2
      BY <2>1, <2>3, ValueOfOctets, SMT DEF BigEndian
    <2>5. Octet(n, 2) = 0 /\ Octet(n, 3) = 0
      BY <1>2, ValueOfOctets, SMT
    <2>6. Number(e) = n
      BY <2>3, <2>5, NumberOfOctets, ValueOfOctets, SMT
    <2>7. Extended(126) = 2
      BY ExtendedForms, SMT
    <2>8. Parts(126, e)
      BY <2>2, <2>4, <2>6, <2>7, SMT
    <2> HIDE DEF Parts
    <2> QED BY <2>8
  <1>3. ASSUME ~(n <= 125) /\ ~(n <= 65535) PROVE \E b, e : Parts(b, e)
    <2>1. PICK e : e = BigEndian(n, 8)
      OBVIOUS
    <2>2. h = <<128 + op>> \o (<<127>> \o e) /\ 127 \in 0..127
      BY <1>3, <2>1, SMT DEF FrameHead, h
    <2>3. \A j \in 0..7 : Octet(n, j) \in Bytes
      <3>1. \A j \in 4..7 : Octet(n, j) \in Bytes
        BY SMT DEF Octet, Bytes
      <3>2. Octet(n, 3) \in Bytes
        BY ValueOfOctets, SMT DEF Bytes
      <3> QED BY <3>1, <3>2, ValueOfOctets, SMT
    <2>4. /\ e \in [1..8 -> Bytes] /\ e[5] = Octet(n, 3) /\ e[6] = Octet(n, 2)
          /\ e[7] = Octet(n, 1) /\ e[8] = Octet(n, 0)
      BY <2>1, <2>3, SMT DEF BigEndian
    <2>5. e \in Seq(Bytes) /\ Len(e) = 8
      BY <2>1, <2>3, SMT DEF BigEndian
    <2>6. Number(e) = n
      BY <2>4, NumberOfOctets, ValueOfOctets, SMT
    <2>7. Extended(127) = 8
      BY ExtendedForms, SMT
    <2>8. Parts(127, e)
      BY <2>2, <2>5, <2>6, <2>7, SMT
    <2> HIDE DEF Parts
    <2> QED BY <2>8
  <1>4. PICK b, e : Parts(b, e)
    <2> HIDE DEF Parts
    <2> QED BY <1>1, <1>2, <1>3, SMT
  <1>5. (128 + op) \in Bytes /\ (128 + op) >= 128 /\ (128 + op) % 16 = op
    BY SMT DEF Bytes
  <1>6. b \in Bytes /\ b % 128 = b /\ b < 128 /\ Len(e) \in Nat
    <2>1. b \in 0..127 /\ e \in Seq(Bytes)
      BY <1>4
    <2>2. Len(e) \in Nat
      BY <2>1
    <2>3. b % 128 = b /\ b < 128
      BY <2>1, SMT
    <2>4. b \in Bytes
      BY <2>1, SMT DEF Bytes
    <2> QED BY <2>2, <2>3, <2>4
  <1>7. h \in Seq(Bytes) /\ Len(h) = 2 + Len(e) /\ h[1] = 128 + op /\ h[2] = b
    BY <1>4, <1>5, <1>6, SMT
  <1>8. SubSeq(h, 3, Len(h)) = e
    BY <1>4, <1>5, <1>6, <1>7, SMT
  <1>9. PayloadLen(h) = n
    <2>1. Number(SubSeq(h, 3, Len(h))) = Number(e)
      BY <1>8
    <2> QED BY <1>4, <1>6, <1>7, <2>1, Zenon DEF PayloadLen
  <1>10. /\ Len(h) \in Nat /\ Len(h) >= 2 /\ Len(h) = 2 + Extended(h[2])
         /\ h[1] >= 128 /\ h[1] % 16 = op /\ h[2] < 128
    BY <1>4, <1>5, <1>6, <1>7, SMT
  <1> QED BY <1>7, <1>9, <1>10 DEF h

\* An octet is a number up to 255.
LEMMA InBytes ==
    \A b : b \in Bytes <=> b \in Nat /\ b <= 255
  BY SMT DEF Bytes

\* Number is a number, whatever the octets.
LEMMA NumberBounds ==
    /\ \A e \in [1..8 -> Bytes] : Number(e) \in Nat /\ (~TooLarge(e) => Number(e) \in Sizes)
    /\ \A e \in [1..2 -> Bytes] : Number(e) \in Nat /\ Number(e) \in Sizes
  <1>1. \A n \in Sizes : n \in Nat
    BY SMT DEF Sizes
  <1>2. 0 \in Bytes /\ 0 \in 0..127
    BY SMT DEF Bytes
  <1>3. ASSUME NEW e \in [1..8 -> Bytes] PROVE Number(e) \in Nat
    <2>1. e[5] \in Bytes /\ e[6] \in Bytes /\ e[7] \in Bytes /\ e[8] \in Bytes
      BY SMT
    <2>2. \A a, b, c, d \in Bytes : Value(a, b, c, d) \in Nat
      BY Weights, SMT DEF Value, Bytes
    <2> QED BY <2>1, <2>2, NumberOfOctets
  <1>4. ASSUME NEW e \in [1..8 -> Bytes], ~TooLarge(e) PROVE Number(e) \in Sizes
    <2>1. Len(e) = 8 /\ e[5] \in Bytes /\ e[6] \in Bytes /\ e[7] \in Bytes /\ e[8] \in Bytes
      BY SMT
    <2>2. ~(e[5] >= 128)
      BY <1>4, <2>1 DEF TooLarge
    <2>3. e[5] \in 0..127
      BY <2>1, <2>2, SMT DEF Bytes
    <2>4. Value(e[5], e[6], e[7], e[8]) \in Sizes
      BY <2>1, <2>3, OctetsOfValue, SMT
    <2> QED BY <2>4, NumberOfOctets
  <1>5. ASSUME NEW e \in [1..2 -> Bytes] PROVE Number(e) \in Sizes
    <2>1. e[1] \in Bytes /\ e[2] \in Bytes
      BY SMT
    <2>2. Value(0, 0, e[1], e[2]) \in Sizes
      BY <1>2, <2>1, OctetsOfValue, SMT
    <2> QED BY <2>2, NumberOfOctets
  <1> QED BY <1>1, <1>3, <1>4, <1>5

\* The length octets of a header.
LEMMA BehindTwo ==
    ASSUME NEW h \in Seq(Bytes), NEW k \in Nat, Len(h) = 2 + k
    PROVE  SubSeq(h, 3, Len(h)) \in [1..k -> Bytes] /\ h[2] \in Bytes
  <1>1. SubSeq(h, 3, Len(h)) \in Seq(Bytes) /\ Len(SubSeq(h, 3, Len(h))) = k /\ h[2] \in Bytes
    BY SMT
  <1> QED BY <1>1, LenProperties

\* The length of any header, and of one whose length ReadFrame accepts.
LEMMA PayloadLens ==
    ASSUME NEW h \in Seq(Bytes), Len(h) = 2 + Extended(h[2])
    PROVE  /\ PayloadLen(h) \in Nat
           /\ ~TooLarge(SubSeq(h, 3, Len(h))) => PayloadLen(h) \in Sizes
  <1>1. PICK e, b, k : e = SubSeq(h, 3, Len(h)) /\ b = h[2] /\ k = Extended(h[2])
    OBVIOUS
  <1>2. k \in {0, 2, 8} /\ k \in Nat /\ Len(h) = 2 + k
    BY <1>1, ExtendedForms, SMT
  <1>3. e \in [1..k -> Bytes] /\ b \in Bytes
    BY <1>1, <1>2, BehindTwo
  <1>4. PayloadLen(h) = IF k = 0 THEN b % 128 ELSE Number(e)
    BY <1>1, Zenon DEF PayloadLen
  <1>5. CASE k = 0
    <2>1. b \in Nat
      BY <1>3, InBytes
    <2>2. b % 128 \in 0..127
      BY <2>1, SMT
    <2>3. \A m \in 0..127 : m \in Sizes /\ m \in Nat
      BY SMT DEF Sizes
    <2> QED BY <1>4, <1>5, <2>2, <2>3
  <1>6. CASE k = 2
    <2>1. k # 0 /\ e \in [1..2 -> Bytes]
      BY <1>3, <1>6, SMT
    <2> QED BY <1>4, <2>1, NumberBounds
  <1>7. CASE k = 8
    <2>1. k # 0 /\ e \in [1..8 -> Bytes]
      BY <1>3, <1>7, SMT
    <2> QED BY <1>1, <1>4, <2>1, NumberBounds
  <1> QED BY <1>2, <1>5, <1>6, <1>7

\* The octets of a header or of its first k on a stream.
LEMMA HeaderOctets ==
    ASSUME NEW h \in Seq(Bytes), NEW k \in Nat, k <= Len(h)
    PROVE  LET s == [i \in 1..k |-> Byte(h[i])]
           IN  s \in Seq(Octets) /\ Len(s) = k /\ \A i \in 1..k : s[i] = Byte(h[i])
  <1>1. \A i \in 1..k : h[i] \in Bytes
    BY SMT
  <1>2. \A b \in Bytes : Byte(b) \in Octets
    BY SMT DEF Byte, Octets, Bytes
  <1>3. \A i \in 1..k : Byte(h[i]) \in Octets
    BY <1>1, <1>2
  <1> QED BY <1>3, SMT

\* The header a decoder reads at the head of a stream.
LEMMA ReadHeader ==
    ASSUME NEW s \in Seq(Octets), HasHeader(s)
    PROVE  LET h == Header(s)
           IN  /\ h \in Seq(Bytes) /\ Len(h) = 2 + Extended(h[2])
               /\ Len(h) \in 2..10 /\ Len(h) <= Len(s)
               /\ \A i \in 1..Len(h) : h[i] = s[i].b
               /\ h[1] = s[1].b /\ h[2] = s[2].b
               /\ Behind(s) = SubSeq(s, Len(h) + 1, Len(s)) /\ Behind(s) \in Seq(Octets)
  <1>1. PICK x : x = Extended(s[2].b)
    OBVIOUS
  <1>2. x \in {0, 2, 8} /\ x \in Nat /\ Len(s) >= 2 /\ Len(s) >= 2 + x
    BY <1>1, ExtendedForms, SMT DEF HasHeader
  <1>3. \A i \in 1..(2 + x) : s[i].b \in Bytes
    <2>1. \A o \in Octets : o.b \in Bytes
      BY SMT DEF Octets, Bytes
    <2>2. \A i \in 1..(2 + x) : s[i] \in Octets
      BY <1>2, SMT
    <2> QED BY <2>1, <2>2
  <1>4. PICK h : h = Header(s)
    OBVIOUS
  <1>5. h = [i \in 1..(2 + x) |-> s[i].b]
    BY <1>1, <1>4 DEF Header
  <1>6. h \in Seq(Bytes) /\ Len(h) = 2 + x /\ \A i \in 1..(2 + x) : h[i] = s[i].b
    BY <1>2, <1>3, <1>5, SMT
  <1>7. Len(h) \in 2..10 /\ Len(h) <= Len(s) /\ h[1] = s[1].b /\ h[2] = s[2].b
    BY <1>2, <1>6, SMT
  <1>8. Behind(s) = SubSeq(s, Len(h) + 1, Len(s))
    BY <1>4 DEF Behind
  <1>9. SubSeq(s, Len(h) + 1, Len(s)) \in Seq(Octets)
    BY <1>7, SMT
  <1> QED BY <1>1, <1>4, <1>6, <1>7, <1>8, <1>9

\* It is the header that was written there.
LEMMA ReadHeaderWritten ==
    ASSUME NEW s \in Seq(Octets), HasHeader(s),
           NEW h \in Seq(Bytes), Len(h) >= 2, Len(h) = 2 + Extended(h[2]), Len(h) <= Len(s),
           \A i \in 1..Len(h) : s[i] = Byte(h[i])
    PROVE  Header(s) = h
  <1>1. \A i \in 1..Len(h) : s[i].b = h[i]
    <2>1. \A b : Byte(b).b = b
      BY DEF Byte
    <2> QED BY <2>1
  <1>2. s[2].b = h[2]
    BY <1>1, SMT
  <1>3. Header(s) = [i \in 1..Len(h) |-> s[i].b]
    BY <1>2 DEF Header
  <1>4. Header(s) = [i \in 1..Len(h) |-> h[i]]
    BY <1>1, <1>3
  <1> QED BY <1>4, SMT

----------------------------------------------------------------------------
(* Types.                                                                  *)

States == {"idle", "head", "body", "done", "error"}
Calls == [st : States, op : 0..15, n : Sizes]
Frames == [op : 0..15, n : Sizes]
Decoders == [hdr : Seq(Bytes), need : Nat, own : BOOLEAN, lost : BOOLEAN]
Results == [op : 0..15, n : Nat, whole : BOOLEAN]

TypeInv ==
    /\ mu \in Writers \cup {None} /\ wr \in [Writers -> Calls]
    /\ out \in Seq(Octets) /\ sent \in Seq(Frames)
    /\ torn \in Nat /\ tears \in 0..MaxTears
    /\ cl \in Decoders /\ got \in Seq(Results)
    /\ asked \in Seq(Clients) /\ Len(asked) <= MaxIn
    /\ in \in Seq(Octets) /\ read \in Seq(Frames)
    /\ loop \in {"reading", "pong", "closed"}
    /\ loop = "pong" => Len(read) > 0
    /\ cl.need > 0 => Len(cl.hdr) = 2 + Extended(cl.hdr[2])
    /\ \A x \in Writers : wr[x].st = "body" => wr[x].n > 0

LEMMA SizesInNat == \A n \in Sizes : n \in Nat
  BY SMT DEF Sizes

LEMMA CallFacts ==
    /\ \A c \in Calls : c.st \in States /\ c.op \in 0..15 /\ c.n \in Sizes
    /\ \A st \in States, op \in 0..15, n \in Sizes : [st |-> st, op |-> op, n |-> n] \in Calls
    /\ \A c \in Calls, st \in States : [c EXCEPT !.st = st] \in Calls
    /\ \A c \in Calls : [op |-> c.op, n |-> c.n] \in Frames
  BY DEF Calls, Frames

\* TypeInv is TypeOK with every length below 2^31 and every header whole.
LEMMA TypeInvImpliesTypeOK == TypeInv => TypeOK
  <1> SUFFICES ASSUME TypeInv PROVE TypeOK
    OBVIOUS
  <1> USE DEF TypeInv
  <1>1. wr \in [Writers -> [st : {"idle", "head", "body", "done", "error"}, op : 0..15, n : Nat]]
    BY SizesInNat DEF Calls, States
  <1>2. Frames \subseteq [op : 0..15, n : Nat]
    BY SizesInNat DEF Frames
  <1>3. sent \in Seq([op : 0..15, n : Nat]) /\ read \in Seq([op : 0..15, n : Nat])
    <2> DEFINE T == [op : 0..15, n : Nat]
    <2>1. sent \in Seq(Frames) /\ read \in Seq(Frames) /\ Frames \subseteq T
      BY <1>2
    <2> HIDE DEF T
    <2>2. sent \in Seq(T) /\ read \in Seq(T)
      BY <2>1, SeqMonotonic, Zenon
    <2> QED BY <2>2 DEF T
  <1>4. cl \in [hdr : Seq(0..255), need : Nat, own : BOOLEAN, lost : BOOLEAN]
    BY DEF Decoders, Bytes
  <1>5. got \in Seq([op : 0..15, n : Nat, whole : BOOLEAN])
    BY DEF Results
  <1> QED BY <1>1, <1>3, <1>4, <1>5 DEF TypeOK

LEMMA TypeInit == Init => TypeInv
  <1> SUFFICES ASSUME Init PROVE TypeInv
    OBVIOUS
  <1> USE DEF Init
  <1>1. 0 \in Sizes /\ 0 \in 0..15 /\ "idle" \in States
    BY SMT DEF Sizes, States
  <1>2. wr \in [Writers -> Calls]
    BY <1>1, CallFacts, Zenon
  <1>3. cl \in Decoders
    BY DEF Decoders
  <1>4. /\ Len(asked) <= MaxIn /\ tears \in 0..MaxTears /\ ~(cl.need > 0)
    BY BoundsAssumption
  <1>5. \A x \in Writers : wr[x].st # "body"
    OBVIOUS
  <1> QED BY <1>2, <1>3, <1>4, <1>5 DEF TypeInv

LEMMA RunInOctets ==
    ASSUME NEW f \in Nat, NEW n \in Nat, n > 0
    PROVE  Run(f, n) \in Octets
  <1>1. n \in Nat \ {0} /\ 0 \in 0..255
    BY SMT
  <1> QED BY <1>1 DEF Run, Octets

LEMMA CutsInNat == \A k \in Cuts : k \in Nat
  BY LengthsAssumption, SMT DEF Cuts

\* What taking wsConn.mu changes.
LEMMA LockType ==
    ASSUME TypeInv, NEW x \in Writers, NEW op \in 0..15, NEW n \in Sizes, Lock(x, op, n)
    PROVE  TypeInv'
  <1>1. [st |-> "head", op |-> op, n |-> n] \in Calls
    BY CallFacts, Zenon DEF States
  <1>2. wr' \in [Writers -> Calls] /\ mu' \in Writers \cup {None}
    BY <1>1, Zenon DEF Lock, TypeInv
  <1>3. \A y \in Writers : wr'[y].st = "body" => wr'[y].n > 0
    BY DEF Lock, TypeInv
  <1> QED BY <1>2, <1>3, Zenon DEF Lock, TypeInv, client, incoming

\* What giving it back changes.
LEMMA UnlockType ==
    ASSUME TypeInv, NEW x \in Writers, NEW st \in {"done", "error"}, Unlock(x, st)
    PROVE  /\ mu' \in Writers \cup {None} /\ wr' \in [Writers -> Calls]
           /\ \A y \in Writers : wr'[y].st = "body" => wr'[y].n > 0
           /\ loop' \in {"reading", "pong", "closed"} /\ (loop' = "pong" => loop = "pong")
  <1>1. wr' \in [Writers -> Calls]
    <2>1. wr[x] \in Calls
      BY DEF TypeInv
    <2>2. [wr[x] EXCEPT !.st = st] \in Calls
      BY <2>1, CallFacts DEF States
    <2>3. wr' = [wr EXCEPT ![x] = [wr[x] EXCEPT !.st = st]]
      BY DEF Unlock
    <2> QED BY <2>2, <2>3 DEF TypeInv
  <1>2. \A y \in Writers : wr'[y].st = "body" => wr'[y].n > 0
    BY DEF Unlock, TypeInv, Calls
  <1> QED BY <1>1, <1>2 DEF Unlock, TypeInv, AfterFrame

\* A frame a writer appends to sent, and its header on the stream.
LEMMA CallHeads ==
    ASSUME TypeInv, NEW x \in Writers
    PROVE  LET h == FrameHead(wr[x].op, wr[x].n)
           IN  /\ wr[x] \in Calls /\ wr[x].op \in 0..15 /\ wr[x].n \in Sizes /\ wr[x].n \in Nat
               /\ h \in Seq(Bytes) /\ Len(h) \in Nat /\ DOMAIN h = 1..Len(h)
               /\ [op |-> wr[x].op, n |-> wr[x].n] \in Frames
  <1>1. wr[x] \in Calls
    BY DEF TypeInv
  <1>2. wr[x].op \in 0..15 /\ wr[x].n \in Sizes /\ [op |-> wr[x].op, n |-> wr[x].n] \in Frames
    BY <1>1, CallFacts
  <1>3. wr[x].n \in Nat
    BY <1>2, SizesInNat
  <1>4. PICK h : h = FrameHead(wr[x].op, wr[x].n)
    OBVIOUS
  <1>5. h \in Seq(Bytes)
    BY <1>2, <1>4, FrameHeads
  <1>6. Len(h) \in Nat /\ DOMAIN h = 1..Len(h)
    BY <1>5, LenProperties
  <1> QED BY <1>1, <1>2, <1>3, <1>4, <1>5, <1>6

\* A step of writeFrame.
LEMMA WriteFrameType ==
    ASSUME TypeInv, NEW x \in Writers, WriteFrame(x)
    PROVE  TypeInv'
  <1> DEFINE h == FrameHead(wr[x].op, wr[x].n)
             f == [op |-> wr[x].op, n |-> wr[x].n]
  <1>0. /\ wr[x] \in Calls /\ wr[x].n \in Nat /\ h \in Seq(Bytes) /\ Len(h) \in Nat
        /\ DOMAIN h = 1..Len(h) /\ f \in Frames
        /\ "done" \in States /\ "error" \in States /\ "body" \in States
    BY CallHeads DEF States
  <1> HIDE DEF h, f
  <1>1. sent \in Seq(Frames) /\ out \in Seq(Octets) /\ Len(sent) \in Nat
    BY DEF TypeInv
  <1>2. Append(sent, f) \in Seq(Frames)
    BY <1>0, <1>1
  <1>3. \A k \in Nat : k <= Len(h) => out \o [i \in 1..k |-> Byte(h[i])] \in Seq(Octets)
    <2> SUFFICES ASSUME NEW k \in Nat, k <= Len(h)
                 PROVE  out \o [i \in 1..k |-> Byte(h[i])] \in Seq(Octets)
      OBVIOUS
    <2>1. [i \in 1..k |-> Byte(h[i])] \in Seq(Octets)
      BY <1>0, HeaderOctets
    <2> QED BY <1>1, <2>1, ConcatProperties
  <1>4. \A n \in Nat : n > 0 => Append(out, Run(Len(sent), n)) \in Seq(Octets)
    <2> SUFFICES ASSUME NEW n \in Nat, n > 0
                 PROVE  Append(out, Run(Len(sent), n)) \in Seq(Octets)
      OBVIOUS
    <2>1. Run(Len(sent), n) \in Octets
      BY <1>1, RunInOctets
    <2> QED BY <1>1, <2>1
  <1>5. CASE WriteHead(x)
    <2>1. out' \in Seq(Octets) /\ sent' \in Seq(Frames)
      <3>1. out' = out \o [i \in 1..Len(h) |-> Byte(h[i])] /\ sent' = Append(sent, f)
        BY <1>0, <1>5 DEF WriteHead, h, f
      <3> QED BY <1>0, <1>2, <1>3, <3>1
    <2>2. /\ mu' \in Writers \cup {None} /\ wr' \in [Writers -> Calls]
          /\ \A y \in Writers : wr'[y].st = "body" => wr'[y].n > 0
          /\ loop' \in {"reading", "pong", "closed"} /\ (loop' = "pong" => loop = "pong")
      <3>1. CASE wr[x].n = 0
        <4>1. Unlock(x, "done")
          BY <1>5, <3>1 DEF WriteHead
        <4> QED BY <1>0, <4>1, UnlockType
      <3>2. CASE wr[x].n # 0
        <4>1. mu' = mu /\ loop' = loop /\ wr' = [wr EXCEPT ![x] = [wr[x] EXCEPT !.st = "body"]]
          BY <1>5, <3>2 DEF WriteHead
        <4>2. [wr[x] EXCEPT !.st = "body"] \in Calls
          BY <1>0, CallFacts
        <4>3. \A y \in Writers : wr'[y].st = "body" => wr'[y].n > 0
          <5>1. wr[x].n > 0
            BY <1>0, <3>2, SMT
          <5>2. \A y \in Writers : y # x => wr'[y] = wr[y]
            BY <4>1 DEF TypeInv
          <5>3. wr'[x].n = wr[x].n
            BY <1>0, <4>1 DEF TypeInv, Calls
          <5> QED BY <5>1, <5>2, <5>3 DEF TypeInv
        <4> QED BY <4>1, <4>2, <4>3 DEF TypeInv
      <3> QED BY <3>1, <3>2
    <2> QED BY <1>5, <2>1, <2>2 DEF WriteHead, TypeInv, client, incoming
  <1>6. CASE WriteBody(x)
    <2>1. Unlock(x, "done") /\ wr[x].n > 0
      BY <1>6 DEF WriteBody, TypeInv
    <2>2. out' \in Seq(Octets)
      BY <1>0, <1>4, <1>6, <2>1 DEF WriteBody
    <2>3. /\ mu' \in Writers \cup {None} /\ wr' \in [Writers -> Calls]
          /\ \A y \in Writers : wr'[y].st = "body" => wr'[y].n > 0
          /\ loop' \in {"reading", "pong", "closed"} /\ (loop' = "pong" => loop = "pong")
      BY <2>1, UnlockType
    <2> QED BY <1>6, <2>2, <2>3 DEF WriteBody, TypeInv, client, incoming
  <1>7. CASE WriteClosed(x)
    <2>1. Unlock(x, "error")
      BY <1>7 DEF WriteClosed
    <2>2. /\ mu' \in Writers \cup {None} /\ wr' \in [Writers -> Calls]
          /\ \A y \in Writers : wr'[y].st = "body" => wr'[y].n > 0
          /\ loop' \in {"reading", "pong", "closed"} /\ (loop' = "pong" => loop = "pong")
      BY <2>1, UnlockType
    <2> QED BY <1>7, <2>2 DEF WriteClosed, TypeInv, client, incoming
  <1>8. ASSUME NEW k \in Cuts, Tear(x, k)
        PROVE  TypeInv'
    <2>1. Unlock(x, "error") /\ k \in Nat
      BY <1>8, CutsInNat DEF Tear
    <2>2. /\ mu' \in Writers \cup {None} /\ wr' \in [Writers -> Calls]
          /\ \A y \in Writers : wr'[y].st = "body" => wr'[y].n > 0
          /\ loop' \in {"reading", "pong", "closed"} /\ (loop' = "pong" => loop = "pong")
      BY <2>1, UnlockType
    <2>3. out' \in Seq(Octets) /\ sent' \in Seq(Frames)
      <3>1. CASE wr[x].st = "head"
        <4>1. /\ out' = out \o [i \in 1..k |-> Byte(h[i])] /\ k < Len(h)
              /\ sent' = Append(sent, f)
          BY <1>8, <3>1 DEF Tear, h, f
        <4>2. k <= Len(h)
          BY <1>0, <2>1, <4>1, SMT
        <4> QED BY <1>2, <1>3, <2>1, <4>1, <4>2
      <3>2. CASE wr[x].st = "body"
        <4>1. out' = (IF k = 0 THEN out ELSE Append(out, Run(Len(sent), k))) /\ sent' = sent
          BY <1>8, <3>2 DEF Tear
        <4>2. k # 0 => k > 0
          BY <2>1, SMT
        <4> QED BY <1>1, <1>4, <2>1, <4>1, <4>2
      <3> QED BY <1>8, <3>1, <3>2 DEF Tear
    <2>4. torn' \in Nat /\ tears' \in 0..MaxTears
      <3>1. Len(sent') \in Nat
        BY <2>3, LenProperties
      <3>2. torn' \in Nat
        BY <1>8, <3>1 DEF Tear, TypeInv
      <3>3. tears < MaxTears /\ tears' = tears + 1 /\ tears \in 0..MaxTears
        BY <1>8 DEF Tear, TypeInv
      <3> QED BY <3>2, <3>3, BoundsAssumption, SMT
    <2> QED BY <1>8, <2>2, <2>3, <2>4 DEF Tear, TypeInv, client, incoming
  <1> QED BY <1>5, <1>6, <1>7, <1>8 DEF WriteFrame

\* A frame the client has decoded.
LEMMA DecodedType ==
    ASSUME TypeInv, NEW h \in Seq(Bytes), Len(h) = 2 + Extended(h[2]), NEW whole \in BOOLEAN
    PROVE  Decoded(h, whole) \in Seq(Results)
  <1>1. PICK k : k = Extended(h[2])
    OBVIOUS
  <1>2. k \in Nat /\ Len(h) = 2 + k
    BY <1>1, ExtendedForms, SMT
  <1>3. h[1] \in Bytes
    BY <1>2, SMT
  <1>4. PICK b : b = h[1]
    OBVIOUS
  <1>5. b \in Nat
    BY <1>3, <1>4, InBytes
  <1>6. b % 16 \in 0..15
    BY <1>5, SMT
  <1>7. PayloadLen(h) \in Nat
    BY PayloadLens
  <1>8. [op |-> h[1] % 16, n |-> PayloadLen(h), whole |-> whole] \in Results
    BY <1>4, <1>6, <1>7 DEF Results
  <1> QED BY <1>8 DEF Decoded, TypeInv

\* A header the client takes.
LEMMA ClientHeaderType ==
    ASSUME TypeInv, ClientHeader
    PROVE  TypeInv'
  <1> DEFINE h == Header(out)
             n == PayloadLen(h)
  <1>0. out \in Seq(Octets) /\ HasHeader(out)
    BY DEF TypeInv, ClientHeader
  <1>1. /\ h \in Seq(Bytes) /\ Len(h) = 2 + Extended(h[2]) /\ Behind(out) \in Seq(Octets)
    BY <1>0, ReadHeader
  <1>2. n \in Nat
    BY <1>1, PayloadLens
  <1> HIDE DEF h, n
  <1>3. CASE cl' = [cl EXCEPT !.lost = TRUE] /\ UNCHANGED <<out, got>>
    <2>1. cl' \in Decoders /\ cl'.need = cl.need /\ cl'.hdr = cl.hdr
      BY <1>3 DEF TypeInv, Decoders
    <2> QED BY <1>3, <2>1 DEF ClientHeader, TypeInv, incoming
  <1>4. CASE /\ out' = Behind(out)
             /\ cl' = [Between EXCEPT !.hdr = IF n = 0 THEN <<>> ELSE h, !.need = n]
             /\ got' = IF n = 0 THEN Decoded(h, TRUE) ELSE got
    <2>1. cl' = [hdr |-> IF n = 0 THEN <<>> ELSE h, need |-> n, own |-> TRUE, lost |-> FALSE]
      BY <1>4 DEF Between
    <2>2. (IF n = 0 THEN <<>> ELSE h) \in Seq(Bytes)
      BY <1>1
    <2>3. cl' \in Decoders /\ cl'.need = n /\ cl'.hdr = IF n = 0 THEN <<>> ELSE h
      BY <1>2, <2>1, <2>2 DEF Decoders
    <2>4. cl'.need > 0 => Len(cl'.hdr) = 2 + Extended(cl'.hdr[2])
      <3>1. n > 0 => n # 0
        BY <1>2, SMT
      <3> QED BY <1>1, <2>3, <3>1
    <2>5. got' \in Seq(Results)
      BY <1>1, <1>4, DecodedType DEF TypeInv
    <2> QED BY <1>1, <1>4, <2>3, <2>4, <2>5 DEF ClientHeader, TypeInv, incoming
  <1> QED BY <1>3, <1>4 DEF ClientHeader, h, n

\* A payload it takes.
LEMMA ClientPayloadType ==
    ASSUME TypeInv, ClientPayload
    PROVE  TypeInv'
  <1> DEFINE x == Head(out)
             own == cl.own /\ x.f = Len(got) + 1
  <1>0. /\ out \in Seq(Octets) /\ out # <<>> /\ cl.need > 0 /\ cl.need \in Nat
        /\ cl.hdr \in Seq(Bytes) /\ Len(cl.hdr) = 2 + Extended(cl.hdr[2]) /\ cl.own \in BOOLEAN
        /\ got \in Seq(Results)
    BY DEF TypeInv, ClientPayload, Decoders
  <1>1. x \in Octets /\ Tail(out) \in Seq(Octets)
    BY <1>0
  <1>2. x.f \in Nat /\ x.n \in Nat /\ x.n > 0
    BY <1>1, SMT DEF Octets
  <1>3. own \in BOOLEAN
    BY <1>0
  <1> HIDE DEF x, own
  <1>4. CASE /\ x.n < cl.need
             /\ out' = Tail(out) /\ UNCHANGED got
             /\ cl' = [cl EXCEPT !.need = @ - x.n, !.own = own]
    <2>1. cl.need - x.n \in Nat
      BY <1>0, <1>2, <1>4, SMT
    <2>2. cl' \in Decoders /\ cl'.hdr = cl.hdr
      BY <1>3, <1>4, <2>1 DEF TypeInv, Decoders
    <2> QED BY <1>0, <1>1, <1>4, <2>2 DEF ClientPayload, TypeInv, incoming
  <1>5. CASE /\ ~(x.n < cl.need)
             /\ out' = IF x.n = cl.need THEN Tail(out)
                       ELSE <<Run(x.f, x.n - cl.need)>> \o Tail(out)
             /\ cl' = Between /\ got' = Decoded(cl.hdr, own)
    <2>1. out' \in Seq(Octets)
      <3>1. CASE x.n = cl.need
        BY <1>1, <1>5, <3>1
      <3>2. CASE x.n # cl.need
        <4>1. x.n - cl.need \in Nat /\ x.n - cl.need > 0
          BY <1>0, <1>2, <1>5, <3>2, SMT
        <4>2. Run(x.f, x.n - cl.need) \in Octets
          BY <1>2, <4>1, RunInOctets
        <4>3. <<Run(x.f, x.n - cl.need)>> \in Seq(Octets)
          BY <4>2
        <4> QED BY <1>1, <1>5, <3>2, <4>3, ConcatProperties
      <3> QED BY <3>1, <3>2
    <2>2. cl' \in Decoders /\ cl'.need = 0
      BY <1>5 DEF Between, Decoders
    <2>3. got' \in Seq(Results)
      BY <1>0, <1>3, <1>5, DecodedType
    <2> QED BY <2>1, <2>2, <2>3, SMT DEF ClientPayload, TypeInv, incoming
  <1> QED BY <1>4, <1>5 DEF ClientPayload, x, own

\* The octets a frame of the client puts on the stream.
LEMMA ClientFrame ==
    ASSUME NEW c \in Clients, NEW i \in Nat
    PROVE  LET h == MaskedHead(c)
               r == Run(i, IF TooLarge(LengthOctets(c)) THEN 1 ELSE 4 + Number(c.len))
           IN  /\ DOMAIN h = 1..(2 + c.form) /\ c.form \in Nat
               /\ [j \in DOMAIN h |-> Byte(h[j])] \in Seq(Octets)
               /\ Len([j \in DOMAIN h |-> Byte(h[j])]) = 2 + c.form
               /\ \A j \in 1..(2 + c.form) : [k \in DOMAIN h |-> Byte(h[k])][j] = Byte(h[j])
               /\ r \in Octets /\ <<r>> \in Seq(Octets) /\ Len(<<r>>) = 1
  <1>1. PICK h, r : /\ h = MaskedHead(c)
                    /\ r = Run(i, IF TooLarge(LengthOctets(c)) THEN 1 ELSE 4 + Number(c.len))
    OBVIOUS
  <1>2. h \in Seq(Bytes) /\ Len(h) = 2 + c.form /\ c.form \in {0, 2, 8}
    BY <1>1, MaskedHeads
  <1>3. DOMAIN h = 1..(2 + c.form) /\ c.form \in Nat /\ 2 + c.form \in Nat
    BY <1>2, LenProperties, SMT
  <1>4. LET s == [j \in 1..(2 + c.form) |-> Byte(h[j])]
        IN  s \in Seq(Octets) /\ Len(s) = 2 + c.form /\ \A j \in 1..(2 + c.form) : s[j] = Byte(h[j])
    BY <1>2, <1>3, HeaderOctets
  <1>5. c.len \in [1..8 -> Bytes]
    BY ClientsAssumption, SMT DEF Bytes
  <1>6. Number(c.len) \in Nat
    BY <1>5, NumberBounds
  <1>7. PICK m : m = IF TooLarge(LengthOctets(c)) THEN 1 ELSE 4 + Number(c.len)
    OBVIOUS
  <1>8. m \in Nat /\ m > 0
    BY <1>6, <1>7, SMT
  <1>9. r \in Octets
    BY <1>1, <1>7, <1>8, RunInOctets
  <1> QED BY <1>1, <1>3, <1>4, <1>9

\* A frame it sends.
LEMMA ClientSendsType ==
    ASSUME TypeInv, NEW c \in Clients, ClientSends(c)
    PROVE  TypeInv'
  <1> DEFINE h == MaskedHead(c)
             b == [j \in DOMAIN h |-> Byte(h[j])]
             r == Run(Len(asked'), IF TooLarge(LengthOctets(c)) THEN 1 ELSE 4 + Number(c.len))
  <1>1. asked' = Append(asked, c) /\ Len(asked) < MaxIn /\ asked \in Seq(Clients)
    BY DEF ClientSends, TypeInv
  <1>2. asked' \in Seq(Clients) /\ Len(asked') = Len(asked) + 1 /\ Len(asked) \in Nat
    BY <1>1
  <1>3. Len(asked') \in Nat /\ Len(asked') <= MaxIn
    BY <1>1, <1>2, BoundsAssumption, SMT
  <1>4. b \in Seq(Octets) /\ <<r>> \in Seq(Octets)
    BY <1>3, ClientFrame
  <1>5. in' = in \o b \o <<r>> /\ in \in Seq(Octets)
    BY DEF ClientSends, TypeInv
  <1> HIDE DEF b, r
  <1>6. in' \in Seq(Octets)
    BY <1>4, <1>5, ConcatProperties
  <1> QED BY <1>2, <1>3, <1>6 DEF ClientSends, TypeInv, outgoing, client

\* A frame the read loop takes, which has its payload.
LEMMA ReadFrameType ==
    ASSUME TypeInv, ReadFrame, Behind(in) # <<>>
    PROVE  TypeInv'
  <1> DEFINE h == Header(in)
  <1>0. in \in Seq(Octets) /\ HasHeader(in)
    BY DEF TypeInv, ReadFrame
  <1>1. /\ h \in Seq(Bytes) /\ Len(h) = 2 + Extended(h[2]) /\ Behind(in) \in Seq(Octets)
        /\ Len(h) \in 2..10
    BY <1>0, ReadHeader
  <1>2. /\ ~TooLarge(SubSeq(h, 3, Len(h)))
        /\ read' = Append(read, [op |-> h[1] % 16, n |-> PayloadLen(h)])
        /\ in' = Tail(Behind(in))
        /\ loop' = CASE h[1] % 16 = opcodePing -> "pong" [] h[1] % 16 = opcodeClose -> "closed"
                     [] OTHER -> AfterFrame
    BY DEF ReadFrame
  <1> HIDE DEF h
  <1>3. PayloadLen(h) \in Sizes
    BY <1>1, <1>2, PayloadLens
  <1>4. h[1] \in Bytes
    BY <1>1, SMT
  <1>5. PICK d : d = h[1]
    OBVIOUS
  <1>6. d \in Nat
    BY <1>4, <1>5, InBytes
  <1>7. d % 16 \in 0..15
    BY <1>6, SMT
  <1>8. PICK fr : fr = [op |-> h[1] % 16, n |-> PayloadLen(h)]
    OBVIOUS
  <1>9. fr \in Frames
    BY <1>3, <1>5, <1>7, <1>8 DEF Frames
  <1>10. read' \in Seq(Frames) /\ Len(read') > 0
    <2>1. read' = Append(read, fr) /\ read \in Seq(Frames)
      BY <1>2, <1>8 DEF TypeInv
    <2> QED BY <1>9, <2>1, SMT
  <1>11. in' \in Seq(Octets)
    BY <1>1, <1>2
  <1>12. loop' \in {"reading", "pong", "closed"}
    BY <1>2, Zenon DEF AfterFrame
  <1> QED BY <1>10, <1>11, <1>12 DEF ReadFrame, TypeInv, outgoing, client

\* Every step.
LEMMA TypeStep ==
    ASSUME TypeInv, [Next]_vars, ReadFrame => Behind(in) # <<>>
    PROVE  TypeInv'
  <1>0. Senders \subseteq Writers /\ "pinger" \in Writers /\ "loop" \in Writers
    BY DEF Writers
  <1>1. \A n \in Lengths : n \in Sizes
    BY LengthsAssumption, SMT DEF Sizes
  <1>2. 4 \in Sizes /\ opcodeText \in 0..15 /\ opcodePing \in 0..15 /\ opcodePong \in 0..15
    BY SMT DEF Sizes, opcodeText, opcodePing, opcodePong
  <1>3. ASSUME NEW x \in Senders, NEW n \in Lengths, BeginText(x, n)
        PROVE  TypeInv'
    <2>1. x \in Writers /\ n \in Sizes /\ Lock(x, opcodeText, n)
      BY <1>0, <1>1, <1>3 DEF BeginText
    <2> QED BY <1>2, <2>1, LockType
  <1>4. CASE BeginPing
    <2>1. Lock("pinger", opcodePing, 4)
      BY <1>4 DEF BeginPing
    <2> QED BY <1>0, <1>2, <2>1, LockType
  <1>5. CASE BeginPong
    <2>1. Lock("loop", opcodePong, read[Len(read)].n) /\ Len(read) > 0 /\ read \in Seq(Frames)
      BY <1>5 DEF BeginPong, TypeInv
    <2>2. read[Len(read)] \in Frames
      BY <2>1, SMT
    <2>3. read[Len(read)].n \in Sizes
      BY <2>2 DEF Frames
    <2> QED BY <1>0, <1>2, <2>1, <2>3, LockType
  <1>6. CASE ReadFails
    BY <1>6 DEF ReadFails, TypeInv, outgoing, client, incoming
  <1>7. CASE UNCHANGED vars
    BY <1>7 DEF vars, TypeInv, outgoing, client, incoming
  <1> QED BY <1>3, <1>4, <1>5, <1>6, <1>7, WriteFrameType, ClientHeaderType, ClientPayloadType,
             ClientSendsType, ReadFrameType DEF Next

----------------------------------------------------------------------------
(* The read loop.                                                          *)

\* pos[i] is where the i-th frame of the client begins in what the read loop
\* has yet to read: its header, and one element for mask and payload.
InCut(pos) ==
    /\ pos \in [Nat -> Nat]
    /\ pos[Len(read) + 1] = 0 /\ pos[Len(asked) + 1] = Len(in)
    /\ \A i \in (Len(read) + 1)..Len(asked) :
          /\ pos[i + 1] = pos[i] + asked[i].form + 3
          /\ \A j \in 1..(2 + asked[i].form) : in[pos[i] + j] = Byte(MaskedHead(asked[i])[j])
          /\ \A k \in (i + 1)..(Len(asked) + 1) : pos[i] + asked[i].form + 3 <= pos[k]

\* What ReadFrame returned is what was sent, and the rest is still to be read.
InInv ==
    /\ Len(read) <= Len(asked)
    /\ \A i \in 1..Len(read) :
          /\ read[i].op = asked[i].op /\ asked[i].masked
          /\ BigEndian(read[i].n, 8) = asked[i].len
    /\ \E pos : InCut(pos)

LEMMA InInit == Init => InInv
  <1> SUFFICES ASSUME Init PROVE InInv
    OBVIOUS
  <1>1. Len(read) = 0 /\ Len(asked) = 0 /\ Len(in) = 0
    BY DEF Init
  <1>2. InCut([i \in Nat |-> 0])
    BY <1>1, SMT DEF InCut
  <1> QED BY <1>1, <1>2, SMT DEF InInv

\* The header of a frame of the client.
LEMMA ClientForms ==
    TypeInv => /\ Len(asked) \in Nat /\ Len(read) \in Nat /\ Len(in) \in Nat
               /\ \A i \in 1..Len(asked) : asked[i] \in Clients /\ asked[i].form \in Nat
  <1> SUFFICES ASSUME TypeInv
               PROVE  /\ Len(asked) \in Nat /\ Len(read) \in Nat /\ Len(in) \in Nat
                      /\ \A i \in 1..Len(asked) : asked[i] \in Clients /\ asked[i].form \in Nat
    OBVIOUS
  <1>1. asked \in Seq(Clients) /\ read \in Seq(Frames) /\ in \in Seq(Octets)
    BY DEF TypeInv
  <1>2. Len(asked) \in Nat /\ Len(read) \in Nat /\ Len(in) \in Nat
    BY <1>1, LenProperties
  <1>3. \A i \in 1..Len(asked) : asked[i] \in Clients
    BY <1>1, ElementOfSeq
  <1>4. \A c \in Clients : c.form \in Nat
    <2>1. \A c \in Clients : c.form \in {0, 2, 8}
      BY MaskedHeads
    <2> QED BY <2>1, SMT
  <1> QED BY <1>2, <1>3, <1>4

\* The frame at the head of what the read loop has to read.
LEMMA FirstIn ==
    ASSUME TypeInv, InInv, in # <<>>
    PROVE  LET c == asked[Len(read) + 1]
           IN  /\ Len(read) < Len(asked) /\ c \in Clients /\ Len(in) >= c.form + 3
               /\ \A j \in 1..(2 + c.form) : in[j] = Byte(MaskedHead(c)[j])
  <1>1. PICK pos : InCut(pos)
    BY DEF InInv
  <1>2. /\ Len(asked) \in Nat /\ Len(read) \in Nat /\ Len(in) \in Nat
        /\ \A i \in 1..Len(asked) : asked[i] \in Clients /\ asked[i].form \in Nat
    BY ClientForms
  <1>3. Len(in) # 0
    BY EmptySeq DEF TypeInv
  <1>4. Len(read) # Len(asked)
    BY <1>1, <1>2, <1>3 DEF InCut
  <1>5. Len(read) < Len(asked)
    BY <1>2, <1>4, SMT DEF InInv
  <1>6. PICK g, c : g = Len(read) + 1 /\ c = asked[Len(read) + 1]
    OBVIOUS
  <1>7. /\ g \in (Len(read) + 1)..Len(asked) /\ g \in 1..Len(asked) /\ pos[g] = 0
        /\ pos[Len(asked) + 1] = Len(in) /\ Len(asked) + 1 \in (g + 1)..(Len(asked) + 1)
    <2>1. pos[g] = 0 /\ pos[Len(asked) + 1] = Len(in)
      BY <1>1, <1>6 DEF InCut
    <2>2. /\ g \in (Len(read) + 1)..Len(asked) /\ g \in 1..Len(asked)
          /\ Len(asked) + 1 \in (g + 1)..(Len(asked) + 1)
      BY <1>2, <1>5, <1>6, SMT
    <2> QED BY <2>1, <2>2
  <1>8. c \in Clients /\ c.form \in Nat /\ c = asked[g]
    BY <1>2, <1>6, <1>7
  <1>9. /\ \A j \in 1..(2 + c.form) : in[pos[g] + j] = Byte(MaskedHead(c)[j])
        /\ pos[g] + c.form + 3 <= pos[Len(asked) + 1]
    BY <1>1, <1>7, <1>8 DEF InCut
  <1>10. Len(in) >= c.form + 3
    <2>1. 0 + c.form + 3 <= Len(in)
      BY <1>7, <1>9
    <2> QED BY <1>2, <1>8, <2>1, SMT
  <1>11. \A j \in 1..(2 + c.form) : in[j] = Byte(MaskedHead(c)[j])
    BY <1>7, <1>8, <1>9, SMT
  <1> QED BY <1>5, <1>6, <1>8, <1>10, <1>11

\* Where the frames are cut, the read loop is at a header.
LEMMA InInvImpliesReads == TypeInv /\ InInv => ReadsWhatWasSent
  <1> SUFFICES ASSUME TypeInv, InInv PROVE ReadsWhatWasSent
    OBVIOUS
  <1>1. DOMAIN read = 1..Len(read)
    BY DEF TypeInv
  <1>2. ASSUME in # <<>>
        PROVE  Len(in) >= 3 /\ in[1].f = 0 /\ in[2].f = 0
    <2>1. PICK c : c = asked[Len(read) + 1]
      OBVIOUS
    <2>2. /\ c \in Clients /\ Len(in) >= c.form + 3
          /\ \A j \in 1..(2 + c.form) : in[j] = Byte(MaskedHead(c)[j])
      BY <1>2, <2>1, FirstIn
    <2>3. c.form \in {0, 2, 8} /\ Len(in) \in Nat
      BY <2>2, MaskedHeads, ClientForms
    <2>4. Len(in) >= 3 /\ 1 \in 1..(2 + c.form) /\ 2 \in 1..(2 + c.form)
      BY <2>2, <2>3, SMT
    <2>5. in[1] = Byte(MaskedHead(c)[1]) /\ in[2] = Byte(MaskedHead(c)[2])
      BY <2>2, <2>4
    <2>6. \A b : Byte(b).f = 0
      BY DEF Byte
    <2> QED BY <2>4, <2>5, <2>6
  <1> QED BY <1>1, <1>2 DEF InInv, ReadsWhatWasSent

\* Two streams one behind the other.
LEMMA Joined ==
    ASSUME NEW s \in Seq(Octets), NEW t \in Seq(Octets)
    PROVE  /\ s \o t \in Seq(Octets) /\ Len(s) \in Nat /\ Len(t) \in Nat
           /\ Len(s \o t) = Len(s) + Len(t)
           /\ \A k \in 1..Len(s) : (s \o t)[k] = s[k]
           /\ \A j \in 1..Len(t) : (s \o t)[Len(s) + j] = t[j]
  <1>1. Len(s) \in Nat /\ Len(t) \in Nat
    BY LenProperties
  <1> QED BY <1>1, SMT

\* A frame the client sends begins where the stream ended.
LEMMA InClientSends ==
    ASSUME TypeInv, InInv, NEW c \in Clients, ClientSends(c)
    PROVE  InInv'
  <1> DEFINE h == MaskedHead(c)
             b == [j \in DOMAIN h |-> Byte(h[j])]
             r == Run(Len(asked'), IF TooLarge(LengthOctets(c)) THEN 1 ELSE 4 + Number(c.len))
             A == Len(asked)
             G == Len(read)
             L == Len(in)
  <1>1. PICK pos : InCut(pos)
    BY DEF InInv
  <1>2. /\ A \in Nat /\ G \in Nat /\ L \in Nat /\ G <= A
        /\ \A i \in 1..A : asked[i] \in Clients /\ asked[i].form \in Nat
    BY ClientForms DEF InInv
  <1>3. asked' = Append(asked, c) /\ read' = read /\ asked \in Seq(Clients) /\ in \in Seq(Octets)
    BY DEF ClientSends, TypeInv
  <1>4. /\ Len(asked') = A + 1 /\ asked'[A + 1] = c
        /\ \A i \in 1..A : asked'[i] = asked[i]
    BY <1>3
  <1>5. Len(asked') \in Nat
    BY <1>2, <1>4, SMT
  <1>6. /\ b \in Seq(Octets) /\ Len(b) = 2 + c.form /\ c.form \in Nat
        /\ \A j \in 1..(2 + c.form) : b[j] = Byte(h[j])
        /\ <<r>> \in Seq(Octets) /\ Len(<<r>>) = 1
    BY <1>5, ClientFrame
  <1>7. in' = (in \o b) \o <<r>>
    BY DEF ClientSends
  <1> HIDE DEF h, b, r
  <1>8. /\ Len(in') = L + c.form + 3
        /\ \A k \in 1..L : in'[k] = in[k]
        /\ \A j \in 1..(2 + c.form) : in'[L + j] = Byte(h[j])
    <2>1. PICK t, n : t = in \o b /\ n = c.form
      OBVIOUS
    <2>2. /\ t \in Seq(Octets) /\ Len(t) = L + (2 + n) /\ n \in Nat
          /\ \A k \in 1..L : t[k] = in[k]
          /\ \A j \in 1..(2 + n) : t[L + j] = b[j]
      <3>1. in \in Seq(Octets) /\ b \in Seq(Octets)
        BY <1>3, <1>6
      <3>2. /\ in \o b \in Seq(Octets) /\ Len(in \o b) = Len(in) + Len(b)
            /\ \A k \in 1..Len(in) : (in \o b)[k] = in[k]
            /\ \A j \in 1..Len(b) : (in \o b)[Len(in) + j] = b[j]
        BY <3>1, Joined
      <3>3. Len(b) = 2 + n /\ n \in Nat
        BY <1>6, <2>1
      <3> QED BY <2>1, <3>2, <3>3, Zenon
    <2>3. in' = t \o <<r>>
      BY <1>7, <2>1
    <2>4. Len(in') = (L + (2 + n)) + 1 /\ \A k \in 1..(L + (2 + n)) : in'[k] = t[k]
      <3>1. t \in Seq(Octets) /\ <<r>> \in Seq(Octets)
        BY <1>6, <2>2
      <3>2. /\ Len(t \o <<r>>) = Len(t) + Len(<<r>>)
            /\ \A k \in 1..Len(t) : (t \o <<r>>)[k] = t[k]
        BY <3>1, Joined
      <3>3. Len(t) = L + (2 + n) /\ Len(<<r>>) = 1
        BY <1>6, <2>2
      <3> QED BY <2>3, <3>2, <3>3, Zenon
    <2>5. (L + (2 + n)) + 1 = L + n + 3
      BY <1>2, <2>2, SMT
    <2>6. \A k \in 1..L : k \in 1..(L + (2 + n))
      BY <1>2, <2>2, SMT
    <2>7. \A j \in 1..(2 + n) : L + j \in 1..(L + (2 + n))
      BY <1>2, <2>2, SMT
    <2> QED BY <1>6, <2>1, <2>2, <2>4, <2>5, <2>6, <2>7
  <1> HIDE DEF A, G, L
  <1>9. /\ pos \in [Nat -> Nat] /\ pos[G + 1] = 0 /\ pos[A + 1] = L
        /\ \A i \in (G + 1)..A :
              /\ pos[i + 1] = pos[i] + asked[i].form + 3
              /\ \A j \in 1..(2 + asked[i].form) : in[pos[i] + j] = Byte(MaskedHead(asked[i])[j])
              /\ \A k \in (i + 1)..(A + 1) : pos[i] + asked[i].form + 3 <= pos[k]
    BY <1>1 DEF InCut, A, G, L
  <1>10. PICK p : p = [i \in Nat |-> IF i = A + 2 THEN L + c.form + 3 ELSE pos[i]]
    OBVIOUS
  <1>11. /\ p \in [Nat -> Nat] /\ p[A + 2] = L + c.form + 3 /\ p[A + 1] = L /\ p[G + 1] = 0
         /\ \A i \in 0..(A + 1) : p[i] = pos[i]
    <2>1. PICK e : e = L + c.form + 3
      OBVIOUS
    <2>2. e \in Nat /\ A + 2 \in Nat /\ A + 1 \in 0..(A + 1) /\ G + 1 \in 0..(A + 1)
      BY <1>2, <1>6, <2>1, SMT
    <2>3. \A i \in 0..(A + 1) : i \in Nat /\ i # A + 2
      BY <1>2, SMT
    <2>4. p = [i \in Nat |-> IF i = A + 2 THEN e ELSE pos[i]]
      BY <1>10, <2>1
    <2>5. p \in [Nat -> Nat] /\ p[A + 2] = e /\ \A i \in 0..(A + 1) : p[i] = pos[i]
      BY <1>9, <2>2, <2>3, <2>4
    <2> QED BY <1>9, <2>1, <2>2, <2>5
  <1>12. ASSUME NEW i \in (G + 1)..A
         PROVE  /\ p[i + 1] = p[i] + asked'[i].form + 3
                /\ \A j \in 1..(2 + asked'[i].form) :
                      in'[p[i] + j] = Byte(MaskedHead(asked'[i])[j])
                /\ \A k \in (i + 1)..(A + 2) : p[i] + asked'[i].form + 3 <= p[k]
    <2>1. /\ i \in 1..A /\ i \in 0..(A + 1) /\ i + 1 \in 0..(A + 1) /\ A + 1 \in (i + 1)..(A + 1)
          /\ i \in Nat
      BY <1>2, SMT
    <2>2. PICK f, q : f = asked[i].form /\ q = pos[i]
      OBVIOUS
    <2>3. f \in Nat /\ q \in Nat /\ asked'[i] = asked[i] /\ p[i] = q /\ p[i + 1] = pos[i + 1]
      BY <1>2, <1>4, <1>9, <1>11, <2>1, <2>2
    <2>4. pos[i + 1] = q + f + 3 /\ q + f + 3 <= L
      BY <1>9, <2>1, <2>2
    <2>5. \A j \in 1..(2 + f) : in'[q + j] = Byte(MaskedHead(asked[i])[j])
      <3> SUFFICES ASSUME NEW j \in 1..(2 + f)
                   PROVE  in'[q + j] = Byte(MaskedHead(asked[i])[j])
        OBVIOUS
      <3>1. q + j \in 1..L
        BY <1>2, <2>3, <2>4, SMT
      <3> QED BY <1>8, <1>9, <2>2, <3>1
    <2>6. \A k \in (i + 1)..(A + 2) : q + f + 3 <= p[k]
      <3> SUFFICES ASSUME NEW k \in (i + 1)..(A + 2)
                   PROVE  q + f + 3 <= p[k]
        OBVIOUS
      <3>1. CASE k = A + 2
        <4>1. PICK n : n = c.form
          OBVIOUS
        <4>2. p[k] = L + n + 3 /\ n \in Nat
          BY <1>6, <1>11, <3>1, <4>1
        <4> QED BY <1>2, <2>3, <2>4, <4>2, SMT
      <3>2. CASE k # A + 2
        <4>1. k \in (i + 1)..(A + 1) /\ k \in 0..(A + 1)
          BY <1>2, <2>1, <3>2, SMT
        <4> QED BY <1>9, <1>11, <2>2, <4>1
      <3> QED BY <3>1, <3>2
    <2> QED BY <2>2, <2>3, <2>4, <2>5, <2>6
  <1>13. /\ p[(A + 1) + 1] = p[A + 1] + asked'[A + 1].form + 3
         /\ \A j \in 1..(2 + asked'[A + 1].form) :
               in'[p[A + 1] + j] = Byte(MaskedHead(asked'[A + 1])[j])
         /\ \A k \in ((A + 1) + 1)..(A + 2) : p[A + 1] + asked'[A + 1].form + 3 <= p[k]
    <2>1. (A + 1) + 1 = A + 2 /\ \A k \in ((A + 1) + 1)..(A + 2) : k = A + 2
      BY <1>2, SMT
    <2>2. asked'[A + 1] = c
      BY <1>4 DEF A
    <2>3. L + c.form + 3 <= L + c.form + 3
      BY <1>2, <1>6, SMT
    <2> QED BY <1>8, <1>11, <2>1, <2>2, <2>3 DEF h
  <1>14. InCut(p)'
    <2>1. Len(asked') = A + 1 /\ Len(read') = G /\ Len(in') = L + c.form + 3 /\ (A + 1) + 1 = A + 2
      BY <1>2, <1>3, <1>4, <1>8, SMT DEF A, G, L
    <2>2. \A i \in (G + 1)..(A + 1) : i \in (G + 1)..A \/ i = A + 1
      BY <1>2, SMT
    <2>3. \A i \in (G + 1)..(A + 1) :
             /\ p[i + 1] = p[i] + asked'[i].form + 3
             /\ \A j \in 1..(2 + asked'[i].form) :
                   in'[p[i] + j] = Byte(MaskedHead(asked'[i])[j])
             /\ \A k \in (i + 1)..(A + 2) : p[i] + asked'[i].form + 3 <= p[k]
      BY <1>12, <1>13, <2>2
    <2> QED BY <1>11, <2>1, <2>3, Zenon DEF InCut
  <1>15. \A i \in 1..G : i \in 1..A /\ asked'[i] = asked[i]
    <2>1. \A i \in 1..G : i \in 1..A
      BY <1>2, SMT
    <2> QED BY <1>4, <2>1 DEF A
  <1>16. Len(read') <= Len(asked')
    BY <1>2, <1>3, <1>4, SMT DEF A, G
  <1> QED BY <1>3, <1>14, <1>15, <1>16 DEF InInv, G

\* A stream without its first d octets.
LEMMA Dropped ==
    ASSUME NEW s \in Seq(Octets), NEW d \in Nat, d >= 1, d <= Len(s)
    PROVE  LET t == SubSeq(s, d, Len(s))
           IN  /\ t \in Seq(Octets) /\ Len(t) = Len(s) - d + 1 /\ t # <<>>
               /\ Len(s) - d \in Nat /\ Len(Tail(t)) = Len(s) - d
               /\ \A k \in 1..(Len(s) - d) : Tail(t)[k] = s[d + k]
  <1>1. PICK t, n : t = SubSeq(s, d, Len(s)) /\ n = Len(s)
    OBVIOUS
  <1>2. n \in Nat /\ d <= n /\ s \in Seq(Octets) /\ Len(s) = n
    BY <1>1, LenProperties
  <1>3. t = SubSeq(s, d, n)
    BY <1>1
  <1>4. d \in 1..(n + 1) /\ n \in (d - 1)..n
    BY <1>2, SMT
  <1>5. /\ t \in Seq(Octets) /\ Len(t) = n - d + 1
        /\ \A k \in 1..(n - d + 1) : t[k] = s[d + k - 1]
    BY <1>2, <1>3, <1>4, SMT
  <1>6. n - d \in Nat /\ Len(t) # 0
    BY <1>2, <1>5, SMT
  <1>7. t # <<>>
    BY <1>6
  <1>8. Len(Tail(t)) = n - d /\ \A k \in 1..(n - d) : Tail(t)[k] = t[k + 1]
    BY <1>2, <1>5, <1>6, <1>7, SMT
  <1>9. \A k \in 1..(n - d) : k + 1 \in 1..(n - d + 1) /\ d + (k + 1) - 1 = d + k
    BY <1>2, SMT
  <1>10. \A k \in 1..(n - d) : Tail(t)[k] = s[d + k]
    BY <1>5, <1>8, <1>9
  <1> QED BY <1>1, <1>5, <1>6, <1>7, <1>8, <1>10

\* ReadFrame takes the first frame whole.
LEMMA ReadsFirst ==
    ASSUME TypeInv, InInv, ReadFrame
    PROVE  LET c == asked[Len(read) + 1]
               d == c.form + 3
           IN  /\ Behind(in) # <<>> /\ c \in Clients /\ Len(read) < Len(asked)
               /\ \E f : /\ read' = Append(read, f)
                         /\ f.op = c.op /\ c.masked /\ BigEndian(f.n, 8) = c.len
               /\ d \in Nat /\ d <= Len(in) /\ Len(in') = Len(in) - d
               /\ \A k \in 1..(Len(in) - d) : in'[k] = in[d + k]
  <1>1. in \in Seq(Octets) /\ HasHeader(in) /\ Len(in) \in Nat
    BY LenProperties DEF TypeInv, ReadFrame
  <1>2. in # <<>>
    BY <1>1, SMT DEF HasHeader
  <1>3. PICK c, h : c = asked[Len(read) + 1] /\ h = MaskedHead(c)
    OBVIOUS
  <1>4. /\ Len(read) < Len(asked) /\ c \in Clients /\ Len(in) >= c.form + 3
        /\ \A j \in 1..(2 + c.form) : in[j] = Byte(h[j])
    BY <1>2, <1>3, FirstIn
  <1>5. /\ h \in Seq(Bytes) /\ Len(h) = 2 + c.form /\ c.form \in {0, 2, 8}
        /\ Extended(h[2]) = c.form /\ h[1] % 16 = c.op /\ (h[2] >= 128 <=> c.masked)
        /\ SubSeq(h, 3, Len(h)) = LengthOctets(c)
        /\ ~TooLarge(LengthOctets(c)) => BigEndian(PayloadLen(h), 8) = c.len
    BY <1>3, <1>4, MaskedHeads
  <1>6. Len(h) >= 2 /\ Len(h) = 2 + Extended(h[2]) /\ Len(h) <= Len(in) /\ 2 \in 1..(2 + c.form)
    <2>1. PICK n, m : n = c.form /\ m = Len(in)
      OBVIOUS
    <2>2. n \in {0, 2, 8} /\ m \in Nat /\ m >= n + 3 /\ Len(h) = 2 + n /\ Extended(h[2]) = n
      BY <1>1, <1>4, <1>5, <2>1
    <2>3. 2 + n >= 2 /\ 2 + n <= m /\ 2 \in 1..(2 + n)
      BY <2>2, SMT
    <2> QED BY <2>1, <2>2, <2>3
  <1>7. Header(in) = h
    BY <1>1, <1>4, <1>5, <1>6, ReadHeaderWritten
  <1>8. c.masked
    <2>1. in[2] = Byte(h[2]) /\ in[2].b >= 128
      BY <1>4, <1>6 DEF ReadFrame
    <2>2. in[2].b = h[2]
      BY <2>1 DEF Byte
    <2> QED BY <1>5, <2>1, <2>2
  <1>9. \E f : read' = Append(read, f) /\ f.op = c.op /\ c.masked /\ BigEndian(f.n, 8) = c.len
    <2>1. PICK f : f = [op |-> h[1] % 16, n |-> PayloadLen(h)]
      OBVIOUS
    <2>2. read' = Append(read, f) /\ ~TooLarge(LengthOctets(c))
      BY <1>5, <1>7, <2>1 DEF ReadFrame
    <2>3. f.op = c.op /\ f.n = PayloadLen(h)
      BY <1>5, <2>1
    <2> QED BY <1>5, <1>8, <2>2, <2>3
  <1>10. PICK d, m : d = c.form + 3 /\ m = Len(h) + 1
    OBVIOUS
  <1>11. d \in Nat /\ d <= Len(in) /\ d = m /\ d >= 1
    <2>1. PICK n, l : n = c.form /\ l = Len(in)
      OBVIOUS
    <2>2. n \in {0, 2, 8} /\ l \in Nat /\ l >= n + 3 /\ Len(h) = 2 + n
      BY <1>1, <1>4, <1>5, <2>1
    <2>3. n + 3 \in Nat /\ n + 3 <= l /\ n + 3 = (2 + n) + 1 /\ n + 3 >= 1
      BY <2>2, SMT
    <2> QED BY <1>10, <2>1, <2>2, <2>3
  <1>12. in' = Tail(SubSeq(in, d, Len(in)))
    BY <1>7, <1>10, <1>11 DEF ReadFrame, Behind
  <1>13. Behind(in) = SubSeq(in, d, Len(in))
    BY <1>7, <1>10, <1>11 DEF Behind
  <1>14. /\ Behind(in) # <<>> /\ Len(in') = Len(in) - d
         /\ \A k \in 1..(Len(in) - d) : in'[k] = in[d + k]
    BY <1>1, <1>11, <1>12, <1>13, Dropped
  <1> QED BY <1>3, <1>4, <1>9, <1>10, <1>11, <1>14

\* The read loop goes on at the next frame.
LEMMA InReadFrame ==
    ASSUME TypeInv, InInv, ReadFrame
    PROVE  InInv'
  <1> DEFINE A == Len(asked)
             G == Len(read)
             L == Len(in)
  <1>1. PICK pos : InCut(pos)
    BY DEF InInv
  <1>2. /\ A \in Nat /\ G \in Nat /\ L \in Nat
        /\ \A i \in 1..A : asked[i] \in Clients /\ asked[i].form \in Nat
    BY ClientForms DEF InInv
  <1>3. PICK c, d : c = asked[G + 1] /\ d = c.form + 3
    OBVIOUS
  <1>4. /\ G < A /\ d \in Nat /\ d <= L /\ Len(in') = L - d
        /\ \A k \in 1..(L - d) : in'[k] = in[d + k]
    BY <1>3, ReadsFirst
  <1>5. PICK f : read' = Append(read, f) /\ f.op = c.op /\ c.masked /\ BigEndian(f.n, 8) = c.len
    BY <1>3, ReadsFirst
  <1>6. /\ Len(read') = G + 1 /\ read'[G + 1] = f /\ asked' = asked
        /\ \A i \in 1..G : read'[i] = read[i]
    BY <1>5 DEF TypeInv, ReadFrame
  <1>7. /\ pos \in [Nat -> Nat] /\ pos[G + 1] = 0 /\ pos[A + 1] = L
        /\ \A i \in (G + 1)..A :
              /\ pos[i + 1] = pos[i] + asked[i].form + 3
              /\ \A j \in 1..(2 + asked[i].form) : in[pos[i] + j] = Byte(MaskedHead(asked[i])[j])
              /\ \A k \in (i + 1)..(A + 1) : pos[i] + asked[i].form + 3 <= pos[k]
    BY <1>1 DEF InCut
  <1>8. \A i \in 1..(G + 1) : /\ read'[i].op = asked[i].op /\ asked[i].masked
                              /\ BigEndian(read'[i].n, 8) = asked[i].len
    <2>1. \A i \in 1..(G + 1) : i \in 1..G \/ i = G + 1
      BY <1>2, SMT
    <2>2. \A i \in 1..G : /\ read[i].op = asked[i].op /\ asked[i].masked
                          /\ BigEndian(read[i].n, 8) = asked[i].len
      BY DEF InInv
    <2> QED BY <1>3, <1>5, <1>6, <2>1, <2>2
  <1> HIDE DEF A, G, L
  <1>9. \A k \in (G + 2)..(A + 1) : pos[k] \in Nat /\ d <= pos[k] /\ pos[k] - d \in Nat
    <2> SUFFICES ASSUME NEW k \in (G + 2)..(A + 1)
                 PROVE  pos[k] \in Nat /\ d <= pos[k] /\ pos[k] - d \in Nat
      OBVIOUS
    <2>1. k \in Nat /\ G + 1 \in (G + 1)..A /\ k \in ((G + 1) + 1)..(A + 1) /\ G + 1 \in 1..A
      BY <1>2, <1>4, SMT
    <2>2. pos[k] \in Nat /\ 0 + c.form + 3 <= pos[k] /\ c.form \in Nat
      BY <1>2, <1>3, <1>7, <2>1
    <2>3. PICK n, q : n = c.form /\ q = pos[k]
      OBVIOUS
    <2>4. n \in Nat /\ q \in Nat /\ 0 + n + 3 <= q /\ d = n + 3
      BY <1>3, <2>2, <2>3
    <2>5. d <= q /\ q - d \in Nat
      BY <2>4, SMT
    <2> QED BY <2>2, <2>3, <2>5
  <1>10. PICK p : p = [i \in Nat |-> IF i \in (G + 2)..(A + 1) THEN pos[i] - d ELSE 0]
    OBVIOUS
  <1>11. p \in [Nat -> Nat] /\ \A i \in (G + 2)..(A + 1) : p[i] = pos[i] - d
    <2>1. 0 \in Nat /\ \A i \in (G + 2)..(A + 1) : i \in Nat
      BY <1>2, SMT
    <2> QED BY <1>9, <1>10, <2>1
  <1>12. p[G + 2] = 0 /\ p[A + 1] = L - d
    <2>1. G + 2 \in (G + 2)..(A + 1) /\ A + 1 \in (G + 2)..(A + 1) /\ G + 1 \in (G + 1)..A
          /\ (G + 1) + 1 = G + 2
      BY <1>2, <1>4, SMT
    <2>2. pos[G + 2] = 0 + c.form + 3 /\ c.form \in Nat
      <3>1. G + 1 \in 1..A
        BY <1>2, <1>4, SMT
      <3> QED BY <1>2, <1>3, <1>7, <2>1, <3>1
    <2>3. PICK n : n = c.form
      OBVIOUS
    <2>4. n \in Nat /\ pos[G + 2] = 0 + n + 3 /\ d = n + 3
      BY <1>3, <2>2, <2>3
    <2>5. (0 + n + 3) - (n + 3) = 0
      BY <2>4, SMT
    <2> QED BY <1>7, <1>11, <2>1, <2>4, <2>5
  <1>13. ASSUME NEW i \in (G + 2)..A
         PROVE  /\ p[i + 1] = p[i] + asked[i].form + 3
                /\ \A j \in 1..(2 + asked[i].form) : in'[p[i] + j] = Byte(MaskedHead(asked[i])[j])
                /\ \A k \in (i + 1)..(A + 1) : p[i] + asked[i].form + 3 <= p[k]
    <2>1. /\ i \in (G + 1)..A /\ i \in 1..A /\ i \in (G + 2)..(A + 1)
          /\ i + 1 \in (G + 2)..(A + 1) /\ A + 1 \in (i + 1)..(A + 1)
          /\ \A k \in (i + 1)..(A + 1) : k \in (G + 2)..(A + 1)
      BY <1>2, SMT
    <2>2. PICK n, q : n = asked[i].form /\ q = pos[i]
      OBVIOUS
    <2>3. n \in Nat /\ q \in Nat /\ d <= q /\ p[i] = q - d /\ p[i + 1] = pos[i + 1] - d
      BY <1>2, <1>9, <1>11, <2>1, <2>2
    <2>4. pos[i + 1] = q + n + 3 /\ q + n + 3 <= L
      BY <1>7, <2>1, <2>2
    <2>5. (q + n + 3) - d = (q - d) + n + 3
      BY <1>4, <2>3, SMT
    <2>6. \A j \in 1..(2 + n) : in'[(q - d) + j] = Byte(MaskedHead(asked[i])[j])
      <3> SUFFICES ASSUME NEW j \in 1..(2 + n)
                   PROVE  in'[(q - d) + j] = Byte(MaskedHead(asked[i])[j])
        OBVIOUS
      <3>1. (q - d) + j \in 1..(L - d) /\ d + ((q - d) + j) = q + j
        BY <1>2, <1>4, <2>3, <2>4, SMT
      <3> QED BY <1>4, <1>7, <2>1, <2>2, <3>1
    <2>7. \A k \in (i + 1)..(A + 1) : (q - d) + n + 3 <= p[k]
      <3> SUFFICES ASSUME NEW k \in (i + 1)..(A + 1)
                   PROVE  (q - d) + n + 3 <= p[k]
        OBVIOUS
      <3>1. PICK r : r = pos[k]
        OBVIOUS
      <3>2. p[k] = r - d /\ r \in Nat /\ q + n + 3 <= r
        BY <1>7, <1>9, <1>11, <2>1, <2>2, <3>1
      <3>3. (q - d) + n + 3 <= r - d
        BY <1>4, <2>3, <3>2, SMT
      <3> QED BY <3>2, <3>3
    <2> QED BY <2>2, <2>3, <2>4, <2>5, <2>6, <2>7
  <1>14. InCut(p)'
    <2>1. Len(asked') = A /\ Len(read') = G + 1 /\ Len(in') = L - d /\ (G + 1) + 1 = G + 2
      BY <1>2, <1>4, <1>6, SMT DEF A, G, L
    <2> QED BY <1>6, <1>11, <1>12, <1>13, <2>1, Zenon DEF InCut
  <1>15. Len(read') <= Len(asked')
    BY <1>2, <1>4, <1>6, SMT DEF A, G
  <1> QED BY <1>6, <1>8, <1>14, <1>15 DEF InInv, G

LEMMA InStep ==
    ASSUME TypeInv, InInv, [Next]_vars
    PROVE  InInv' /\ (ReadFrame => Behind(in) # <<>>)
  <1>1. ASSUME UNCHANGED incoming PROVE InInv'
    <2>1. asked' = asked /\ in' = in /\ read' = read
      BY <1>1 DEF incoming
    <2>2. PICK pos : InCut(pos)
      BY DEF InInv
    <2>3. InCut(pos)'
      BY <2>1, <2>2 DEF InCut
    <2>4. /\ Len(read') <= Len(asked')
          /\ \A i \in 1..Len(read') :
                /\ read'[i].op = asked'[i].op /\ asked'[i].masked
                /\ BigEndian(read'[i].n, 8) = asked'[i].len
      BY <2>1 DEF InInv
    <2> QED BY <2>3, <2>4 DEF InInv
  <1>2. ASSUME NEW x \in Writers, WriteFrame(x) PROVE UNCHANGED incoming
    BY <1>2 DEF WriteFrame, WriteHead, WriteBody, WriteClosed, Tear
  <1>3. ReadFrame => Behind(in) # <<>>
    BY ReadsFirst
  <1>4. ASSUME NEW x, NEW op, NEW n, Lock(x, op, n) PROVE UNCHANGED incoming
    BY <1>4 DEF Lock
  <1>5. ASSUME \/ \E x \in Senders, n \in Lengths : BeginText(x, n)
               \/ BeginPing \/ BeginPong
               \/ \E x \in Writers : WriteFrame(x)
               \/ ClientHeader \/ ClientPayload \/ ReadFails \/ UNCHANGED vars
        PROVE  InInv'
    BY <1>1, <1>2, <1>4, <1>5
       DEF BeginText, BeginPing, BeginPong, ClientHeader, ClientPayload, ReadFails, vars
  <1> QED BY <1>3, <1>5, InClientSends, InReadFrame DEF Next

----------------------------------------------------------------------------
(* The client.                                                             *)

Hd(f) == FrameHead(f.op, f.n)

\* The elements of a frame on the stream: its header, and one for its payload.
Size(f) == Len(Hd(f)) + IF f.n = 0 THEN 0 ELSE 1

\* The header of f stands behind position p of v.
Starts(v, p, f) == \A j \in 1..Len(Hd(f)) : v[p + j] = Byte(Hd(f)[j])

\* The i-th frame does, whole.
FrameAt(v, p, i, f) ==
    Starts(v, p, f) /\ (f.n # 0 => v[p + Len(Hd(f)) + 1] = Run(i, f.n))

\* v begins with the frames s[g] to s[last], of which the i-th is behind pos[i].
Layout(v, s, g, last, pos) ==
    /\ pos \in [Nat -> Nat] /\ pos[g] = 0
    /\ \A i \in g..last :
          /\ pos[i + 1] = pos[i] + Size(s[i]) /\ FrameAt(v, pos[i], i, s[i])
          /\ \A k \in (i + 1)..(last + 1) : pos[i] + Size(s[i]) <= pos[k]

\* The header and the size of a frame of writeFrame.
LEMMA FrameFacts ==
    ASSUME NEW f \in Frames
    PROVE  /\ f.op \in 0..15 /\ f.n \in Sizes /\ f.n \in Nat
           /\ Hd(f) \in Seq(Bytes) /\ Len(Hd(f)) \in Nat /\ Len(Hd(f)) >= 2
           /\ Len(Hd(f)) = 2 + Extended(Hd(f)[2])
           /\ Hd(f)[1] >= 128 /\ Hd(f)[1] % 16 = f.op /\ Hd(f)[2] < 128
           /\ PayloadLen(Hd(f)) = f.n
           /\ Size(f) \in Nat /\ Size(f) >= Len(Hd(f)) /\ (f.n = 0 => Size(f) = Len(Hd(f)))
           /\ (f.n # 0 => Size(f) = Len(Hd(f)) + 1)
  <1>1. f.op \in 0..15 /\ f.n \in Sizes
    BY DEF Frames
  <1>2. f.n \in Nat
    BY <1>1, SizesInNat
  <1>3. /\ Hd(f) \in Seq(Bytes) /\ Len(Hd(f)) \in Nat /\ Len(Hd(f)) >= 2
        /\ Len(Hd(f)) = 2 + Extended(Hd(f)[2])
        /\ Hd(f)[1] >= 128 /\ Hd(f)[1] % 16 = f.op /\ Hd(f)[2] < 128
        /\ PayloadLen(Hd(f)) = f.n
    BY <1>1, FrameHeads DEF Hd
  <1>4. PICK m : m = Len(Hd(f))
    OBVIOUS
  <1>5. m \in Nat /\ Size(f) = m + IF f.n = 0 THEN 0 ELSE 1
    BY <1>3, <1>4 DEF Size
  <1>6. /\ Size(f) \in Nat /\ Size(f) >= m /\ (f.n = 0 => Size(f) = m)
        /\ (f.n # 0 => Size(f) = m + 1)
    BY <1>5, SMT
  <1> QED BY <1>1, <1>2, <1>3, <1>4, <1>6

\* A frame lies within its size, and is the same in a stream that agrees there.
LEMMA FrameWithin ==
    ASSUME NEW f \in Frames, NEW v, NEW w, NEW p \in Nat, NEW q \in Nat, NEW i, FrameAt(v, p, i, f),
           \A j \in 1..Size(f) : w[q + j] = v[p + j]
    PROVE  FrameAt(w, q, i, f)
  <1>1. PICK m : m = Len(Hd(f))
    OBVIOUS
  <1>2. m \in Nat /\ Size(f) \in Nat /\ Size(f) >= m /\ (f.n # 0 => Size(f) = m + 1)
    BY <1>1, FrameFacts
  <1>3. \A j \in 1..m : j \in 1..Size(f)
    BY <1>2, SMT
  <1>4. Starts(w, q, f)
    BY <1>1, <1>3 DEF FrameAt, Starts
  <1>5. ASSUME f.n # 0 PROVE w[q + m + 1] = v[p + m + 1]
    <2>1. m + 1 \in 1..Size(f) /\ q + m + 1 = q + (m + 1) /\ p + m + 1 = p + (m + 1)
      BY <1>2, <1>5, SMT
    <2> QED BY <2>1
  <1> QED BY <1>1, <1>4, <1>5 DEF FrameAt

\* More octets behind a layout leave it alone.
LEMMA LayoutGrows ==
    ASSUME NEW v, NEW w, NEW s, NEW t, NEW g \in Nat, NEW last \in Nat, NEW pos, NEW m \in Nat,
           g >= 1, Layout(v, s, g, last, pos), pos[last + 1] <= m,
           \A i \in g..last : s[i] \in Frames,
           \A k \in 1..m : w[k] = v[k], \A i \in g..last : t[i] = s[i]
    PROVE  Layout(w, t, g, last, pos)
  <1>1. ASSUME NEW i \in g..last
        PROVE  FrameAt(w, pos[i], i, s[i])
    <2>1. PICK p, d, e : p = pos[i] /\ d = Size(s[i]) /\ e = pos[last + 1]
      OBVIOUS
    <2>2. last + 1 \in (i + 1)..(last + 1) /\ i \in Nat /\ last + 1 \in Nat
      BY SMT
    <2>3. p \in Nat /\ e \in Nat /\ d \in Nat /\ p + d <= e /\ e <= m
      BY <2>1, <2>2, FrameFacts DEF Layout
    <2>4. \A j \in 1..d : p + j \in 1..m
      BY <2>3, SMT
    <2>5. \A j \in 1..Size(s[i]) : w[p + j] = v[p + j]
      BY <2>1, <2>4
    <2>6. FrameAt(v, p, i, s[i])
      BY <2>1 DEF Layout
    <2> QED BY <2>1, <2>3, <2>5, <2>6, FrameWithin
  <1> QED BY <1>1 DEF Layout

\* A whole frame behind a layout extends it.
LEMMA LayoutExtends ==
    ASSUME NEW v, NEW s, NEW g \in Nat, NEW last \in Nat, NEW pos, g <= last + 1,
           Layout(v, s, g, last, pos), \A i \in g..(last + 1) : s[i] \in Frames,
           FrameAt(v, pos[last + 1], last + 1, s[last + 1])
    PROVE  \E p : /\ Layout(v, s, g, last + 1, p)
                  /\ p[(last + 1) + 1] = pos[last + 1] + Size(s[last + 1])
  <1>1. PICK e, d : e = pos[last + 1] /\ d = Size(s[last + 1])
    OBVIOUS
  <1>2. last + 1 \in g..(last + 1) /\ last + 1 \in Nat /\ last + 2 \in Nat
    BY SMT
  <1>3. e \in Nat /\ d \in Nat
    BY <1>1, <1>2, FrameFacts DEF Layout
  <1>4. PICK p : p = [i \in Nat |-> IF i = last + 2 THEN e + d ELSE pos[i]]
    OBVIOUS
  <1>5. /\ p \in [Nat -> Nat] /\ p[last + 2] = e + d
        /\ \A i \in Nat : i # last + 2 => p[i] = pos[i]
    <2>1. e + d \in Nat
      BY <1>3, SMT
    <2> QED BY <1>2, <1>4, <2>1 DEF Layout
  <1>6. (last + 1) + 1 = last + 2 /\ g # last + 2 /\ last + 1 # last + 2
    BY SMT
  <1>7. ASSUME NEW i \in g..last
        PROVE  /\ p[i + 1] = p[i] + Size(s[i]) /\ FrameAt(v, p[i], i, s[i])
               /\ \A k \in (i + 1)..(last + 2) : p[i] + Size(s[i]) <= p[k]
    <2>1. /\ i \in Nat /\ i + 1 \in Nat /\ i # last + 2 /\ i + 1 # last + 2
          /\ last + 1 \in (i + 1)..(last + 1)
      BY SMT
    <2>2. p[i] = pos[i] /\ p[i + 1] = pos[i + 1]
      BY <1>5, <2>1
    <2>3. \A k \in (i + 1)..(last + 2) : p[i] + Size(s[i]) <= p[k]
      <3> SUFFICES ASSUME NEW k \in (i + 1)..(last + 2)
                   PROVE  p[i] + Size(s[i]) <= p[k]
        OBVIOUS
      <3>1. CASE k = last + 2
        <4>1. PICK q, b : q = pos[i] /\ b = Size(s[i])
          OBVIOUS
        <4>2. s[i] \in Frames
          BY SMT
        <4>3. q \in Nat /\ b \in Nat /\ q + b <= e
          BY <1>1, <2>1, <4>1, <4>2, FrameFacts DEF Layout
        <4>4. q + b <= e + d
          BY <1>3, <4>3, SMT
        <4> QED BY <1>5, <2>2, <3>1, <4>1, <4>4
      <3>2. CASE k # last + 2
        <4>1. k \in (i + 1)..(last + 1) /\ k \in Nat
          BY <3>2, SMT
        <4> QED BY <1>5, <2>2, <3>2, <4>1 DEF Layout
      <3> QED BY <3>1, <3>2
    <2> QED BY <2>2, <2>3 DEF Layout
  <1>8. /\ p[(last + 1) + 1] = p[last + 1] + Size(s[last + 1])
        /\ FrameAt(v, p[last + 1], last + 1, s[last + 1])
        /\ \A k \in ((last + 1) + 1)..(last + 2) : p[last + 1] + Size(s[last + 1]) <= p[k]
    <2>1. p[last + 1] = e
      BY <1>1, <1>2, <1>5, <1>6
    <2>2. \A k \in ((last + 1) + 1)..(last + 2) : k = last + 2
      BY SMT
    <2>3. e + d <= e + d
      BY <1>3, SMT
    <2> QED BY <1>1, <1>5, <1>6, <2>1, <2>2, <2>3
  <1>9. p[g] = 0
    BY <1>5, <1>6 DEF Layout
  <1>10. \A i \in g..(last + 1) : i \in g..last \/ i = last + 1
    BY SMT
  <1>11. Layout(v, s, g, last + 1, p)
    <2>1. \A i \in g..(last + 1) :
             /\ p[i + 1] = p[i] + Size(s[i]) /\ FrameAt(v, p[i], i, s[i])
             /\ \A k \in (i + 1)..(last + 2) : p[i] + Size(s[i]) <= p[k]
      BY <1>7, <1>8, <1>10
    <2> QED BY <1>5, <1>6, <1>9, <2>1 DEF Layout
  <1> QED BY <1>1, <1>5, <1>6, <1>11

\* w is the rest of v, of length m, behind its first frame.
Droppable(v, w, s, g, last, pos, m) ==
    /\ g \in Nat /\ last \in Nat /\ m \in Nat /\ g <= last
    /\ Layout(v, s, g, last, pos) /\ pos[last + 1] <= m
    /\ \A i \in g..last : s[i] \in Frames
    /\ \A k \in 1..(m - Size(s[g])) : w[k] = v[Size(s[g]) + k]

\* Without its first frame the layout is the one of the rest.
LEMMA LayoutDrops ==
    ASSUME NEW v, NEW w, NEW s, NEW g, NEW last, NEW pos, NEW m,
           Droppable(v, w, s, g, last, pos, m)
    PROVE  \E p : /\ Layout(w, s, g + 1, last, p) /\ Size(s[g]) <= pos[last + 1]
                  /\ p[last + 1] = pos[last + 1] - Size(s[g])
  <1> SUFFICES ASSUME g \in Nat, last \in Nat, m \in Nat, g <= last,
                      Layout(v, s, g, last, pos), pos[last + 1] <= m,
                      \A i \in g..last : s[i] \in Frames,
                      \A k \in 1..(m - Size(s[g])) : w[k] = v[Size(s[g]) + k]
               PROVE  \E p : /\ Layout(w, s, g + 1, last, p) /\ Size(s[g]) <= pos[last + 1]
                             /\ p[last + 1] = pos[last + 1] - Size(s[g])
    BY DEF Droppable
  <1>1. PICK d : d = Size(s[g])
    OBVIOUS
  <1>2. g \in g..last /\ g + 1 \in (g + 1)..(last + 1) /\ last + 1 \in (g + 1)..(last + 1)
    BY SMT
  <1>3. d \in Nat /\ pos[g] = 0 /\ pos[g + 1] = 0 + d
    BY <1>1, <1>2, FrameFacts DEF Layout
  <1>4. \A k \in (g + 1)..(last + 1) : pos[k] \in Nat /\ d <= pos[k] /\ pos[k] - d \in Nat
    <2> SUFFICES ASSUME NEW k \in (g + 1)..(last + 1)
                 PROVE  pos[k] \in Nat /\ d <= pos[k] /\ pos[k] - d \in Nat
      OBVIOUS
    <2>1. k \in Nat
      BY SMT
    <2>2. PICK q : q = pos[k]
      OBVIOUS
    <2>3. q \in Nat /\ 0 + d <= q
      BY <1>1, <1>2, <1>3, <2>1, <2>2 DEF Layout
    <2>4. d <= q /\ q - d \in Nat
      BY <1>3, <2>3, SMT
    <2> QED BY <2>2, <2>3, <2>4
  <1>5. PICK p : p = [i \in Nat |-> IF i \in (g + 1)..(last + 1) THEN pos[i] - d ELSE 0]
    OBVIOUS
  <1>6. p \in [Nat -> Nat] /\ \A i \in (g + 1)..(last + 1) : p[i] = pos[i] - d
    <2>1. 0 \in Nat /\ \A i \in (g + 1)..(last + 1) : i \in Nat
      BY SMT
    <2> QED BY <1>4, <1>5, <2>1
  <1>7. p[g + 1] = 0
    <2>1. (0 + d) - d = 0
      BY <1>3, SMT
    <2> QED BY <1>2, <1>3, <1>6, <2>1
  <1>8. ASSUME NEW i \in (g + 1)..last
        PROVE  /\ p[i + 1] = p[i] + Size(s[i]) /\ FrameAt(w, p[i], i, s[i])
               /\ \A k \in (i + 1)..(last + 1) : p[i] + Size(s[i]) <= p[k]
    <2>1. /\ i \in g..last /\ i \in (g + 1)..(last + 1) /\ i + 1 \in (g + 1)..(last + 1)
          /\ last + 1 \in (i + 1)..(last + 1)
          /\ \A k \in (i + 1)..(last + 1) : k \in (g + 1)..(last + 1)
      BY SMT
    <2>2. PICK q, n, e : q = pos[i] /\ n = Size(s[i]) /\ e = pos[last + 1]
      OBVIOUS
    <2>3. s[i] \in Frames
      BY <2>1
    <2>4. /\ n \in Nat /\ q \in Nat /\ d <= q /\ p[i] = q - d /\ p[i + 1] = pos[i + 1] - d
      BY <1>4, <1>6, <2>1, <2>2, <2>3, FrameFacts
    <2>5. pos[i + 1] = q + n /\ q + n <= e /\ e <= m /\ e \in Nat /\ FrameAt(v, q, i, s[i])
      BY <1>2, <1>4, <2>1, <2>2 DEF Layout
    <2>6. (q + n) - d = (q - d) + n /\ q - d \in Nat
      BY <1>3, <2>4, SMT
    <2>7. \A j \in 1..n : w[(q - d) + j] = v[q + j]
      <3> SUFFICES ASSUME NEW j \in 1..n
                   PROVE  w[(q - d) + j] = v[q + j]
        OBVIOUS
      <3>1. (q - d) + j \in 1..(m - d) /\ d + ((q - d) + j) = q + j
        BY <1>3, <2>4, <2>5, SMT
      <3> QED BY <1>1, <3>1
    <2>8. FrameAt(w, q - d, i, s[i])
      BY <2>2, <2>3, <2>4, <2>5, <2>6, <2>7, FrameWithin
    <2>9. \A k \in (i + 1)..(last + 1) : (q - d) + n <= p[k]
      <3> SUFFICES ASSUME NEW k \in (i + 1)..(last + 1)
                   PROVE  (q - d) + n <= p[k]
        OBVIOUS
      <3>1. PICK r : r = pos[k]
        OBVIOUS
      <3>2. p[k] = r - d /\ r \in Nat /\ q + n <= r
        BY <1>4, <1>6, <2>1, <2>2, <3>1 DEF Layout
      <3>3. (q - d) + n <= r - d
        BY <1>3, <2>4, <3>2, SMT
      <3> QED BY <3>2, <3>3
    <2> QED BY <2>2, <2>4, <2>5, <2>6, <2>8, <2>9
  <1>9. Layout(w, s, g + 1, last, p)
    BY <1>6, <1>7, <1>8 DEF Layout
  <1> QED BY <1>1, <1>2, <1>4, <1>6, <1>9

\* The frame the client is at, and the stream from there: the header it has
\* taken, if any, and the octets on their way.
Cur == Len(got) + 1
Stream == [j \in 1..Len(cl.hdr) |-> Byte(cl.hdr[j])] \o out

\* One writer at a time; the frame whose payload is due is the last one.
MuInv ==
    /\ \A x \in Writers : wr[x].st \in {"head", "body"} => mu = x
    /\ \A x \in Writers : wr[x].st = "body" =>
          Len(sent) > 0 /\ sent[Len(sent)] = [op |-> wr[x].op, n |-> wr[x].n]

\* The stream is laid out to its end, where a payload may be due; when a write
\* was cut short, up to its frame.
Ends(last, pos) ==
    \/ torn # 0 /\ last + 1 = torn /\ pos[last + 1] <= Len(Stream)
    \/ /\ torn = 0 /\ last = Len(sent) /\ pos[last + 1] = Len(Stream)
       /\ \A x \in Writers : wr[x].st # "body"
    \/ /\ torn = 0 /\ last + 1 = Len(sent) /\ sent[last + 1].n # 0
       /\ Starts(Stream, pos[last + 1], sent[last + 1])
       /\ Len(Stream) = pos[last + 1] + Len(Hd(sent[last + 1]))
       /\ loop = "closed" \/ \E x \in Writers : wr[x].st = "body"

\* The client is in step with the writers.
Intact ==
    /\ ~cl.lost /\ (cl.need = 0 => cl.hdr = <<>>)
    /\ cl.need > 0 =>
          Cur <= Len(sent) /\ cl.hdr = Hd(sent[Cur]) /\ cl.need = sent[Cur].n /\ cl.own
    /\ \E last, pos :
          last \in Nat /\ Cur <= last + 1 /\ Layout(Stream, sent, Cur, last, pos) /\ Ends(last, pos)

GotInv ==
    \A i \in 1..Len(got) : (torn = 0 \/ i < torn) =>
        i <= Len(sent) /\ got[i] = [op |-> sent[i].op, n |-> sent[i].n, whole |-> TRUE]

Following ==
    torn <= Len(sent) /\ GotInv /\ ((torn = 0 \/ Cur < torn) => Intact)

OutInv == MuInv /\ Following

LEMMA WriterFacts == \A x \in Writers : x # None
  BY SendersAssumption DEF Writers

LEMMA MuInit == Init => MuInv
  BY DEF Init, MuInv

\* After the unlock no call is writing.
LEMMA MuUnlock ==
    ASSUME TypeInv, MuInv, NEW x \in Writers, wr[x].st \in {"head", "body"},
           NEW st \in {"done", "error"}, Unlock(x, st)
    PROVE  \A y \in Writers : wr'[y].st \notin {"head", "body"}
  <1> SUFFICES ASSUME NEW y \in Writers PROVE wr'[y].st \notin {"head", "body"}
    OBVIOUS
  <1>1. wr \in [Writers -> Calls] /\ wr' = [wr EXCEPT ![x].st = st]
    BY DEF TypeInv, Unlock
  <1>2. CASE y = x
    <2>1. wr'[y].st = st
      BY <1>1, <1>2 DEF Calls
    <2> QED BY <2>1
  <1>3. CASE y # x
    BY <1>1, <1>3 DEF MuInv
  <1> QED BY <1>2, <1>3

\* wsConn.mu excludes the other writers in every step.
LEMMA MuStep ==
    ASSUME TypeInv, MuInv, [Next]_vars
    PROVE  MuInv'
  <1>1. wr \in [Writers -> Calls] /\ sent \in Seq(Frames)
    BY DEF TypeInv
  <1>2. ASSUME UNCHANGED <<mu, wr, sent>> PROVE MuInv'
    BY <1>2 DEF MuInv
  <1>3. ASSUME NEW x \in Writers, NEW op, NEW n, Lock(x, op, n) PROVE MuInv'
    <2>1. mu = None /\ mu' = x /\ sent' = sent /\ \A y \in Writers : y # x => wr'[y] = wr[y]
      BY <1>1, <1>3 DEF Lock, Free
    <2>2. \A y \in Writers : wr[y].st \notin {"head", "body"}
      BY <2>1, WriterFacts DEF MuInv
    <2>3. wr'[x].st = "head"
      BY <1>1, <1>3 DEF Lock
    <2> QED BY <2>1, <2>2, <2>3 DEF MuInv
  <1>4. ASSUME NEW x \in Writers, WriteHead(x) PROVE MuInv'
    <2>1. CASE wr[x].n = 0
      <3>1. Unlock(x, "done") /\ wr[x].st = "head"
        BY <1>4, <2>1 DEF WriteHead
      <3> QED BY <3>1, MuUnlock DEF MuInv
    <2>2. CASE wr[x].n # 0
      <3>1. /\ mu' = mu /\ mu = x /\ wr' = [wr EXCEPT ![x].st = "body"]
            /\ sent' = Append(sent, [op |-> wr[x].op, n |-> wr[x].n])
        BY <1>4, <2>2 DEF WriteHead, MuInv
      <3>2. \A y \in Writers : y # x => wr'[y].st \notin {"head", "body"}
        BY <1>1, <3>1 DEF MuInv
      <3>3. wr'[x].op = wr[x].op /\ wr'[x].n = wr[x].n
        BY <1>1, <3>1 DEF Calls
      <3>4. [op |-> wr[x].op, n |-> wr[x].n] \in Frames
        BY CallHeads
      <3>5. PICK f : f = [op |-> wr[x].op, n |-> wr[x].n]
        OBVIOUS
      <3>6. Len(sent') > 0 /\ sent'[Len(sent')] = f
        BY <1>1, <3>1, <3>4, <3>5, SMT
      <3> QED BY <3>1, <3>2, <3>3, <3>5, <3>6 DEF MuInv
    <2> QED BY <2>1, <2>2
  <1>5. ASSUME NEW x \in Writers, WriteBody(x) \/ WriteClosed(x) \/ \E k \in Cuts : Tear(x, k)
        PROVE  MuInv'
    <2>1. wr[x].st \in {"head", "body"} /\ \E st \in {"done", "error"} : Unlock(x, st)
      BY <1>5 DEF WriteBody, WriteClosed, Tear
    <2>2. \A y \in Writers : wr'[y].st \notin {"head", "body"}
      BY <2>1, MuUnlock
    <2> QED BY <2>2 DEF MuInv
  <1>6. "pinger" \in Writers /\ "loop" \in Writers /\ Senders \subseteq Writers
    BY DEF Writers
  <1>7. ASSUME NEW x \in Writers, WriteFrame(x) PROVE MuInv'
    BY <1>4, <1>5, <1>7 DEF WriteFrame
  <1>8. ASSUME (\E x \in Senders, n \in Lengths : BeginText(x, n)) \/ BeginPing \/ BeginPong
        PROVE  MuInv'
    BY <1>3, <1>6, <1>8 DEF BeginText, BeginPing, BeginPong
  <1>9. ASSUME \/ ClientHeader \/ ClientPayload \/ ReadFrame \/ ReadFails \/ UNCHANGED vars
               \/ \E c \in Clients : ClientSends(c)
        PROVE  MuInv'
    BY <1>2, <1>9 DEF ClientHeader, ClientPayload, ReadFrame, ReadFails, ClientSends, vars, outgoing
  <1> QED BY <1>7, <1>8, <1>9 DEF Next

\* The stream is one of octets.
LEMMA StreamType ==
    ASSUME TypeInv
    PROVE  Stream \in Seq(Octets) /\ Len(Stream) \in Nat
  <1>1. cl.hdr \in Seq(Bytes) /\ out \in Seq(Octets)
    BY DEF TypeInv, Decoders
  <1>2. Len(cl.hdr) \in Nat /\ Len(cl.hdr) <= Len(cl.hdr)
    BY <1>1, LenProperties, SMT
  <1>3. [j \in 1..Len(cl.hdr) |-> Byte(cl.hdr[j])] \in Seq(Octets)
    BY <1>1, <1>2, HeaderOctets
  <1>4. Stream \in Seq(Octets)
    BY <1>1, <1>3, Joined DEF Stream
  <1> QED BY <1>4, LenProperties

\* What is written goes to the end of the stream.
LEMMA StreamGrows ==
    ASSUME TypeInv, NEW w \in Seq(Octets), out' = out \o w, cl' = cl
    PROVE  /\ Len(Stream') = Len(Stream) + Len(w)
           /\ \A k \in 1..Len(Stream) : Stream'[k] = Stream[k]
           /\ \A j \in 1..Len(w) : Stream'[Len(Stream) + j] = w[j]
  <1> DEFINE b == [j \in 1..Len(cl.hdr) |-> Byte(cl.hdr[j])]
  <1>1. cl.hdr \in Seq(Bytes) /\ out \in Seq(Octets)
    BY DEF TypeInv, Decoders
  <1>2. Len(cl.hdr) \in Nat /\ Len(cl.hdr) <= Len(cl.hdr)
    BY <1>1, LenProperties, SMT
  <1>3. b \in Seq(Octets)
    BY <1>1, <1>2, HeaderOctets
  <1>4. Stream = b \o out /\ Stream' = b \o (out \o w)
    BY DEF Stream
  <1> HIDE DEF b
  <1>5. Stream' = Stream \o w
    BY <1>1, <1>3, <1>4, ConcatAssociative
  <1> QED BY <1>5, StreamType, Joined

\* The counts of frames are numbers.
LEMMA SentFacts ==
    ASSUME TypeInv
    PROVE  /\ Len(sent) \in Nat /\ Len(got) \in Nat /\ Cur \in Nat /\ Cur >= 1 /\ torn \in Nat
           /\ \A i \in 1..Len(sent) : sent[i] \in Frames
  <1>1. sent \in Seq(Frames) /\ got \in Seq(Results) /\ torn \in Nat
    BY DEF TypeInv
  <1>2. Len(sent) \in Nat /\ Len(got) \in Nat
    BY <1>1, LenProperties
  <1>3. Cur \in Nat /\ Cur >= 1
    BY <1>2, SMT DEF Cur
  <1> QED BY <1>1, <1>2, <1>3, ElementOfSeq

\* sent grows, and what the client has does not change.
Grown == /\ cl' = cl /\ got' = got /\ Len(sent') \in Nat /\ Len(sent) <= Len(sent')
         /\ \A i \in 1..Len(sent) : sent'[i] = sent[i]

\* A header adds its frame to those sent.
LEMMA SentAppends ==
    ASSUME TypeInv, NEW f \in Frames, sent' = Append(sent, f), UNCHANGED client
    PROVE  Grown /\ Len(sent') = Len(sent) + 1 /\ sent'[Len(sent) + 1] = f
  <1>1. sent \in Seq(Frames) /\ Len(sent) \in Nat
    BY SentFacts DEF TypeInv
  <1>2. /\ Len(sent') = Len(sent) + 1 /\ sent'[Len(sent) + 1] = f
        /\ \A i \in 1..Len(sent) : sent'[i] = sent[i]
    BY <1>1
  <1>3. Len(sent') \in Nat /\ Len(sent) <= Len(sent')
    BY <1>1, <1>2, SMT
  <1> QED BY <1>2, <1>3 DEF Grown, client

\* What was decoded stays true of the frames sent.
LEMMA GotGrown ==
    ASSUME TypeInv, Following, Grown,
           torn' = torn \/ (torn = 0 /\ torn' \in Nat)
    PROVE  GotInv'
  <1>1. Len(sent) \in Nat /\ Len(got) \in Nat
    BY SentFacts
  <1> SUFFICES ASSUME NEW i \in 1..Len(got), torn' = 0 \/ i < torn'
               PROVE  /\ i <= Len(sent')
                      /\ got[i] = [op |-> sent'[i].op, n |-> sent'[i].n, whole |-> TRUE]
    BY DEF GotInv, Grown
  <1>2. torn = 0 \/ i < torn
    OBVIOUS
  <1>3. i <= Len(sent) /\ got[i] = [op |-> sent[i].op, n |-> sent[i].n, whole |-> TRUE]
    BY <1>2 DEF Following, GotInv
  <1>4. i \in 1..Len(sent) /\ i <= Len(sent')
    BY <1>1, <1>3, SMT DEF Grown
  <1> QED BY <1>3, <1>4 DEF Grown

\* The layout of the stream in a step in which it grows.
LEMMA LayoutKept ==
    ASSUME TypeInv, Grown, NEW w \in Seq(Octets), out' = out \o w,
           NEW last \in Nat, NEW pos, Cur <= last + 1, last <= Len(sent),
           Layout(Stream, sent, Cur, last, pos), pos[last + 1] <= Len(Stream)
    PROVE  Layout(Stream', sent', Cur, last, pos) /\ Cur' = Cur
  <1>1. /\ Len(sent) \in Nat /\ Cur \in Nat /\ Cur >= 1
        /\ \A i \in 1..Len(sent) : sent[i] \in Frames
    BY SentFacts
  <1>2. \A i \in Cur..last : i \in 1..Len(sent)
    BY <1>1, SMT
  <1>3. \A k \in 1..Len(Stream) : Stream'[k] = Stream[k]
    BY StreamGrows DEF Grown
  <1>4. Len(Stream) \in Nat
    BY StreamType
  <1>5. \A i \in Cur..last : sent[i] \in Frames /\ sent'[i] = sent[i]
    BY <1>1, <1>2 DEF Grown
  <1>6. Layout(Stream', sent', Cur, last, pos)
    BY <1>1, <1>3, <1>4, <1>5, LayoutGrows
  <1> QED BY <1>6 DEF Cur, Grown

\* The rest of Intact in such a step.
LEMMA ClientKept ==
    ASSUME TypeInv, Intact, Grown
    PROVE  /\ ~cl'.lost /\ (cl'.need = 0 => cl'.hdr = <<>>)
           /\ cl'.need > 0 =>
                 /\ Cur' <= Len(sent') /\ cl'.hdr = Hd(sent'[Cur'])
                 /\ cl'.need = sent'[Cur'].n /\ cl'.own
  <1>1. Len(sent) \in Nat /\ Cur \in Nat /\ Cur >= 1 /\ Cur' = Cur
    BY SentFacts DEF Cur, Grown
  <1>2. ASSUME cl.need > 0
        PROVE  Cur <= Len(sent') /\ sent'[Cur] = sent[Cur]
    <2>1. Cur <= Len(sent)
      BY <1>2 DEF Intact
    <2>2. Cur \in 1..Len(sent) /\ Cur <= Len(sent')
      BY <1>1, <2>1, SMT DEF Grown
    <2> QED BY <2>2 DEF Grown
  <1> QED BY <1>1, <1>2 DEF Intact, Grown

\* Behind a tear the writers go on, and what is before it stays.
LEMMA BehindTear ==
    ASSUME TypeInv, Following, Grown, torn # 0, torn' = torn,
           NEW w \in Seq(Octets), out' = out \o w
    PROVE  Following'
  <1>1. Len(sent) \in Nat /\ torn \in Nat /\ Len(Stream) \in Nat /\ Len(w) \in Nat
    BY SentFacts, StreamType, LenProperties
  <1>2. torn' <= Len(sent')
    BY <1>1, SMT DEF Following, Grown
  <1>3. GotInv'
    BY GotGrown
  <1>4. ASSUME Cur' < torn' PROVE Intact'
    <2>1. Cur' = Cur /\ Intact
      BY <1>4 DEF Cur, Grown, Following
    <2>2. PICK last, pos : /\ last \in Nat /\ Cur <= last + 1
                           /\ Layout(Stream, sent, Cur, last, pos) /\ Ends(last, pos)
      BY <2>1 DEF Intact
    <2>3. last + 1 = torn /\ pos[last + 1] <= Len(Stream)
      BY <2>2 DEF Ends
    <2>4. last <= Len(sent)
      BY <1>1, <2>2, <2>3, SMT DEF Following
    <2>5. Layout(Stream', sent', Cur, last, pos)
      BY <2>2, <2>3, <2>4, LayoutKept
    <2>6. pos[last + 1] <= Len(Stream')
      <3>1. Len(Stream') = Len(Stream) + Len(w)
        BY StreamGrows DEF Grown
      <3>2. PICK q, m, n : q = pos[last + 1] /\ m = Len(Stream) /\ n = Len(w)
        OBVIOUS
      <3>3. q \in Nat /\ m \in Nat /\ n \in Nat /\ q <= m
        <4>1. last + 1 \in Nat
          BY <2>2, SMT
        <4> QED BY <1>1, <2>2, <2>3, <3>2, <4>1 DEF Layout
      <3>4. q <= m + n
        BY <3>3, SMT
      <3> QED BY <3>1, <3>2, <3>4
    <2>7. Ends(last, pos)'
      BY <2>3, <2>6 DEF Ends
    <2> QED BY <2>1, <2>2, <2>5, <2>7, ClientKept DEF Intact
  <1> QED BY <1>2, <1>3, <1>4 DEF Following

\* Before any tear, where a writer that has taken wsConn.mu finds the stream.
LEMMA AtHead ==
    ASSUME TypeInv, OutInv, torn = 0, NEW x \in Writers, wr[x].st = "head", loop # "closed"
    PROVE  /\ Intact /\ Cur <= Len(sent) + 1
           /\ \E pos : /\ Layout(Stream, sent, Cur, Len(sent), pos)
                       /\ pos[Len(sent) + 1] = Len(Stream)
  <1>1. Intact
    BY DEF OutInv, Following
  <1>2. PICK last, pos : /\ last \in Nat /\ Cur <= last + 1
                         /\ Layout(Stream, sent, Cur, last, pos) /\ Ends(last, pos)
    BY <1>1 DEF Intact
  <1>3. \A y \in Writers : wr[y].st # "body"
    BY DEF OutInv, MuInv
  <1>4. last = Len(sent) /\ pos[last + 1] = Len(Stream)
    BY <1>2, <1>3 DEF Ends
  <1> QED BY <1>1, <1>2, <1>4

\* Where one finds it that has written the header.
LEMMA AtBody ==
    ASSUME TypeInv, OutInv, torn = 0, NEW x \in Writers, wr[x].st = "body", loop # "closed"
    PROVE  /\ Intact
           /\ \E last, pos : /\ last \in Nat /\ last + 1 = Len(sent) /\ Cur <= last + 1
                             /\ Layout(Stream, sent, Cur, last, pos)
                             /\ Starts(Stream, pos[last + 1], sent[last + 1])
                             /\ Len(Stream) = pos[last + 1] + Len(Hd(sent[last + 1]))
                             /\ sent[last + 1] = [op |-> wr[x].op, n |-> wr[x].n]
  <1>1. Intact
    BY DEF OutInv, Following
  <1>2. PICK last, pos : /\ last \in Nat /\ Cur <= last + 1
                         /\ Layout(Stream, sent, Cur, last, pos) /\ Ends(last, pos)
    BY <1>1 DEF Intact
  <1>3. /\ last + 1 = Len(sent) /\ Starts(Stream, pos[last + 1], sent[last + 1])
        /\ Len(Stream) = pos[last + 1] + Len(Hd(sent[last + 1]))
    BY <1>2 DEF Ends
  <1>4. sent[Len(sent)] = [op |-> wr[x].op, n |-> wr[x].n]
    BY DEF OutInv, MuInv
  <1> QED BY <1>1, <1>2, <1>3, <1>4

\* The header and what it leaves: an empty frame is whole, another one is due.
LEMMA FollowsWriteHead ==
    ASSUME TypeInv, OutInv, NEW x \in Writers, WriteHead(x)
    PROVE  Following'
  <1> DEFINE h == FrameHead(wr[x].op, wr[x].n)
             f == [op |-> wr[x].op, n |-> wr[x].n]
             w == [i \in 1..Len(h) |-> Byte(h[i])]
             S == Len(Stream)
  <1>0. PICK L : L = Len(sent)
    OBVIOUS
  <1>1. /\ h \in Seq(Bytes) /\ Len(h) \in Nat /\ DOMAIN h = 1..Len(h) /\ f \in Frames
        /\ h = Hd(f) /\ f.n = wr[x].n
    BY CallHeads DEF Hd
  <1>2. out' = out \o w /\ sent' = Append(sent, f) /\ UNCHANGED client /\ torn' = torn
    BY <1>1 DEF WriteHead
  <1> HIDE DEF h, f
  <1>3. w \in Seq(Octets) /\ Len(w) = Len(h) /\ \A i \in 1..Len(h) : w[i] = Byte(h[i])
    <2>1. Len(h) <= Len(h)
      BY <1>1, SMT
    <2> QED BY <1>1, <2>1, HeaderOctets
  <1> HIDE DEF w
  <1>4. Grown /\ Len(sent') = L + 1 /\ sent'[L + 1] = f
    BY <1>0, <1>1, <1>2, SentAppends
  <1>5. CASE torn # 0
    BY <1>2, <1>3, <1>4, <1>5, BehindTear DEF OutInv
  <1>6. CASE torn = 0
    <2>1. wr[x].st = "head" /\ loop # "closed"
      BY DEF WriteHead
    <2>2. Intact /\ Cur <= L + 1
      BY <1>0, <1>6, <2>1, AtHead
    <2>3. PICK pos : Layout(Stream, sent, Cur, L, pos) /\ pos[L + 1] = S
      BY <1>0, <1>6, <2>1, AtHead
    <2>4. L \in Nat /\ S \in Nat /\ S <= S /\ L <= L /\ Cur \in Nat /\ Cur >= 1 /\ L + 1 \in Nat
      <3>1. L \in Nat /\ S \in Nat /\ Cur \in Nat /\ Cur >= 1
        BY <1>0, SentFacts, StreamType
      <3> HIDE DEF S
      <3> QED BY <3>1, SMT
    <2>5. Layout(Stream', sent', Cur, L, pos) /\ Cur' = Cur
      BY <1>0, <1>2, <1>3, <1>4, <2>2, <2>3, <2>4, LayoutKept
    <2>6. /\ Len(Stream') = S + Len(h)
          /\ \A j \in 1..Len(h) : Stream'[S + j] = Byte(h[j])
      BY <1>2, <1>3, <1>4, StreamGrows DEF Grown
    <2>7. Starts(Stream', pos[L + 1], f)
      BY <1>1, <2>3, <2>6 DEF Starts
    <2> HIDE DEF S
    <2>8. torn' = 0 /\ torn' <= Len(sent')
      BY <1>2, <1>4, <1>6, <2>4, SMT
    <2>9. GotInv'
      BY <1>2, <1>4, GotGrown DEF OutInv
    <2>10. \E last, p : /\ last \in Nat /\ Cur' <= last + 1
                        /\ Layout(Stream', sent', Cur', last, p) /\ Ends(last, p)'
      <3>1. CASE wr[x].n = 0
        <4>1. Unlock(x, "done")
          BY <3>1 DEF WriteHead
        <4>2. \A y \in Writers : wr'[y].st # "body"
          BY <2>1, <4>1, MuUnlock DEF OutInv
        <4>3. FrameAt(Stream', pos[L + 1], L + 1, f)
          BY <1>1, <2>7, <3>1 DEF FrameAt
        <4>4. \A i \in Cur..(L + 1) : sent'[i] \in Frames
          <5>1. \A i \in Cur..(L + 1) : i \in 1..L \/ i = L + 1
            BY <2>4, SMT
          <5> QED BY <1>0, <1>1, <1>4, <5>1, SentFacts DEF Grown
        <4>5. PICK p : /\ Layout(Stream', sent', Cur, L + 1, p)
                       /\ p[(L + 1) + 1] = pos[L + 1] + Size(f)
          BY <1>4, <2>2, <2>4, <2>5, <4>3, <4>4, LayoutExtends
        <4>6. Size(f) = Len(h)
          BY <1>1, <3>1, FrameFacts
        <4>7. p[(L + 1) + 1] = Len(Stream')
          BY <2>3, <2>6, <4>5, <4>6
        <4>8. Ends(L + 1, p)'
          BY <1>4, <2>8, <4>2, <4>7 DEF Ends
        <4>9. Cur <= (L + 1) + 1
          BY <2>2, <2>4, SMT
        <4> QED BY <2>4, <2>5, <4>5, <4>8, <4>9
      <3>2. CASE wr[x].n # 0
        <4>1. wr' = [wr EXCEPT ![x].st = "body"]
          BY <3>2 DEF WriteHead
        <4>2. wr'[x].st = "body"
          BY <4>1 DEF TypeInv, Calls
        <4>3. Ends(L, pos)'
          <5>1. Len(Stream') = pos[L + 1] + Len(Hd(f))
            BY <1>1, <2>3, <2>6
          <5> QED BY <1>1, <1>4, <2>7, <2>8, <3>2, <4>2, <5>1 DEF Ends
        <4> QED BY <2>2, <2>4, <2>5, <4>3
      <3> QED BY <3>1, <3>2
    <2>11. Intact'
      BY <1>4, <2>2, <2>10, ClientKept DEF Intact
    <2> QED BY <2>8, <2>9, <2>11 DEF Following
  <1> QED BY <1>5, <1>6

\* The payload makes the last frame whole.
LEMMA FollowsWriteBody ==
    ASSUME TypeInv, OutInv, NEW x \in Writers, WriteBody(x)
    PROVE  Following'
  <1> DEFINE f == [op |-> wr[x].op, n |-> wr[x].n]
             r == Run(Len(sent), wr[x].n)
             w == <<r>>
             L == Len(sent)
             S == Len(Stream)
  <1>1. /\ wr[x].st = "body" /\ loop # "closed" /\ Unlock(x, "done") /\ sent' = sent
        /\ UNCHANGED client /\ torn' = torn /\ out' = Append(out, r)
    BY DEF WriteBody
  <1>2. L \in Nat /\ S \in Nat /\ Cur \in Nat /\ Cur >= 1 /\ out \in Seq(Octets)
    BY SentFacts, StreamType DEF TypeInv
  <1>3. r \in Octets /\ f \in Frames /\ f.n = wr[x].n /\ wr[x].n # 0
    <2>1. f \in Frames /\ wr[x].n \in Nat /\ wr[x].n > 0
      BY <1>1, CallHeads DEF TypeInv
    <2>2. wr[x].n # 0
      BY <2>1, SMT
    <2>3. r \in Octets
      BY <1>2, <2>1, RunInOctets
    <2> QED BY <2>1, <2>2, <2>3
  <1> HIDE DEF r
  <1>4. w \in Seq(Octets) /\ Len(w) = 1 /\ w[1] = r
    BY <1>3
  <1>5. out' = out \o w
    BY <1>1, <1>2, <1>3, AppendIsConcat
  <1>6. Grown
    BY <1>1, <1>2, SMT DEF Grown, client
  <1> HIDE DEF w
  <1>7. CASE torn # 0
    BY <1>1, <1>4, <1>5, <1>6, <1>7, BehindTear DEF OutInv
  <1>8. CASE torn = 0
    <2>1. Intact
      BY <1>1, <1>8, AtBody
    <2>2. PICK last, pos : /\ last \in Nat /\ last + 1 = L /\ Cur <= last + 1
                           /\ Layout(Stream, sent, Cur, last, pos)
                           /\ Starts(Stream, pos[last + 1], sent[last + 1])
                           /\ Len(Stream) = pos[last + 1] + Len(Hd(sent[last + 1]))
                           /\ sent[last + 1] = f
      BY <1>1, <1>8, AtBody
    <2>3. PICK e, m : e = pos[last + 1] /\ m = Len(Hd(f))
      OBVIOUS
    <2>4. e \in Nat /\ m \in Nat /\ S = e + m /\ last + 1 \in Nat
      <3>1. last + 1 \in Nat
        BY <2>2, SMT
      <3> QED BY <1>3, <2>2, <2>3, <3>1, FrameFacts DEF Layout
    <2>5. e <= S /\ last <= L
      BY <1>2, <2>2, <2>4, SMT
    <2>6. Layout(Stream', sent', Cur, last, pos) /\ Cur' = Cur
      BY <1>4, <1>5, <1>6, <2>2, <2>3, <2>5, LayoutKept
    <2>7. /\ Len(Stream') = S + 1 /\ Stream'[S + 1] = r
          /\ \A k \in 1..S : Stream'[k] = Stream[k]
      <3>1. 1 \in 1..Len(w)
        BY <1>4
      <3> QED BY <1>4, <1>5, <1>6, <3>1, StreamGrows DEF Grown
    <2> HIDE DEF L, S, f
    <2>8. FrameAt(Stream', e, last + 1, f)
      <3>1. \A j \in 1..m : e + j \in 1..S
        BY <2>4, SMT
      <3>2. Starts(Stream', e, f)
        BY <2>2, <2>3, <2>7, <3>1 DEF Starts
      <3>3. r = Run(last + 1, f.n)
        BY <1>3, <2>2 DEF r, L
      <3>4. Stream'[e + m + 1] = r
        BY <2>4, <2>7
      <3> QED BY <2>3, <3>2, <3>3, <3>4 DEF FrameAt
    <2>9. \A i \in Cur..(last + 1) : sent'[i] \in Frames
      <3>1. \A i \in Cur..(last + 1) : i \in 1..L
        BY <1>2, <2>2, SMT
      <3> QED BY <1>1, <3>1, SentFacts DEF L
    <2>10. PICK p : /\ Layout(Stream', sent', Cur, last + 1, p)
                    /\ p[(last + 1) + 1] = e + Size(f)
      BY <1>1, <1>2, <2>2, <2>3, <2>6, <2>8, <2>9, LayoutExtends
    <2>11. e + Size(f) = Len(Stream')
      <3>1. Size(f) = m + 1
        BY <1>3, <2>3, FrameFacts
      <3>2. e + (m + 1) = (e + m) + 1
        BY <2>4, SMT
      <3> QED BY <2>4, <2>7, <3>1, <3>2
    <2>12. \A y \in Writers : wr'[y].st # "body"
      BY <1>1, MuUnlock DEF OutInv
    <2>13. Ends(last + 1, p)'
      BY <1>1, <1>8, <2>2, <2>10, <2>11, <2>12 DEF Ends, L
    <2>14. Cur <= (last + 1) + 1
      BY <1>2, <2>2, SMT
    <2>15. Intact'
      BY <1>6, <2>1, <2>4, <2>6, <2>10, <2>13, <2>14, ClientKept DEF Intact
    <2>16. torn' <= Len(sent') /\ GotInv'
      BY <1>1, <1>6, GotGrown DEF OutInv, Following
    <2> QED BY <2>15, <2>16 DEF Following
  <1> QED BY <1>7, <1>8

\* A write that is cut short: the frames before it are as they were.
LEMMA FollowsTear ==
    ASSUME TypeInv, OutInv, NEW x \in Writers, NEW k \in Cuts, Tear(x, k)
    PROVE  Following'
  <1> DEFINE h == FrameHead(wr[x].op, wr[x].n)
             f == [op |-> wr[x].op, n |-> wr[x].n]
  <1>0. PICK L, S : L = Len(sent) /\ S = Len(Stream)
    OBVIOUS
  <1>1. L \in Nat /\ S \in Nat /\ Cur \in Nat /\ out \in Seq(Octets) /\ k \in Nat
    BY <1>0, SentFacts, StreamType, CutsInNat DEF TypeInv
  <1>2. /\ loop # "closed" /\ UNCHANGED client /\ torn' = IF torn = 0 THEN Len(sent') ELSE torn
        /\ wr[x].st \in {"head", "body"}
    BY DEF Tear
  <1>3. h \in Seq(Bytes) /\ Len(h) \in Nat /\ f \in Frames /\ wr[x].n \in Nat
    BY CallHeads
  <1>4. \E w \in Seq(Octets) : out' = out \o w
    <2>1. CASE wr[x].st = "head"
      <3>1. out' = out \o [i \in 1..k |-> Byte(h[i])] /\ k < Len(h)
        BY <2>1 DEF Tear
      <3>2. k <= Len(h)
        BY <1>1, <1>3, <3>1, SMT
      <3> HIDE DEF h
      <3>3. [i \in 1..k |-> Byte(h[i])] \in Seq(Octets)
        BY <1>1, <1>3, <3>2, HeaderOctets
      <3> QED BY <3>1, <3>3
    <2>2. CASE wr[x].st = "body"
      <3>1. out' = IF k = 0 THEN out ELSE Append(out, Run(Len(sent), k))
        BY <2>2 DEF Tear
      <3>2. CASE k = 0
        <4>1. out' = out \o <<>> /\ <<>> \in Seq(Octets)
          BY <1>1, <3>1, <3>2, ConcatEmptySeq
        <4> QED BY <4>1
      <3>3. CASE k # 0
        <4>1. PICK r : r = Run(Len(sent), k)
          OBVIOUS
        <4>2. k > 0
          BY <1>1, <3>3, SMT
        <4>3. r \in Octets
          BY <1>0, <1>1, <4>1, <4>2, RunInOctets
        <4>4. out' = out \o <<r>> /\ <<r>> \in Seq(Octets)
          BY <1>1, <3>1, <3>3, <4>1, <4>3, AppendIsConcat
        <4> QED BY <4>4
      <3> QED BY <3>2, <3>3
    <2> QED BY <1>2, <2>1, <2>2
  <1>5. PICK w \in Seq(Octets) : out' = out \o w
    BY <1>4
  <1>6. /\ Grown
        /\ wr[x].st = "head" => Len(sent') = L + 1
        /\ wr[x].st = "body" => Len(sent') = L
    <2>1. CASE wr[x].st = "head"
      <3>1. sent' = Append(sent, f)
        BY <2>1 DEF Tear
      <3> HIDE DEF f
      <3> QED BY <1>0, <1>2, <1>3, <2>1, <3>1, SentAppends
    <2>2. CASE wr[x].st = "body"
      <3>1. sent' = sent
        BY <2>2 DEF Tear
      <3>2. L <= L
        BY <1>1, SMT
      <3> QED BY <1>0, <1>1, <1>2, <2>2, <3>1, <3>2 DEF Grown, client
    <2> QED BY <1>2, <2>1, <2>2
  <1>7. CASE torn # 0
    BY <1>2, <1>5, <1>6, <1>7, BehindTear DEF OutInv
  <1>8. CASE torn = 0
    <2>1. torn' = Len(sent') /\ Len(sent') \in Nat
      BY <1>2, <1>6, <1>8 DEF Grown
    <2>2. torn' <= Len(sent') /\ GotInv'
      <3>1. torn' <= Len(sent')
        BY <2>1, SMT
      <3> QED BY <1>6, <1>8, <2>1, <3>1, GotGrown DEF OutInv
    <2>3. Intact /\ \E last, pos : /\ last \in Nat /\ last + 1 = torn' /\ Cur <= last + 1
                                   /\ Layout(Stream, sent, Cur, last, pos)
                                   /\ last <= L /\ pos[last + 1] <= S
      <3>1. CASE wr[x].st = "head"
        <4>1. L <= L /\ S <= S
          BY <1>1, SMT
        <4> QED BY <1>0, <1>1, <1>2, <1>6, <1>8, <2>1, <3>1, <4>1, AtHead
      <3>2. CASE wr[x].st = "body"
        <4>1. Intact
          BY <1>2, <1>8, <3>2, AtBody
        <4>2. PICK last, pos : /\ last \in Nat /\ last + 1 = Len(sent) /\ Cur <= last + 1
                               /\ Layout(Stream, sent, Cur, last, pos)
                               /\ Len(Stream) = pos[last + 1] + Len(Hd(sent[last + 1]))
                               /\ sent[last + 1] = f
          BY <1>2, <1>8, <3>2, AtBody
        <4>3. PICK e, m : e = pos[last + 1] /\ m = Len(Hd(f))
          OBVIOUS
        <4>4. e \in Nat /\ m \in Nat /\ S = e + m
          <5>1. last + 1 \in Nat
            BY <4>2, SMT
          <5> QED BY <1>0, <1>3, <4>2, <4>3, <5>1, FrameFacts DEF Layout
        <4>5. e <= S /\ last <= L
          BY <1>0, <1>1, <4>2, <4>4, SMT
        <4> QED BY <1>0, <1>6, <2>1, <3>2, <4>1, <4>2, <4>3, <4>5
      <3> QED BY <1>2, <3>1, <3>2
    <2>4. PICK last, pos : /\ last \in Nat /\ last + 1 = torn' /\ Cur <= last + 1
                           /\ Layout(Stream, sent, Cur, last, pos)
                           /\ last <= L /\ pos[last + 1] <= S
      BY <2>3
    <2>5. Layout(Stream', sent', Cur, last, pos) /\ Cur' = Cur
      BY <1>0, <1>5, <1>6, <2>4, LayoutKept
    <2>6. pos[last + 1] <= Len(Stream')
      <3>1. Len(Stream') = S + Len(w) /\ Len(w) \in Nat
        BY <1>0, <1>5, <1>6, StreamGrows, LenProperties DEF Grown
      <3>2. PICK e, m : e = pos[last + 1] /\ m = Len(w)
        OBVIOUS
      <3>3. e \in Nat /\ m \in Nat /\ e <= S
        <4>1. last + 1 \in Nat
          BY <2>4, SMT
        <4> QED BY <2>4, <3>1, <3>2, <4>1 DEF Layout
      <3>4. e <= S + m
        BY <1>1, <3>3, SMT
      <3> QED BY <3>1, <3>2, <3>4
    <2>7. torn' # 0
      BY <2>4, SMT
    <2>8. Ends(last, pos)'
      BY <2>4, <2>6, <2>7 DEF Ends
    <2>9. Intact'
      BY <1>6, <2>3, <2>4, <2>5, <2>8, ClientKept DEF Intact
    <2> QED BY <2>2, <2>9 DEF Following
  <1> QED BY <1>7, <1>8

\* Steps that leave both ends of the stream alone.
LEMMA FollowsQuietly ==
    ASSUME TypeInv, Following, UNCHANGED <<out, sent, torn, cl, got>>,
           (\A y \in Writers : wr[y].st # "body") => \A y \in Writers : wr'[y].st # "body",
           (loop = "closed" \/ \E y \in Writers : wr[y].st = "body") =>
               (loop' = "closed" \/ \E y \in Writers : wr'[y].st = "body")
    PROVE  Following'
  <1>1. Stream' = Stream /\ Cur' = Cur
    BY DEF Stream, Cur
  <1>2. ASSUME Intact PROVE Intact'
    <2>1. PICK last, pos : /\ last \in Nat /\ Cur <= last + 1
                           /\ Layout(Stream, sent, Cur, last, pos) /\ Ends(last, pos)
      BY <1>2 DEF Intact
    <2>2. Ends(last, pos)'
      BY <1>1, <2>1 DEF Ends
    <2>3. /\ ~cl'.lost /\ (cl'.need = 0 => cl'.hdr = <<>>)
          /\ cl'.need > 0 =>
                 /\ Cur' <= Len(sent') /\ cl'.hdr = Hd(sent'[Cur'])
                 /\ cl'.need = sent'[Cur'].n /\ cl'.own
      BY <1>1, <1>2 DEF Intact
    <2> QED BY <1>1, <2>1, <2>2, <2>3 DEF Intact
  <1>3. GotInv'
    BY DEF Following, GotInv
  <1> QED BY <1>1, <1>2, <1>3 DEF Following

\* The frame at the head of the stream.
LEMMA FirstOut ==
    ASSUME TypeInv, Intact, torn <= Len(sent), torn = 0 \/ Cur < torn, Len(Stream) # 0
    PROVE  LET f == sent[Cur]
               m == Len(Hd(f))
           IN  /\ Cur <= Len(sent) /\ f \in Frames /\ m <= Len(Stream)
               /\ \A j \in 1..m : Stream[j] = Byte(Hd(f)[j])
               /\ f.n # 0 /\ Len(Stream) # m => Stream[m + 1] = Run(Cur, f.n)
  <1>1. PICK last, pos : /\ last \in Nat /\ Cur <= last + 1
                         /\ Layout(Stream, sent, Cur, last, pos) /\ Ends(last, pos)
    BY DEF Intact
  <1>2. PICK L, S, g : L = Len(sent) /\ S = Len(Stream) /\ g = Cur
    OBVIOUS
  <1>3. L \in Nat /\ S \in Nat /\ g \in Nat /\ g >= 1 /\ torn \in Nat
    BY <1>2, SentFacts, StreamType
  <1>4. pos[g] = 0
    BY <1>1, <1>2 DEF Layout
  <1>5. g <= last \/ (g = last + 1 /\ last + 1 = L /\ Starts(Stream, pos[last + 1], sent[last + 1])
                      /\ S = pos[last + 1] + Len(Hd(sent[last + 1])))
    <2>1. g <= last \/ g = last + 1
      BY <1>1, <1>2, <1>3, SMT
    <2>2. ASSUME g = last + 1, last + 1 # L PROVE FALSE
      <3>1. torn # last + 1
        BY <1>2, <1>3, <2>2, SMT
      <3>2. pos[last + 1] = S
        BY <1>1, <1>2, <2>2, <3>1 DEF Ends
      <3> QED BY <1>2, <1>4, <2>2, <3>2
    <2>3. ASSUME g = last + 1
          PROVE  /\ Starts(Stream, pos[last + 1], sent[last + 1])
                 /\ S = pos[last + 1] + Len(Hd(sent[last + 1]))
      <3>1. torn # last + 1
        BY <1>2, <1>3, <2>3, SMT
      <3>2. pos[last + 1] # S
        BY <1>2, <1>4, <2>3
      <3> QED BY <1>1, <1>2, <3>1, <3>2 DEF Ends
    <2> QED BY <2>1, <2>2, <2>3
  <1>6. g <= L /\ last <= L
    <2>1. last = L \/ last + 1 = L \/ (last + 1 = torn /\ torn <= L)
      BY <1>1, <1>2 DEF Ends
    <2> QED BY <1>1, <1>3, <1>5, <2>1, SMT
  <1>7. PICK f : f = sent[g]
    OBVIOUS
  <1>8. f \in Frames
    <2>1. g \in 1..L
      BY <1>3, <1>6, SMT
    <2> QED BY <1>2, <1>7, <2>1, SentFacts
  <1>9. PICK m, d : m = Len(Hd(f)) /\ d = Size(f)
    OBVIOUS
  <1>10. m \in Nat /\ d \in Nat /\ d >= m
    BY <1>8, <1>9, FrameFacts
  <1>11. \A j \in 1..m : 0 + j = j
    BY <1>10, SMT
  <1>12. CASE g <= last
    <2>1. g \in g..last /\ last + 1 \in (g + 1)..(last + 1) /\ last + 1 \in Nat
      BY <1>1, <1>3, <1>12, SMT
    <2>2. FrameAt(Stream, 0, g, f) /\ 0 + d <= pos[last + 1] /\ pos[last + 1] \in Nat
      BY <1>1, <1>2, <1>4, <1>7, <1>9, <2>1 DEF Layout
    <2>3. pos[last + 1] <= S
      <3>1. \/ pos[last + 1] <= S \/ pos[last + 1] = S
            \/ S = pos[last + 1] + Len(Hd(sent[last + 1])) /\ last + 1 = L
        BY <1>1, <1>2 DEF Ends
      <3>2. ASSUME last + 1 = L PROVE Len(Hd(sent[last + 1])) \in Nat
        <4>1. last + 1 \in 1..L
          BY <1>1, <1>3, <3>2, SMT
        <4>2. sent[last + 1] \in Frames
          BY <1>2, <4>1, SentFacts
        <4> QED BY <4>2, FrameFacts
      <3>3. PICK e, b : e = pos[last + 1] /\ b = Len(Hd(sent[last + 1]))
        OBVIOUS
      <3>4. e \in Nat /\ (e <= S \/ e = S \/ (b \in Nat /\ S = e + b))
        BY <2>2, <3>1, <3>2, <3>3
      <3>5. e <= S
        BY <1>3, <3>4, SMT
      <3> QED BY <3>3, <3>5
    <2>4. m <= S
      <3>1. PICK e : e = pos[last + 1]
        OBVIOUS
      <3>2. e \in Nat /\ 0 + d <= e /\ e <= S
        BY <2>2, <2>3, <3>1
      <3> QED BY <1>3, <1>10, <3>2, SMT
    <2>5. \A j \in 1..m : Stream[j] = Byte(Hd(f)[j])
      BY <1>9, <1>11, <2>2 DEF FrameAt, Starts
    <2>6. f.n # 0 => Stream[m + 1] = Run(g, f.n)
      <3>1. 0 + m + 1 = m + 1
        BY <1>10, SMT
      <3> QED BY <1>9, <2>2, <3>1 DEF FrameAt
    <2> QED BY <1>2, <1>6, <1>7, <1>8, <1>9, <2>4, <2>5, <2>6
  <1>13. CASE g = last + 1
    <2>1. Starts(Stream, 0, f) /\ S = 0 + m
      <3>1. ~(g <= last)
        BY <1>1, <1>3, <1>13, SMT
      <3> QED BY <1>4, <1>5, <1>7, <1>9, <1>13, <3>1
    <2>2. m <= S /\ S = m
      BY <1>3, <1>10, <2>1, SMT
    <2>3. \A j \in 1..m : Stream[j] = Byte(Hd(f)[j])
      BY <1>9, <1>11, <2>1 DEF Starts
    <2> QED BY <1>2, <1>6, <1>7, <1>8, <1>9, <2>2, <2>3
  <1> QED BY <1>5, <1>12, <1>13

\* The client is done with the frame at the head of the stream.
LEMMA FollowsDrop ==
    ASSUME TypeInv, Following, torn = 0 \/ Cur < torn, NEW f \in Frames, f = sent[Cur],
           Cur <= Len(sent), Size(f) <= Len(Stream), cl' = Between,
           got' = Append(got, [op |-> f.op, n |-> f.n, whole |-> TRUE]),
           UNCHANGED <<wr, sent, torn, loop>>,
           Len(Stream') = Len(Stream) - Size(f),
           \A k \in 1..(Len(Stream) - Size(f)) : Stream'[k] = Stream[Size(f) + k]
    PROVE  Following'
  <1>1. PICK L, S, g, d : L = Len(sent) /\ S = Len(Stream) /\ g = Cur /\ d = Size(f)
    OBVIOUS
  <1>2. L \in Nat /\ S \in Nat /\ g \in Nat /\ g >= 1 /\ torn \in Nat /\ Len(got) \in Nat
    BY <1>1, SentFacts, StreamType
  <1>3. d \in Nat /\ d <= S /\ g <= L
    BY <1>1, FrameFacts
  <1>4. /\ Len(got') = g /\ got'[g] = [op |-> f.op, n |-> f.n, whole |-> TRUE]
        /\ \A i \in 1..Len(got) : got'[i] = got[i]
    <2>1. got \in Seq(Results) /\ g = Len(got) + 1
      BY <1>1 DEF TypeInv, Cur
    <2>2. PICK r : r = [op |-> f.op, n |-> f.n, whole |-> TRUE]
      OBVIOUS
    <2>3. got' = Append(got, r)
      BY <2>2
    <2>4. Len(got') = g /\ got'[g] = r /\ \A i \in 1..Len(got) : got'[i] = got[i]
      BY <2>1, <2>3
    <2> QED BY <2>2, <2>4
  <1>5. Cur' = g + 1
    BY <1>4 DEF Cur
  <1>6. GotInv'
    <2> SUFFICES ASSUME NEW i \in 1..g, torn = 0 \/ i < torn
                 PROVE  /\ i <= L
                        /\ got'[i] = [op |-> sent[i].op, n |-> sent[i].n, whole |-> TRUE]
      BY <1>1, <1>4 DEF GotInv
    <2>1. CASE i = g
      BY <1>1, <1>3, <1>4, <2>1
    <2>2. CASE i # g
      <3>1. i \in 1..Len(got)
        BY <1>1, <1>2, <2>2, SMT DEF Cur
      <3> QED BY <1>1, <1>4, <3>1 DEF Following, GotInv
    <2> QED BY <2>1, <2>2
  <1>7. torn' <= Len(sent')
    BY DEF Following
  <1>8. ASSUME torn' = 0 \/ Cur' < torn' PROVE Intact'
    <2>1. Intact
      BY DEF Following
    <2>2. PICK last, pos : /\ last \in Nat /\ g <= last + 1
                           /\ Layout(Stream, sent, g, last, pos) /\ Ends(last, pos)
      BY <1>1, <2>1 DEF Intact
    <2>3. pos[g] = 0 /\ pos[last + 1] \in Nat /\ last + 1 \in Nat
      <3>1. last + 1 \in Nat
        BY <2>2, SMT
      <3> QED BY <2>2, <3>1 DEF Layout
    <2>4. g <= last
      <3>1. ASSUME g = last + 1 PROVE FALSE
        <4>1. torn # last + 1
          <5>1. torn = 0 \/ g + 1 < torn
            BY <1>5, <1>8
          <5> QED BY <1>2, <2>2, <3>1, <5>1, SMT
        <4>2. last # L
          BY <1>2, <1>3, <2>2, <3>1, SMT
        <4>3. sent[last + 1].n # 0 /\ S = 0 + Len(Hd(sent[last + 1]))
          BY <1>1, <2>2, <2>3, <3>1, <4>1, <4>2 DEF Ends
        <4>4. PICK m : m = Len(Hd(f))
          OBVIOUS
        <4>5. S = 0 + m /\ d = m + 1 /\ m \in Nat
          BY <1>1, <3>1, <4>3, <4>4, FrameFacts
        <4> QED BY <1>2, <1>3, <4>5, SMT
      <3> QED BY <1>2, <2>2, <3>1, SMT
    <2>5. last <= L
      <3>1. last = L \/ last + 1 = L \/ (last + 1 = torn /\ torn <= L)
        BY <1>1, <2>2 DEF Ends, Following
      <3> QED BY <1>2, <2>2, <3>1, SMT
    <2>6. \A i \in g..last : sent[i] \in Frames
      <3>1. \A i \in g..last : i \in 1..L
        BY <1>2, <2>2, <2>5, SMT
      <3> QED BY <1>1, <3>1, SentFacts
    <2>7. last + 1 = L => sent[last + 1] \in Frames /\ Len(Hd(sent[last + 1])) \in Nat
      <3>1. last + 1 = L => last + 1 \in 1..L
        BY <1>2, <2>2, SMT
      <3> QED BY <1>1, <3>1, SentFacts, FrameFacts
    <2>8. PICK e : e = pos[last + 1]
      OBVIOUS
    <2>9. e \in Nat /\ e <= S
      <3>1. PICK b : b = Len(Hd(sent[last + 1]))
        OBVIOUS
      <3>2. e <= S \/ e = S \/ (b \in Nat /\ S = e + b)
        BY <1>1, <2>2, <2>7, <2>8, <3>1 DEF Ends
      <3> QED BY <1>2, <2>3, <2>8, <3>2, SMT
    <2>10. PICK p : Layout(Stream', sent, g + 1, last, p) /\ d <= e /\ p[last + 1] = e - d
      <3>1. PICK v, w, s : v = Stream /\ w = Stream' /\ s = sent
        OBVIOUS
      <3>2. s[g] = f /\ Size(s[g]) = d
        BY <1>1, <3>1
      <3>3. Layout(v, s, g, last, pos) /\ \A i \in g..last : s[i] \in Frames
        BY <2>2, <2>6, <3>1
      <3>4. \A k \in 1..(S - d) : w[k] = v[d + k]
        BY <1>1, <3>1
      <3>5. \A k \in 1..(S - Size(s[g])) : w[k] = v[Size(s[g]) + k]
        BY <3>2, <3>4
      <3>6. pos[last + 1] <= S
        BY <2>8, <2>9
      <3>7. last \in Nat
        BY <2>2
      <3>8. \E p : /\ Layout(w, s, g + 1, last, p) /\ Size(s[g]) <= pos[last + 1]
                   /\ p[last + 1] = pos[last + 1] - Size(s[g])
        <4>1. Droppable(v, w, s, g, last, pos, S)
          BY <1>2, <2>4, <3>3, <3>5, <3>6, <3>7 DEF Droppable
        <4> QED BY <4>1, LayoutDrops
      <3> QED BY <2>8, <3>1, <3>2, <3>8
    <2>11. Ends(last, p)'
      <3>1. CASE torn # 0 /\ last + 1 = torn
        <4>1. e - d <= S - d
          BY <1>2, <1>3, <2>9, SMT
        <4> QED BY <1>1, <2>10, <3>1, <4>1 DEF Ends
      <3>2. CASE torn = 0 /\ last = L /\ e = S /\ \A x \in Writers : wr[x].st # "body"
        BY <1>1, <2>10, <3>2 DEF Ends
      <3>3. CASE /\ torn = 0 /\ last + 1 = L /\ sent[last + 1].n # 0
                 /\ Starts(Stream, e, sent[last + 1])
                 /\ S = e + Len(Hd(sent[last + 1]))
                 /\ loop = "closed" \/ \E x \in Writers : wr[x].st = "body"
        <4>1. PICK m : m = Len(Hd(sent[last + 1]))
          OBVIOUS
        <4>2. m \in Nat /\ S = e + m
          BY <2>7, <3>3, <4>1
        <4>3. S - d = (e - d) + m
          BY <1>3, <2>9, <4>2, SMT
        <4>4. \A j \in 1..m : (e - d) + j \in 1..(S - d) /\ d + ((e - d) + j) = e + j
          BY <1>3, <2>9, <2>10, <4>2, SMT
        <4>5. Starts(Stream', e - d, sent[last + 1])
          BY <1>1, <3>3, <4>1, <4>4 DEF Starts
        <4> QED BY <1>1, <2>10, <3>3, <4>1, <4>3, <4>5 DEF Ends
      <3> QED BY <1>1, <2>2, <2>8, <3>1, <3>2, <3>3 DEF Ends
    <2>12. ~cl'.lost /\ cl'.need = 0 /\ cl'.hdr = <<>> /\ ~(cl'.need > 0)
      BY SMT DEF Between
    <2>13. g + 1 <= last + 1
      BY <1>2, <2>2, <2>4, SMT
    <2> QED BY <1>5, <2>2, <2>10, <2>11, <2>12, <2>13 DEF Intact
  <1> QED BY <1>6, <1>7, <1>8 DEF Following

\* Behind a tear the client may decode anything.
LEMMA FollowsBehind ==
    ASSUME TypeInv, Following, torn # 0, ~(Cur < torn), UNCHANGED <<sent, torn>>,
           got' = got \/ \E r : got' = Append(got, r)
    PROVE  Following'
  <1>1. PICK g : g = Cur
    OBVIOUS
  <1>2. g \in Nat /\ torn \in Nat /\ Len(got) \in Nat /\ g = Len(got) + 1 /\ got \in Seq(Results)
    BY <1>1, SentFacts DEF Cur, TypeInv
  <1>3. /\ Len(got') = Len(got) \/ Len(got') = g
        /\ \A i \in 1..Len(got) : got'[i] = got[i]
    <2>1. CASE got' = got
      BY <2>1
    <2>2. ASSUME NEW r, got' = Append(got, r)
          PROVE  Len(got') = g /\ \A i \in 1..Len(got) : got'[i] = got[i]
      BY <1>2, <2>2
    <2> QED BY <2>1, <2>2
  <1>4. ~(Cur' < torn)
    <2>1. Cur' = g \/ Cur' = g + 1
      BY <1>2, <1>3 DEF Cur
    <2> QED BY <1>1, <1>2, <2>1, SMT
  <1>5. GotInv'
    <2> SUFFICES ASSUME NEW i \in 1..Len(got'), i < torn
                 PROVE  /\ i <= Len(sent)
                        /\ got'[i] = [op |-> sent[i].op, n |-> sent[i].n, whole |-> TRUE]
      BY DEF GotInv
    <2>1. i \in 1..Len(got)
      BY <1>1, <1>2, <1>3, SMT
    <2> QED BY <1>3, <2>1 DEF Following, GotInv
  <1> QED BY <1>4, <1>5 DEF Following

\* The header taken and the octets behind it.
LEMMA Parts ==
    ASSUME NEW h \in Seq(Bytes), NEW o \in Seq(Octets)
    PROVE  LET s == [j \in 1..Len(h) |-> Byte(h[j])] \o o
           IN  /\ s \in Seq(Octets) /\ Len(h) \in Nat /\ Len(o) \in Nat
               /\ Len(s) = Len(h) + Len(o)
               /\ \A j \in 1..Len(h) : s[j] = Byte(h[j])
               /\ \A j \in 1..Len(o) : s[Len(h) + j] = o[j]
  <1>1. PICK b : b = [j \in 1..Len(h) |-> Byte(h[j])]
    OBVIOUS
  <1>2. Len(h) \in Nat /\ Len(h) <= Len(h)
    BY LenProperties, SMT
  <1>3. b \in Seq(Octets) /\ Len(b) = Len(h) /\ \A j \in 1..Len(h) : b[j] = Byte(h[j])
    BY <1>1, <1>2, HeaderOctets
  <1>4. /\ b \o o \in Seq(Octets) /\ Len(o) \in Nat
        /\ Len(b \o o) = Len(b) + Len(o)
        /\ \A k \in 1..Len(b) : (b \o o)[k] = b[k]
        /\ \A j \in 1..Len(o) : (b \o o)[Len(b) + j] = o[j]
    BY <1>3, Joined
  <1> QED BY <1>1, <1>2, <1>3, <1>4

\* Without its first m elements.
LEMMA Rest ==
    ASSUME NEW s \in Seq(Octets), NEW m \in Nat, m <= Len(s)
    PROVE  LET t == SubSeq(s, m + 1, Len(s))
           IN  /\ t \in Seq(Octets) /\ Len(s) - m \in Nat /\ Len(t) = Len(s) - m
               /\ \A k \in 1..(Len(s) - m) : t[k] = s[m + k]
  <1>1. PICK t, n : t = SubSeq(s, m + 1, Len(s)) /\ n = Len(s)
    OBVIOUS
  <1>2. n \in Nat /\ m <= n /\ Len(s) = n /\ t = SubSeq(s, m + 1, n)
    BY <1>1, LenProperties
  <1>3. m + 1 \in 1..(n + 1) /\ n \in ((m + 1) - 1)..n /\ n - m \in Nat
    BY <1>2, SMT
  <1>4. \A k \in (m + 1)..n : s[k] \in Octets
    BY <1>2, SMT
  <1>5. m + 1 \in Int /\ n \in Int
    BY <1>2, SMT
  <1>6. /\ t \in Seq(Octets) /\ Len(t) = IF m + 1 <= n THEN n - (m + 1) + 1 ELSE 0
        /\ \A k \in 1..(n - (m + 1) + 1) : t[k] = s[(m + 1) + k - 1]
    BY <1>2, <1>4, <1>5, SubSeqProperties
  <1>7. Len(t) = n - m
    BY <1>2, <1>6, SMT
  <1>8. \A k \in 1..(n - m) : k \in 1..(n - (m + 1) + 1) /\ (m + 1) + k - 1 = m + k
    BY <1>2, SMT
  <1>9. \A k \in 1..(n - m) : t[k] = s[m + k]
    BY <1>6, <1>8
  <1> QED BY <1>1, <1>3, <1>6, <1>7, <1>9

\* Between two frames the stream is what is on its way.
LEMMA StreamIsOut ==
    ASSUME NEW o \in Seq(Octets)
    PROVE  [j \in 1..Len(<<>>) |-> Byte(<<>>[j])] \o o = o
  <1>1. <<>> \in Seq(Bytes) /\ Len(<<>>) = 0
    BY EmptySeq
  <1>2. PICK s : s = [j \in 1..Len(<<>>) |-> Byte(<<>>[j])] \o o
    OBVIOUS
  <1>3. /\ s \in Seq(Octets) /\ Len(o) \in Nat /\ Len(s) = 0 + Len(o)
        /\ \A j \in 1..Len(o) : s[0 + j] = o[j]
    BY <1>1, <1>2, Parts
  <1>4. PICK n : n = Len(o)
    OBVIOUS
  <1>5. n \in Nat /\ Len(s) = n /\ \A j \in 1..n : 0 + j = j
    BY <1>3, <1>4, SMT
  <1>6. Len(s) = Len(o) /\ \A j \in 1..Len(s) : s[j] = o[j]
    BY <1>3, <1>4, <1>5
  <1>7. s = o
    BY <1>3, <1>6, SeqEqual
  <1> QED BY <1>2, <1>7

\* A header behind which a frame's octets stand is that frame's.
LEMMA HeaderAhead ==
    ASSUME TypeInv, Following, torn = 0 \/ Cur < torn, HasHeader(out), cl.need = 0
    PROVE  LET f == sent[Cur]
           IN  /\ Intact /\ cl.hdr = <<>> /\ Stream = out
               /\ Cur <= Len(sent) /\ f \in Frames /\ Header(out) = Hd(f)
               /\ Len(Hd(f)) <= Len(out) /\ \A j \in 1..Len(Hd(f)) : out[j] = Byte(Hd(f)[j])
  <1>1. Intact /\ torn <= Len(sent) /\ cl.hdr = <<>>
    BY DEF Following, Intact
  <1>2. out \in Seq(Octets)
    BY DEF TypeInv
  <1>3. Stream = out
    BY <1>1, <1>2, StreamIsOut DEF Stream
  <1>4. Len(Stream) # 0
    <2>1. Len(out) >= 2 /\ Len(out) \in Nat
      BY <1>2, LenProperties DEF HasHeader
    <2>2. Len(out) # 0
      BY <2>1, SMT
    <2> QED BY <1>3, <2>2
  <1>5. PICK f : f = sent[Cur]
    OBVIOUS
  <1>6. /\ Cur <= Len(sent) /\ f \in Frames /\ Len(Hd(f)) <= Len(out)
        /\ \A j \in 1..Len(Hd(f)) : out[j] = Byte(Hd(f)[j])
    BY <1>1, <1>3, <1>4, <1>5, FirstOut
  <1>7. Hd(f) \in Seq(Bytes) /\ Len(Hd(f)) >= 2 /\ Len(Hd(f)) = 2 + Extended(Hd(f)[2])
    BY <1>6, FrameFacts
  <1>8. Header(out) = Hd(f)
    BY <1>2, <1>6, <1>7, ReadHeaderWritten
  <1> QED BY <1>1, <1>3, <1>5, <1>6, <1>8

\* The client takes a header.
LEMMA FollowsHeader ==
    ASSUME TypeInv, Following, ClientHeader
    PROVE  Following'
  <1>1. /\ HasHeader(out) /\ cl.need = 0 /\ UNCHANGED <<wr, sent, torn, loop>>
    BY DEF ClientHeader
  <1>2. CASE torn # 0 /\ ~(Cur < torn)
    <2>1. got' = got \/ \E r : got' = Append(got, r)
      BY DEF ClientHeader, Decoded
    <2> QED BY <1>1, <1>2, <2>1, FollowsBehind
  <1>3. CASE torn = 0 \/ Cur < torn
    <2>1. PICK f : f = sent[Cur]
      OBVIOUS
    <2>2. /\ Intact /\ cl.hdr = <<>> /\ Stream = out
          /\ Cur <= Len(sent) /\ f \in Frames /\ Header(out) = Hd(f)
          /\ Len(Hd(f)) <= Len(out) /\ \A j \in 1..Len(Hd(f)) : out[j] = Byte(Hd(f)[j])
      BY <1>1, <1>3, <2>1, HeaderAhead
    <2>3. PICK h, m, S : h = Hd(f) /\ m = Len(Hd(f)) /\ S = Len(out)
      OBVIOUS
    <2>4. /\ h \in Seq(Bytes) /\ m \in Nat /\ m >= 2 /\ Len(h) = m
          /\ h[1] >= 128 /\ h[1] % 16 = f.op /\ h[2] < 128 /\ PayloadLen(h) = f.n
          /\ f.n \in Nat /\ (f.n = 0 => Size(f) = m)
      BY <2>2, <2>3, FrameFacts
    <2>5. out \in Seq(Octets) /\ S \in Nat /\ m <= S
      BY <2>2, <2>3, LenProperties DEF TypeInv
    <2>6. ~(h[1] < 128 \/ h[2] >= 128 \/ \E i \in DOMAIN h : out[i].f # 0)
      <3>1. ~(h[1] < 128) /\ ~(h[2] >= 128)
        <4>1. h[1] \in Bytes /\ h[2] \in Bytes
          BY <2>4, SMT
        <4>2. PICK b1, b2 : b1 = h[1] /\ b2 = h[2]
          OBVIOUS
        <4>3. b1 \in Nat /\ b2 \in Nat /\ b1 >= 128 /\ b2 < 128
          BY <2>4, <4>1, <4>2, InBytes
        <4>4. ~(b1 < 128) /\ ~(b2 >= 128)
          BY <4>3, SMT
        <4> QED BY <4>2, <4>4
      <3>2. \A b : Byte(b).f = 0
        BY DEF Byte
      <3>3. DOMAIN h = 1..m
        BY <2>4, LenProperties
      <3> QED BY <2>2, <2>3, <3>1, <3>2, <3>3
    <2>7. /\ out' = Behind(out)
          /\ cl' = [Between EXCEPT !.hdr = IF f.n = 0 THEN <<>> ELSE h, !.need = f.n]
          /\ got' = IF f.n = 0 THEN Decoded(h, TRUE) ELSE got
      BY <2>2, <2>3, <2>4, <2>6 DEF ClientHeader
    <2>8. cl' = [hdr |-> IF f.n = 0 THEN <<>> ELSE h, need |-> f.n, own |-> TRUE, lost |-> FALSE]
      BY <2>7 DEF Between
    <2>9. out' = SubSeq(out, m + 1, S)
      BY <2>2, <2>3, <2>7 DEF Behind
    <2>10. /\ out' \in Seq(Octets) /\ S - m \in Nat /\ Len(out') = S - m
           /\ \A k \in 1..(S - m) : out'[k] = out[m + k]
      BY <2>3, <2>4, <2>5, <2>9, Rest
    <2>11. CASE f.n = 0
      <3>1. cl' = Between /\ cl'.hdr = <<>>
        BY <2>8, <2>11 DEF Between
      <3>2. Stream' = out'
        BY <2>10, <3>1, StreamIsOut DEF Stream
      <3>3. got' = Append(got, [op |-> f.op, n |-> f.n, whole |-> TRUE])
        BY <2>4, <2>7, <2>11 DEF Decoded
      <3>4. Size(f) = m /\ Len(Stream) = S
        BY <2>2, <2>3, <2>4, <2>11
      <3>5. /\ Size(f) <= Len(Stream) /\ Len(Stream') = Len(Stream) - Size(f)
            /\ \A k \in 1..(Len(Stream) - Size(f)) : Stream'[k] = Stream[Size(f) + k]
        BY <2>2, <2>5, <2>10, <3>2, <3>4
      <3> QED BY <1>1, <1>3, <2>1, <2>2, <3>1, <3>3, <3>5, FollowsDrop
    <2>12. CASE f.n # 0
      <3>1. /\ cl'.hdr = h /\ cl'.need = f.n /\ cl'.own /\ ~cl'.lost /\ cl'.need # 0
            /\ got' = got
        <4>1. cl' = [hdr |-> h, need |-> f.n, own |-> TRUE, lost |-> FALSE] /\ got' = got
          BY <2>7, <2>8, <2>12
        <4>2. cl'.hdr = h /\ cl'.need = f.n /\ cl'.own = TRUE /\ cl'.lost = FALSE
          BY <4>1
        <4> QED BY <2>12, <4>1, <4>2
      <3>2. Cur' = Cur
        BY <3>1 DEF Cur
      <3>3. Stream' = Stream
        <4>1. PICK t : t = Stream'
          OBVIOUS
        <4>2. t = [j \in 1..Len(h) |-> Byte(h[j])] \o out'
          BY <3>1, <4>1 DEF Stream
        <4>3. /\ t \in Seq(Octets) /\ Len(t) = m + (S - m)
              /\ \A j \in 1..m : t[j] = Byte(h[j])
              /\ \A j \in 1..(S - m) : t[m + j] = out'[j]
          <5>1. PICK o : o = out'
            OBVIOUS
          <5>2. o \in Seq(Octets) /\ Len(o) = S - m /\ t = [j \in 1..Len(h) |-> Byte(h[j])] \o o
            BY <2>10, <4>2, <5>1
          <5>3. /\ t \in Seq(Octets) /\ Len(t) = Len(h) + Len(o)
                /\ \A j \in 1..Len(h) : t[j] = Byte(h[j])
                /\ \A j \in 1..Len(o) : t[Len(h) + j] = o[j]
            BY <2>4, <5>2, Parts
          <5> QED BY <2>4, <5>1, <5>2, <5>3
        <4>4. Len(t) = S
          BY <2>4, <2>5, <4>3, SMT
        <4>5. \A k \in 1..S : t[k] = out[k]
          <5> SUFFICES ASSUME NEW k \in 1..S PROVE t[k] = out[k]
            OBVIOUS
          <5>1. CASE k <= m
            <6>1. k \in 1..m
              BY <2>4, <2>5, <5>1, SMT
            <6> QED BY <2>2, <2>3, <4>3, <6>1
          <5>2. CASE ~(k <= m)
            <6>1. k - m \in 1..(S - m) /\ m + (k - m) = k
              BY <2>4, <2>5, <5>2, SMT
            <6>2. t[m + (k - m)] = out'[k - m] /\ out'[k - m] = out[m + (k - m)]
              BY <2>10, <4>3, <6>1
            <6> QED BY <6>1, <6>2
          <5> QED BY <5>1, <5>2
        <4>6. t = out
          BY <2>3, <2>5, <4>3, <4>4, <4>5, SeqEqual
        <4> QED BY <2>2, <4>1, <4>6
      <3>4. PICK last, pos : /\ last \in Nat /\ Cur <= last + 1
                             /\ Layout(Stream, sent, Cur, last, pos) /\ Ends(last, pos)
        BY <2>2 DEF Intact
      <3>5. Ends(last, pos)'
        BY <1>1, <3>3, <3>4 DEF Ends
      <3>6. Layout(Stream', sent', Cur', last, pos) /\ Cur' <= last + 1
        BY <1>1, <3>2, <3>3, <3>4
      <3>7. Cur' <= Len(sent') /\ cl'.hdr = Hd(sent'[Cur']) /\ cl'.need = sent'[Cur'].n
        BY <1>1, <2>1, <2>2, <2>3, <3>1, <3>2
      <3>8. Intact'
        BY <3>1, <3>4, <3>5, <3>6, <3>7 DEF Intact
      <3>9. GotInv' /\ torn' <= Len(sent')
        BY <1>1, <3>1 DEF Following, GotInv
      <3> QED BY <3>8, <3>9 DEF Following
    <2> QED BY <2>11, <2>12
  <1> QED BY <1>2, <1>3

\* The client takes a payload, which is the one of its header.
LEMMA FollowsPayload ==
    ASSUME TypeInv, Following, ClientPayload
    PROVE  Following'
  <1>1. out # <<>> /\ cl.need > 0 /\ UNCHANGED <<wr, sent, torn, loop>>
    BY DEF ClientPayload
  <1>2. CASE torn # 0 /\ ~(Cur < torn)
    <2>1. got' = got \/ \E r : got' = Append(got, r)
      BY DEF ClientPayload, Decoded
    <2> QED BY <1>1, <1>2, <2>1, FollowsBehind
  <1>3. CASE torn = 0 \/ Cur < torn
    <2>1. PICK f, g : f = sent[Cur] /\ g = Cur
      OBVIOUS
    <2>2. Intact /\ torn <= Len(sent)
      BY <1>3 DEF Following
    <2>3. Cur <= Len(sent) /\ cl.hdr = Hd(f) /\ cl.need = f.n /\ cl.own
      BY <1>1, <2>1, <2>2 DEF Intact
    <2>4. /\ out \in Seq(Octets) /\ Len(out) \in Nat /\ cl.need \in Nat /\ cl.hdr \in Seq(Bytes)
          /\ cl.own \in BOOLEAN
      BY LenProperties DEF TypeInv, Decoders
    <2>5. f \in Frames
      <3>1. Cur \in 1..Len(sent)
        BY <2>3, SentFacts, SMT
      <3> QED BY <2>1, <3>1, SentFacts
    <2>6. PICK h, m, S, N : h = Hd(f) /\ m = Len(Hd(f)) /\ S = Len(Stream) /\ N = Len(out)
      OBVIOUS
    <2>7. /\ h \in Seq(Bytes) /\ m \in Nat /\ Len(h) = m /\ h[1] % 16 = f.op
          /\ PayloadLen(h) = f.n /\ (f.n # 0 => Size(f) = m + 1)
      BY <2>5, <2>6, FrameFacts
    <2>8. f.n # 0 /\ N \in Nat /\ N >= 1
      <3>1. N \in Nat /\ N # 0
        BY <1>1, <2>4, <2>6, EmptySeq
      <3>2. f.n # 0
        <4>1. cl.need # 0
          BY <1>1, <2>4, SMT
        <4> QED BY <2>3, <4>1
      <3> QED BY <3>1, <3>2, SMT
    <2>9. /\ Stream = [j \in 1..Len(h) |-> Byte(h[j])] \o out /\ S = m + N
          /\ \A j \in 1..N : Stream[m + j] = out[j]
      <3>1. Stream = [j \in 1..Len(h) |-> Byte(h[j])] \o out
        BY <2>3, <2>6 DEF Stream
      <3>2. Len(Stream) = Len(h) + Len(out) /\ \A j \in 1..Len(out) : Stream[Len(h) + j] = out[j]
        BY <2>4, <2>7, <3>1, Parts
      <3> QED BY <2>6, <2>7, <3>1, <3>2
    <2>10. S # 0 /\ S # m /\ 1 \in 1..N /\ S \in Nat
      BY <2>7, <2>8, <2>9, SMT
    <2>11. Stream[m + 1] = Run(g, f.n)
      BY <1>3, <2>1, <2>2, <2>6, <2>8, <2>10, FirstOut
    <2>12. PICK x : x = Head(out)
      OBVIOUS
    <2>13. x = Run(g, f.n) /\ x.n = f.n /\ x.f = g
      <3>1. out[1] = Run(g, f.n)
        BY <2>9, <2>10, <2>11
      <3>2. x = out[1]
        BY <2>12
      <3> QED BY <3>1, <3>2 DEF Run
    <2>14. /\ ~(x.n < cl.need) /\ x.n = cl.need /\ (cl.own /\ x.f = Len(got) + 1) = TRUE
      <3>1. x.n = cl.need /\ ~(x.n < cl.need)
        <4>1. PICK n : n = cl.need
          OBVIOUS
        <4>2. n \in Nat /\ x.n = n
          BY <2>3, <2>4, <2>13, <4>1
        <4>3. ~(n < n)
          BY <4>2, SMT
        <4> QED BY <4>1, <4>2, <4>3
      <3>2. x.f = Len(got) + 1
        BY <2>1, <2>13 DEF Cur
      <3> QED BY <2>3, <2>4, <3>1, <3>2
    <2>15. out' = Tail(out) /\ cl' = Between /\ got' = Decoded(cl.hdr, TRUE)
      BY <2>12, <2>14 DEF ClientPayload
    <2>16. got' = Append(got, [op |-> f.op, n |-> f.n, whole |-> TRUE])
      BY <2>3, <2>6, <2>7, <2>15 DEF Decoded
    <2>17. /\ out' \in Seq(Octets) /\ Len(out') = N - 1
           /\ \A k \in 1..(N - 1) : out'[k] = out[k + 1]
      BY <1>1, <2>4, <2>6, <2>15, HeadTailProperties
    <2>18. Stream' = out'
      <3>1. cl'.hdr = <<>>
        BY <2>15 DEF Between
      <3> QED BY <2>17, <3>1, StreamIsOut DEF Stream
    <2>19. PICK d : d = Size(f)
      OBVIOUS
    <2>20. d = m + 1 /\ d <= S /\ N - 1 = S - d
      BY <2>7, <2>8, <2>9, <2>19, SMT
    <2>21. \A k \in 1..(S - d) : out'[k] = Stream[d + k]
      <3> SUFFICES ASSUME NEW k \in 1..(N - 1) PROVE out'[k] = Stream[d + k]
        BY <2>20
      <3>1. k + 1 \in 1..N /\ m + (k + 1) = d + k
        BY <2>7, <2>8, <2>20, SMT
      <3> QED BY <2>9, <2>17, <3>1
    <2> QED BY <1>1, <1>3, <2>1, <2>3, <2>5, <2>6, <2>15, <2>16, <2>17, <2>18, <2>19, <2>20, <2>21,
               FollowsDrop
  <1> QED BY <1>2, <1>3

LEMMA OutInit == Init => OutInv
  <1> SUFFICES ASSUME Init PROVE OutInv
    OBVIOUS
  <1>1. /\ out = <<>> /\ sent = <<>> /\ got = <<>> /\ torn = 0
        /\ \A x \in Writers : wr[x].st = "idle"
    BY DEF Init
  <1>2. cl.hdr = <<>> /\ cl.need = 0 /\ ~cl.lost
    BY DEF Init
  <1>3. <<>> \in Seq(Octets) /\ Len(<<>>) = 0
    BY EmptySeq
  <1>4. Stream = <<>>
    BY <1>1, <1>2, <1>3, StreamIsOut DEF Stream
  <1>5. Cur = 1 /\ Len(sent) = 0 /\ Len(got) = 0 /\ Len(Stream) = 0
    <2>1. 0 + 1 = 1
      BY SMT
    <2> QED BY <1>1, <1>3, <1>4, <2>1 DEF Cur
  <1>6. PICK pos : pos = [i \in Nat |-> 0]
    OBVIOUS
  <1>7. pos \in [Nat -> Nat] /\ pos[1] = 0 /\ pos[0 + 1] = 0
    BY <1>6, SMT
  <1>8. 1..0 = {} /\ 1 <= 0 + 1 /\ 0 \in Nat /\ 0 <= 0
    BY SMT
  <1>9. Layout(Stream, sent, 1, 0, pos)
    BY <1>7, <1>8 DEF Layout
  <1>10. Ends(0, pos)
    BY <1>1, <1>5, <1>7 DEF Ends
  <1>11. ~(cl.need > 0)
    BY <1>2, SMT
  <1>12. Intact
    BY <1>2, <1>5, <1>8, <1>9, <1>10, <1>11 DEF Intact
  <1>13. GotInv /\ torn <= Len(sent)
    BY <1>1, <1>5, <1>8 DEF GotInv
  <1> QED BY <1>12, <1>13, MuInit DEF OutInv, Following

\* Taking wsConn.mu puts nothing on the stream.
LEMMA FollowsLock ==
    ASSUME TypeInv, OutInv, NEW x \in Writers, NEW op, NEW n, Lock(x, op, n)
    PROVE  Following'
  <1>1. wr \in [Writers -> Calls]
    BY DEF TypeInv
  <1>2. mu = None /\ UNCHANGED <<out, sent, torn, cl, got, loop>>
    BY DEF Lock, Free, client
  <1>3. \A y \in Writers : wr[y].st \notin {"head", "body"}
    BY <1>2, WriterFacts DEF OutInv, MuInv
  <1>4. wr'[x].st = "head" /\ \A y \in Writers : y # x => wr'[y] = wr[y]
    BY <1>1 DEF Lock
  <1>5. \A y \in Writers : wr'[y].st # "body"
    BY <1>3, <1>4
  <1> QED BY <1>2, <1>3, <1>5, FollowsQuietly DEF OutInv

\* A write to a closed connection leaves it as it is.
LEMMA FollowsWriteClosed ==
    ASSUME TypeInv, OutInv, NEW x \in Writers, WriteClosed(x)
    PROVE  Following'
  <1>1. /\ UNCHANGED <<out, sent, torn, cl, got>> /\ loop = "closed" /\ Unlock(x, "error")
        /\ wr[x].st \in {"head", "body"}
    BY DEF WriteClosed, client
  <1>2. \A y \in Writers : wr'[y].st \notin {"head", "body"}
    BY <1>1, MuUnlock DEF OutInv
  <1>3. loop' = "closed"
    BY <1>1 DEF Unlock
  <1> QED BY <1>1, <1>2, <1>3, FollowsQuietly DEF OutInv

\* Every step keeps the client in step.
LEMMA OutStep ==
    ASSUME TypeInv, OutInv, [Next]_vars
    PROVE  OutInv'
  <1>1. "pinger" \in Writers /\ "loop" \in Writers /\ Senders \subseteq Writers
    BY DEF Writers
  <1>2. ASSUME NEW x \in Writers, WriteFrame(x) PROVE Following'
    BY <1>2, FollowsWriteHead, FollowsWriteBody, FollowsWriteClosed, FollowsTear DEF WriteFrame
  <1>3. ASSUME (\E x \in Senders, n \in Lengths : BeginText(x, n)) \/ BeginPing \/ BeginPong
        PROVE  Following'
    BY <1>1, <1>3, FollowsLock DEF BeginText, BeginPing, BeginPong
  <1>4. ASSUME ReadFrame \/ ReadFails \/ UNCHANGED vars \/ \E c \in Clients : ClientSends(c)
        PROVE  Following'
    <2>1. /\ UNCHANGED <<out, sent, torn, cl, got, wr>> /\ (loop = "closed" => loop' = "closed")
      BY <1>4 DEF ReadFrame, ReadFails, ClientSends, vars, outgoing, client
    <2> QED BY <2>1, FollowsQuietly DEF OutInv
  <1>5. Following'
    BY <1>2, <1>3, <1>4, FollowsHeader, FollowsPayload DEF Next, OutInv
  <1> QED BY <1>5, MuStep DEF OutInv

\* A client in step has decoded what was sent.
LEMMA OutInvImpliesFrames == TypeInv /\ OutInv => FramesIntactUpToTear
  <1> SUFFICES ASSUME TypeInv, OutInv PROVE FramesIntactUpToTear
    OBVIOUS
  <1>1. DOMAIN got = 1..Len(got)
    BY LenProperties DEF TypeInv
  <1> QED BY <1>1 DEF OutInv, Following, GotInv, Intact, FramesIntactUpToTear

----------------------------------------------------------------------------
(* The theorems.                                                           *)

\* The state of a connection keeps its type: no write, tear or frame of either
\* side brings a value that is none, a length of 2^31 included.
THEOREM TypeCorrect == Spec => []TypeOK
  <1>1. Init => TypeInv /\ InInv
    BY TypeInit, InInit
  <1>2. TypeInv /\ InInv /\ [Next]_vars => (TypeInv /\ InInv)'
    BY TypeStep, InStep
  <1> QED BY <1>1, <1>2, TypeInvImpliesTypeOK, PTL DEF Spec

\* ReadFrame returns what the client sent, for every client and number of frames.
THEOREM ReadsAreFaithful == Spec => []ReadsWhatWasSent
  <1>1. Init => TypeInv /\ InInv
    BY TypeInit, InInit
  <1>2. TypeInv /\ InInv /\ [Next]_vars => (TypeInv /\ InInv)'
    BY TypeStep, InStep
  <1> QED BY <1>1, <1>2, InInvImpliesReads, PTL DEF Spec

\* The client decodes the frames that were written, whole and in order, up to the
\* first one a deadline cut short, for any writers, lengths and number of frames.
THEOREM FramesStayIntact == Spec => []FramesIntactUpToTear
  <1>1. Init => TypeInv /\ InInv /\ OutInv
    BY TypeInit, InInit, OutInit
  <1>2. TypeInv /\ InInv /\ OutInv /\ [Next]_vars => (TypeInv /\ InInv /\ OutInv)'
    BY TypeStep, InStep, OutStep
  <1> QED BY <1>1, <1>2, OutInvImpliesFrames, PTL DEF Spec

=============================================================================
