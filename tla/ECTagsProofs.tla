---------------------------- MODULE ECTagsProofs ----------------------------
(***************************************************************************)
(* Theorems about ECTags: whatever packet is encoded, with whatever forms  *)
(* of numbers and counts, decodes to itself, and no part of its bytes is   *)
(* taken for another packet.  From the numbers, in both forms, up to the   *)
(* tags of a packet: the reader and the encoder are functions defined by   *)
(* their own values at other places, so each is first shown to exist.      *)
(***************************************************************************)
EXTENDS ECTags, SequenceTheorems, FiniteSetTheorems, TLAPS

(* Among some numbers there is a least: every induction below is by it.    *)
LEMMA LeastNumber ==
  ASSUME NEW T, T \subseteq Nat, T # {}
  PROVE  \E n \in T : \A m \in T : n <= m
<1> DEFINE R == StrictSubsetOrdering(Nat)
           S == FiniteSubsetsOf(Nat)
           U == {1..n : n \in T}
<1>1. IsWellFoundedOn(R, S)
  BY FS_StrictSubsetOrderingWellFounded
<1>2. \A n \in Nat : 1..n \in S
  <2> SUFFICES ASSUME NEW n \in Nat PROVE IsFiniteSet(1..n) /\ 1..n \subseteq Nat
    BY DEF FiniteSubsetsOf
  <2> QED  BY FS_Interval
<1>3. \A m, n \in Nat : m < n => <<1..m, 1..n>> \in R
  <2> SUFFICES ASSUME NEW m \in Nat, NEW n \in Nat, m < n
               PROVE  1..m \subseteq 1..n /\ 1..m # 1..n /\ 1..n \subseteq Nat
    BY DEF StrictSubsetOrdering
  <2>1. n \in 1..n /\ n \notin 1..m
    OBVIOUS
  <2> QED  BY <2>1
<1> HIDE DEF R, S
<1>4. U \subseteq S /\ U # {}
  BY <1>2
<1>5. PICK u \in U : \A v \in U : <<v, u>> \notin R
  BY <1>1, <1>4, WFMin
<1>6. PICK n \in T : u = 1..n
  BY <1>5
<1>7. \A m \in T : ~(m < n)
  BY <1>3, <1>5, <1>6
<1> QED  BY <1>7

-----------------------------------------------------------------------------
(* Numbers.  What Digits() computes: any sequence of numbers that goes on  *)
(* digit by digit from the first one ends as it does.                      *)
Accumulates(value, base, first, digits) ==
  value = [i \in 0..Len(digits) |->
             IF i = 0 THEN first ELSE (base * value[i - 1]) + (digits[i] % base)]

(* Digits() is the last of the numbers so accumulated: there is one way.   *)
LEMMA DigitsAre ==
  ASSUME NEW base, NEW first, NEW digits, Len(digits) \in Nat,
         NEW value, Accumulates(value, base, first, digits)
  PROVE  Digits(base, first, digits) = value[Len(digits)]
<1> DEFINE n == Len(digits)
           f == CHOOSE f : Accumulates(f, base, first, digits)
           Off == {i \in 0..n : f[i] # value[i]}
<1>1. Digits(base, first, digits) = f[n]
  BY DEF Digits, Accumulates
<1>2. Accumulates(f, base, first, digits)
  OBVIOUS
<1> HIDE DEF f
<1>3. Off = {}
  <2> SUFFICES ASSUME Off # {} PROVE FALSE
    OBVIOUS
  <2>1. PICK i \in Off : \A j \in Off : i <= j
    <3>1. Off \subseteq Nat
      OBVIOUS
    <3> QED  BY <3>1, LeastNumber
  <2>2. i \in 0..n /\ f[i] # value[i]
    OBVIOUS
  <2> HIDE DEF n
  <2>3. CASE i = 0
    BY <1>2, <2>2, <2>3 DEF Accumulates, n
  <2>4. CASE i # 0
    <3>1. i - 1 \in 0..n /\ ~(i <= i - 1)
      BY <2>2, <2>4 DEF n
    <3>2. f[i - 1] = value[i - 1]
      BY <2>1, <3>1
    <3>3. f[i] = (base * f[i - 1]) + (digits[i] % base)
      BY <1>2, <2>2, <2>4 DEF Accumulates, n
    <3>4. value[i] = (base * value[i - 1]) + (digits[i] % base)
      BY <2>2, <2>4 DEF Accumulates, n
    <3> QED  BY <2>2, <3>2, <3>3, <3>4
  <2> QED  BY <2>3, <2>4
<1>4. n \in 0..n
  OBVIOUS
<1> QED  BY <1>1, <1>3, <1>4

(* There is such a sequence, of natural numbers, for any bytes.            *)
LEMMA DigitsType ==
  ASSUME NEW base \in Nat \ {0}, NEW first \in Nat, NEW digits \in Seq(Nat)
  PROVE  Digits(base, first, digits) \in Nat
<1> DEFINE n == Len(digits)
           Goes(g, k) == \A i \in 0..k : g[i] = IF i = 0 THEN first ELSE (base * g[i - 1]) + (digits[i] % base)
           Some(k) == \E g \in [0..k -> Nat] : Goes(g, k)
           Missing == {k \in 0..n : ~Some(k)}
<1>0. n \in Nat
  OBVIOUS
<1>1. Some(0)
  <2> DEFINE g == [i \in 0..0 |-> first]
  <2>1. g \in [0..0 -> Nat] /\ Goes(g, 0)
    OBVIOUS
  <2> QED  BY <2>1
<1>2. ASSUME NEW k \in 1..n, Some(k - 1)
      PROVE  Some(k)
  <2>1. PICK g \in [0..(k - 1) -> Nat] : Goes(g, k - 1)
    BY <1>2
  <2> DEFINE d == (base * g[k - 1]) + (digits[k] % base)
             h == [i \in 0..k |-> IF i = k THEN d ELSE g[i]]
  <2>2. d \in Nat
    <3>1. k - 1 \in 0..(k - 1) /\ k \in 1..Len(digits)
      OBVIOUS
    <3>2. g[k - 1] \in Nat /\ digits[k] \in Nat
      BY <3>1
    <3>3. digits[k] % base \in Nat
      BY <3>2
    <3>4. base * g[k - 1] \in Nat
      BY <3>2
    <3> QED  BY <3>3, <3>4
  <2> HIDE DEF d
  <2>3. h \in [0..k -> Nat]
    BY <2>2
  <2>4. ASSUME NEW i \in 0..k
        PROVE  h[i] = IF i = 0 THEN first ELSE (base * h[i - 1]) + (digits[i] % base)
    <3>1. CASE i = k
      <4>1. k - 1 \in 0..k /\ k - 1 # k /\ i # 0
        BY <3>1
      <4> QED  BY <3>1, <4>1 DEF d
    <3>2. CASE i # k /\ i = 0
      BY <2>1, <3>2
    <3>3. CASE i # k /\ i # 0
      <4>1. i \in 0..(k - 1) /\ i - 1 \in 0..k /\ i - 1 # k
        BY <3>3
      <4>2. h[i] = g[i] /\ h[i - 1] = g[i - 1]
        BY <3>3, <4>1
      <4> QED  BY <2>1, <3>3, <4>1, <4>2
    <3> QED  BY <3>1, <3>2, <3>3
  <2> HIDE DEF h
  <2> QED  BY <2>3, <2>4
<1> HIDE DEF Some
<1>3. Missing = {}
  <2> SUFFICES ASSUME Missing # {} PROVE FALSE
    OBVIOUS
  <2>1. PICK k \in Missing : \A m \in Missing : k <= m
    <3>1. Missing \subseteq Nat
      OBVIOUS
    <3> QED  BY <3>1, LeastNumber
  <2>2. k \in 1..n /\ k - 1 \in 0..n /\ ~(k <= k - 1)
    BY <1>0, <1>1, <2>1
  <2> QED  BY <1>2, <2>1, <2>2
<1>4. PICK g \in [0..n -> Nat] : Goes(g, n)
  <2>1. Some(n)
    BY <1>0, <1>3
  <2> QED  BY <2>1 DEF Some
<1>5. Accumulates(g, base, first, digits)
  BY <1>4 DEF Accumulates
<1>6. Digits(base, first, digits) = g[n]
  BY <1>0, <1>5, DigitsAre
<1> QED  BY <1>0, <1>4, <1>6

(* The digits of a number: what is above the k lowest ones.                *)
HighBytes(value, k) == IF k < 4 THEN value \div Weight[k + 1] ELSE 0

(* What is above k digits is what is above the next, and that digit.       *)
LEMMA HighBytesStep ==
  ASSUME NEW value \in Integer, NEW k \in Nat
  PROVE  /\ HighBytes(value, k) \in Nat
         /\ HighBytes(value, k) = (256 * HighBytes(value, k + 1)) + (HighBytes(value, k) % 256)
<1>1. Weight[1] = 1 /\ Weight[2] = 256 /\ Weight[3] = 65536 /\ Weight[4] = 16777216
  BY SMT DEF Weight
<1> DEFINE q1 == value \div 256
           q2 == value \div 65536
           q3 == value \div 16777216
<1>2. value \in Nat /\ value \div 1 = value
  BY SMT DEF Integer
<1>3. q1 \in Nat /\ q2 \in Nat /\ q3 \in Nat /\ q3 < 256
  BY SMT DEF Integer
<1>4. value = (256 * q1) + (value % 256)
  BY SMT DEF Integer
<1>5. q1 = (256 * q2) + (q1 % 256)
  <2>1. q2 = q1 \div 256
    BY SMT DEF Integer
  <2> QED  BY <1>3, <2>1, SMT
<1>6. q2 = (256 * q3) + (q2 % 256)
  <2>1. q3 = q2 \div 256
    BY SMT DEF Integer
  <2> QED  BY <1>3, <2>1, SMT
<1>7. q3 = q3 % 256
  BY <1>3, SMT
<1>8. CASE k = 0
  BY <1>1, <1>2, <1>3, <1>4, <1>8, SMT DEF HighBytes
<1>9. CASE k = 1
  BY <1>1, <1>3, <1>5, <1>9, SMT DEF HighBytes
<1>10. CASE k = 2
  BY <1>1, <1>3, <1>6, <1>10, SMT DEF HighBytes
<1>11. CASE k = 3
  BY <1>1, <1>3, <1>7, <1>11, SMT DEF HighBytes
<1>12. CASE k > 3
  BY <1>12, SMT DEF HighBytes
<1> QED  BY <1>8, <1>9, <1>10, <1>11, <1>12

(* A value that a width of bytes can hold.                                 *)
Holds(width, value) ==
  /\ value \in Integer /\ width \in Nat \ {0}
  /\ (width = 1 => value < 256) /\ (width = 2 => value < 65536)
  /\ width # 3

(* The bytes of a number, and how many.                                    *)
LEMMA BigEndianType ==
  ASSUME NEW value \in Integer, NEW width \in Nat
  PROVE  BigEndian(value, width) \in Seq(Byte) /\ Len(BigEndian(value, width)) = width
<1>1. \A i \in 1..width : BigEndian(value, width)[i] = HighBytes(value, width - i) % 256
  <2> SUFFICES ASSUME NEW i \in 1..width
               PROVE  BigEndian(value, width)[i] = HighBytes(value, width - i) % 256
    OBVIOUS
  <2>1. CASE width - i < 4
    BY <2>1, SMT DEF BigEndian, HighBytes
  <2>2. CASE ~(width - i < 4)
    BY <2>2, SMT DEF BigEndian, HighBytes
  <2> QED  BY <2>1, <2>2
<1>2. \A i \in 1..width : BigEndian(value, width)[i] \in Byte
  <2> SUFFICES ASSUME NEW i \in 1..width
               PROVE  HighBytes(value, width - i) % 256 \in Byte
    BY <1>1
  <2>1. width - i \in Nat
    OBVIOUS
  <2>2. HighBytes(value, width - i) \in Nat
    BY <2>1, HighBytesStep
  <2> QED  BY <2>2, SMT DEF Byte
<1>3. BigEndian(value, width) = [i \in 1..width |-> BigEndian(value, width)[i]]
  BY DEF BigEndian
<1> QED  BY <1>2, <1>3, SMT

(* Each byte is a digit of the number.                                     *)
LEMMA BigEndianAt ==
  ASSUME NEW value \in Integer, NEW width \in Nat, NEW i \in 1..width
  PROVE  BigEndian(value, width)[i] % 256 = HighBytes(value, width - i) % 256
<1>1. BigEndian(value, width)[i] = HighBytes(value, width - i) % 256
  <2>1. CASE width - i < 4
    BY <2>1, SMT DEF BigEndian, HighBytes
  <2>2. CASE ~(width - i < 4)
    BY <2>2, SMT DEF BigEndian, HighBytes
  <2> QED  BY <2>1, <2>2
<1>2. width - i \in Nat
  OBVIOUS
<1>3. HighBytes(value, width - i) \in Nat
  BY <1>2, HighBytesStep
<1> QED  BY <1>1, <1>3, SMT

(* A sequence that goes on digit by digit is one of those.                 *)
LEMMA AccumulatesIf ==
  ASSUME NEW base, NEW first, NEW digits, NEW value, value = [i \in 0..Len(digits) |-> value[i]],
         \A i \in 0..Len(digits) :
           value[i] = IF i = 0 THEN first ELSE (base * value[i - 1]) + (digits[i] % base)
  PROVE  Accumulates(value, base, first, digits)
<1>1. [i \in 0..Len(digits) |-> value[i]]
        = [i \in 0..Len(digits) |->
             IF i = 0 THEN first ELSE (base * value[i - 1]) + (digits[i] % base)]
  BY Zenon
<1> QED  BY <1>1 DEF Accumulates

(* A number of a fixed width reads back (readBigUIntBE).                   *)
LEMMA BigEndianReadsBack ==
  ASSUME NEW width, NEW value, Holds(width, value)
  PROVE  FromBigEndian(BigEndian(value, width)) = value
<1> DEFINE digits == BigEndian(value, width)
           high == [i \in 0..width |-> HighBytes(value, width - i)]
<1>1. value \in Integer /\ width \in Nat
  BY DEF Holds
<1>2. Len(digits) = width
  BY <1>1, BigEndianType
<1>3. HighBytes(value, width) = 0
  BY SMT DEF Holds, HighBytes, Weight, Integer
<1>4. ASSUME NEW i \in 0..width, i # 0
      PROVE  high[i] = (256 * high[i - 1]) + (digits[i] % 256)
  <2>1. i \in 1..width /\ width - i \in Nat /\ width - (i - 1) = width - i + 1 /\ i - 1 \in 0..width
    BY <1>1, <1>4
  <2>2. digits[i] % 256 = HighBytes(value, width - i) % 256
    BY <1>1, <2>1, BigEndianAt
  <2>3. HighBytes(value, width - i) = (256 * HighBytes(value, width - i + 1)) + (HighBytes(value, width - i) % 256)
    BY <1>1, <2>1, HighBytesStep
  <2> QED  BY <2>1, <2>2, <2>3
<1>5. high[0] = 0 /\ high[width] = value
  <2>1. 0 \in 0..width /\ width \in 0..width /\ width - width = 0 /\ width - 0 = width
    BY <1>1
  <2>2. HighBytes(value, 0) = value
    BY <1>1, SMT DEF HighBytes, Weight, Integer
  <2> QED  BY <1>3, <2>1, <2>2
<1> HIDE DEF digits
<1>6. Accumulates(high, 256, 0, digits)
  <2>1. \A i \in 0..width : high[i] = IF i = 0 THEN 0 ELSE (256 * high[i - 1]) + (digits[i] % 256)
    BY <1>4, <1>5
  <2>2. DOMAIN high = 0..width /\ high = [i \in 0..width |-> high[i]]
    OBVIOUS
  <2> HIDE DEF high
  <2> QED  BY <1>2, <2>1, <2>2, AccumulatesIf
<1> HIDE DEF high
<1>7. Digits(256, 0, digits) = high[width]
  BY <1>1, <1>2, <1>6, DigitsAre
<1> QED  BY <1>5, <1>7 DEF FromBigEndian, digits

(* The same of the digits of six bits of utf8EncodeNumber().               *)
HighBits(value, k) == value \div Above[k + 1]

(* What is above k digits is what is above the next, and that digit.       *)
LEMMA HighBitsStep ==
  ASSUME NEW value \in Integer
  PROVE  /\ \A k \in 0..5 : HighBits(value, k) \in Nat
         /\ \A k \in 0..4 : HighBits(value, k) = (64 * HighBits(value, k + 1)) + (HighBits(value, k) % 64)
         /\ HighBits(value, 0) = value
<1>1. /\ HighBits(value, 0) = value \div 1 /\ HighBits(value, 1) = value \div 64
      /\ HighBits(value, 2) = value \div 4096 /\ HighBits(value, 3) = value \div 262144
      /\ HighBits(value, 4) = value \div 16777216 /\ HighBits(value, 5) = value \div 1073741824
  BY SMT DEF HighBits, Above
<1>2. value \in Nat /\ value \div 1 = value
  BY SMT DEF Integer
<1> DEFINE q1 == value \div 64
           q2 == value \div 4096
           q3 == value \div 262144
           q4 == value \div 16777216
           q5 == value \div 1073741824
<1>3. q1 \in Nat /\ q2 \in Nat /\ q3 \in Nat /\ q4 \in Nat /\ q5 \in Nat
  BY <1>2, SMT
<1>4. value = (64 * q1) + (value % 64)
  BY <1>2, SMT
<1>5. q2 = q1 \div 64
  BY <1>2, SMT
<1>6. q3 = q2 \div 64
  BY <1>2, SMT
<1>7. q4 = q3 \div 64
  BY <1>2, SMT
<1>8. q5 = q4 \div 64
  BY <1>2, SMT
<1> HIDE DEF q1, q2, q3, q4, q5
<1>9. q1 = (64 * q2) + (q1 % 64) /\ q2 = (64 * q3) + (q2 % 64)
  BY <1>3, <1>5, <1>6, SMT
<1>10. q3 = (64 * q4) + (q3 % 64) /\ q4 = (64 * q5) + (q4 % 64)
  BY <1>3, <1>7, <1>8, SMT
<1>11. /\ HighBits(value, 0) = value /\ HighBits(value, 1) = q1
       /\ HighBits(value, 2) = q2 /\ HighBits(value, 3) = q3
       /\ HighBits(value, 4) = q4 /\ HighBits(value, 5) = q5
  BY <1>1, <1>2 DEF q1, q2, q3, q4, q5
<1>12. \A k \in 0..5 : HighBits(value, k) \in Nat
  BY <1>2, <1>3, <1>11, SMT
<1>13. \A k \in 0..4 : HighBits(value, k) = (64 * HighBits(value, k + 1)) + (HighBits(value, k) % 64)
  BY <1>4, <1>9, <1>10, <1>11, SMT
<1> QED  BY <1>11, <1>12, <1>13

(* How many bytes a number takes, and that the first says so.              *)
LEMMA Utf8LengthFits ==
  ASSUME NEW value \in Integer, value >= 128
  PROVE  /\ Utf8Length(value) \in 2..6
         /\ Lead[Utf8Length(value)] \in Nat /\ Lead[Utf8Length(value)] >= 192
         /\ HighBits(value, Utf8Length(value) - 1) < Lead[Utf8Length(value) + 1] - Lead[Utf8Length(value)]
         /\ Lead[Utf8Length(value) + 1] \in Nat /\ Lead[Utf8Length(value) + 1] <= 254
<1> DEFINE Enough(n) == (n = 1 \/ value >= Capacity[n - 1]) /\ (n = 6 \/ value < Capacity[n])
           n == Utf8Length(value)
<1>1. /\ Capacity[1] = 128 /\ Capacity[2] = 2048 /\ Capacity[3] = 65536
      /\ Capacity[4] = 2097152 /\ Capacity[5] = 67108864
  BY SMT DEF Capacity
<1>2. value \in Nat /\ value <= 2147483647
  BY SMT DEF Integer
<1>3. \E k \in 1..6 : Enough(k)
  <2>1. CASE value < 2048
    BY <1>1, <1>2, <2>1, SMT
  <2>2. CASE value >= 2048 /\ value < 65536
    BY <1>1, <1>2, <2>2, SMT
  <2>3. CASE value >= 65536 /\ value < 2097152
    BY <1>1, <1>2, <2>3, SMT
  <2>4. CASE value >= 2097152 /\ value < 67108864
    BY <1>1, <1>2, <2>4, SMT
  <2>5. CASE value >= 67108864
    BY <1>1, <1>2, <2>5, SMT
  <2> QED  BY <1>2, <2>1, <2>2, <2>3, <2>4, <2>5, SMT
<1>4. n \in 1..6 /\ Enough(n)
  BY <1>3, Zenon DEF Utf8Length
<1> HIDE DEF n
<1>5. n \in 2..6 /\ (n = 6 \/ value < Capacity[n])
  BY <1>1, <1>2, <1>4, SMT
<1>6. /\ Lead[2] = 192 /\ Lead[3] = 224 /\ Lead[4] = 240 /\ Lead[5] = 248
      /\ Lead[6] = 252 /\ Lead[7] = 254
  BY SMT DEF Lead
<1>7. /\ HighBits(value, 1) = value \div 64 /\ HighBits(value, 2) = value \div 4096
      /\ HighBits(value, 3) = value \div 262144 /\ HighBits(value, 4) = value \div 16777216
      /\ HighBits(value, 5) = value \div 1073741824
  BY SMT DEF HighBits, Above
<1>8. HighBits(value, n - 1) < Lead[n + 1] - Lead[n]
  <2>1. CASE n = 2
    BY <1>1, <1>2, <1>5, <1>6, <1>7, <2>1, SMT
  <2>2. CASE n = 3
    BY <1>1, <1>2, <1>5, <1>6, <1>7, <2>2, SMT
  <2>3. CASE n = 4
    BY <1>1, <1>2, <1>5, <1>6, <1>7, <2>3, SMT
  <2>4. CASE n = 5
    BY <1>1, <1>2, <1>5, <1>6, <1>7, <2>4, SMT
  <2>5. CASE n = 6
    BY <1>1, <1>2, <1>5, <1>6, <1>7, <2>5, SMT
  <2> QED  BY <1>5, <2>1, <2>2, <2>3, <2>4, <2>5, SMT
<1>9. Lead[n] \in Nat /\ Lead[n] >= 192 /\ Lead[n + 1] \in Nat /\ Lead[n + 1] <= 254
  BY <1>5, <1>6, SMT
<1> QED  BY <1>5, <1>8, <1>9, Zenon DEF n

(* The bytes of a number, one by one. *)
LEMMA Utf8Bytes ==
  ASSUME NEW value \in Integer
  PROVE  /\ Utf8(value) \in Seq(Byte)
         /\ value < 128 => Len(Utf8(value)) = 1 /\ Utf8(value)[1] = value
         /\ value >= 128 =>
              /\ Len(Utf8(value)) = Utf8Length(value)
              /\ Utf8(value)[1] = Lead[Utf8Length(value)] + HighBits(value, Utf8Length(value) - 1)
              /\ \A i \in 1..(Utf8Length(value) - 1) :
                   Utf8(value)[i + 1] % 64 = HighBits(value, Utf8Length(value) - 1 - i) % 64
<1>0. value \in Nat
  BY SMT DEF Integer
<1>1. CASE value < 128
  <2>1. Utf8(value) = <<value>> /\ value \in Byte
    BY <1>0, <1>1, SMT DEF Utf8, Byte
  <2> QED  BY <1>0, <1>1, <2>1, SMT
<1>2. CASE value >= 128
  <2> DEFINE n == Utf8Length(value)
             first == Lead[n] + HighBits(value, n - 1)
             more == [i \in 1..(n - 1) |-> 128 + (HighBits(value, n - 1 - i) % 64)]
  <2>1. n \in 2..6
    BY <1>2, Utf8LengthFits
  <2>2. first \in Byte
    <3>1. HighBits(value, n - 1) \in Nat
      BY <2>1, HighBitsStep
    <3> QED  BY <1>2, <3>1, Utf8LengthFits, SMT DEF Byte
  <2>3. \A i \in 1..(n - 1) : HighBits(value, n - 1 - i) \in Nat
    <3>1. \A k \in 0..5 : HighBits(value, k) \in Nat
      BY HighBitsStep
    <3>2. \A i \in 1..(n - 1) : n - 1 - i \in 0..5
      BY <2>1, SMT
    <3> HIDE DEF n
    <3> QED  BY <3>1, <3>2
  <2>4. Utf8(value) = <<first>> \o more
    <3>1. ~(value < 128)
      BY <1>0, <1>2, SMT
    <3>2. \A i \in 1..(n - 1) : (n - 1 - i) + 1 = n - i
      BY <2>1, SMT
    <3>3. (n - 1) + 1 = n
      BY <2>1, SMT
    <3>4. more = [i \in 1..(n - 1) |-> 128 + ((value \div Above[n - i]) % 64)]
      BY <3>2, Zenon DEF HighBits
    <3>5. first = Lead[n] + (value \div Above[n])
      BY <3>3, Zenon DEF HighBits
    <3> HIDE DEF first, more
    <3> QED  BY <3>1, <3>4, <3>5, Zenon DEF Utf8
  <2> HIDE DEF n, first
  <2>5. more \in Seq(Byte) /\ Len(more) = n - 1 /\ \A i \in 1..(n - 1) : more[i] = 128 + (HighBits(value, n - 1 - i) % 64)
    <3>1. \A i \in 1..(n - 1) : more[i] \in Byte
      BY <2>3, SMT DEF Byte
    <3> QED  BY <2>1, <3>1, SMT
  <2> HIDE DEF more
  <2>6. /\ Utf8(value) \in Seq(Byte) /\ Len(Utf8(value)) = n /\ Utf8(value)[1] = first
        /\ \A i \in 1..(n - 1) : Utf8(value)[i + 1] = more[i]
    BY <2>1, <2>2, <2>4, <2>5, SMT
  <2>7. \A i \in 1..(n - 1) : Utf8(value)[i + 1] % 64 = HighBits(value, n - 1 - i) % 64
    <3> SUFFICES ASSUME NEW i \in 1..(n - 1)
                 PROVE  Utf8(value)[i + 1] % 64 = HighBits(value, n - 1 - i) % 64
      OBVIOUS
    <3> DEFINE h == HighBits(value, n - 1 - i)
    <3>1. h \in Nat /\ Utf8(value)[i + 1] = 128 + (h % 64)
      BY <2>3, <2>5, <2>6
    <3> HIDE DEF h
    <3>2. (128 + (h % 64)) % 64 = h % 64
      BY <3>1, SMT
    <3> QED  BY <3>1, <3>2 DEF h
  <2> QED  BY <1>0, <1>2, <2>6, <2>7, SMT DEF n, first
<1> QED  BY <1>0, <1>1, <1>2, SMT

-----------------------------------------------------------------------------
(* A place of a body, cut or not, where bytes were written: those of them  *)
(* that are there, and whether they all are.                               *)
Agrees(bytes, at, written) ==
  \A i \in 1..Len(written) : at + i - 1 <= Len(bytes) => bytes[at + i - 1] = written[i]
Whole(bytes, at, written) == at + Len(written) - 1 <= Len(bytes)

(* Two things written one after the other, each at its own place.          *)
LEMMA AgreesParts ==
  ASSUME NEW bytes, Len(bytes) \in Nat, NEW at \in Nat \ {0},
         NEW S, NEW s \in Seq(S), NEW t \in Seq(S), Agrees(bytes, at, s \o t)
  PROVE  /\ s \o t \in Seq(S) /\ Len(s \o t) = Len(s) + Len(t)
         /\ Agrees(bytes, at, s) /\ Agrees(bytes, at + Len(s), t)
         /\ Whole(bytes, at, s \o t) <=> Whole(bytes, at + Len(s), t)
         /\ Whole(bytes, at, s \o t) => Whole(bytes, at, s)
<1> DEFINE m == Len(s)
           n == Len(t)
           st == s \o t
<1>1. m \in Nat /\ n \in Nat /\ st \in Seq(S) /\ Len(st) = m + n
  OBVIOUS
<1>2. \A i \in 1..m : st[i] = s[i]
  OBVIOUS
<1>3. \A i \in 1..n : st[m + i] = t[i]
  OBVIOUS
<1>4. \A i \in 1..Len(st) : at + i - 1 <= Len(bytes) => bytes[at + i - 1] = st[i]
  BY DEF Agrees
<1> HIDE DEF m, n, st
<1>5. \A i \in 1..m : at + i - 1 <= Len(bytes) => bytes[at + i - 1] = s[i]
  <2>1. \A i \in 1..m : i \in 1..Len(st)
    BY <1>1
  <2> QED  BY <1>2, <1>4, <2>1
<1>6. \A i \in 1..n : at + m + i - 1 <= Len(bytes) => bytes[at + m + i - 1] = t[i]
  <2> SUFFICES ASSUME NEW i \in 1..n, at + m + i - 1 <= Len(bytes)
               PROVE  bytes[at + m + i - 1] = t[i]
    OBVIOUS
  <2>1. m + i \in 1..Len(st) /\ at + (m + i) - 1 = at + m + i - 1
    BY <1>1
  <2> QED  BY <1>3, <1>4, <2>1
<1>7. Agrees(bytes, at, s) /\ Agrees(bytes, at + Len(s), t)
  BY <1>5, <1>6 DEF Agrees, m, n
<1>8. /\ Whole(bytes, at, st) <=> Whole(bytes, at + Len(s), t)
      /\ Whole(bytes, at, st) => Whole(bytes, at, s)
  BY <1>1 DEF Whole, m, n
<1> QED  BY <1>1, <1>7, <1>8 DEF st, m, n

(* What decodeUtf8Number() subtracts is what was added to the lead.        *)
LEMMA LeadByte ==
  ASSUME NEW lead \in Nat, NEW after \in Nat, NEW h \in Nat, NEW b,
         lead >= 192, after <= 254, h < after - lead, b = lead + h
  PROVE  b \in Nat /\ lead <= b /\ b < after /\ ~(b < 128) /\ b # 255 /\ b - lead = h
  BY SMT

(* The lead byte says how many bytes there are.                            *)
LEMMA LeadSays ==
  ASSUME NEW n \in 2..6, NEW b \in Nat, Lead[n] <= b, b < Lead[n + 1]
  PROVE  (CHOOSE m \in 1..7 : Lead[m] <= b /\ b < Lead[m + 1]) = n
<1> DEFINE Says(m) == Lead[m] <= b /\ b < Lead[m + 1]
<1>1. /\ Lead[1] = 128 /\ Lead[2] = 192 /\ Lead[3] = 224 /\ Lead[4] = 240
      /\ Lead[5] = 248 /\ Lead[6] = 252 /\ Lead[7] = 254 /\ Lead[8] = 255
  BY SMT DEF Lead
<1>2. ASSUME NEW m \in 1..7, Says(m)
      PROVE  m = n
  BY <1>1, <1>2, SMT
<1>3. n \in 1..7 /\ Says(n)
  BY SMT
<1> HIDE DEF Says
<1>4. (CHOOSE m \in 1..7 : Says(m)) = n
  BY <1>2, <1>3
<1> QED  BY <1>4 DEF Says

(* A number reads back, and one that is cut is refused.                    *)
LEMMA Utf8ReadsBack ==
  ASSUME NEW bytes \in Seq(Byte), NEW at \in Nat \ {0}, NEW value \in Integer,
         Agrees(bytes, at, Utf8(value))
  PROVE  IF Whole(bytes, at, Utf8(value))
           THEN FromUtf8(bytes, at) = [next |-> at + Len(Utf8(value)), value |-> value]
           ELSE FromUtf8(bytes, at) = Failed
<1> DEFINE u == Utf8(value)
           n == Utf8Length(value)
<1>1. value \in Nat /\ Len(bytes) \in Nat
  BY SMT DEF Integer
<1>2. \A i \in 1..Len(u) : at + i - 1 <= Len(bytes) => bytes[at + i - 1] = u[i]
  BY DEF Agrees
<1>3. Whole(bytes, at, u) <=> at + Len(u) - 1 <= Len(bytes)
  BY DEF Whole
<1>4. CASE value < 128
  <2>1. Len(u) = 1 /\ u[1] = value
    BY <1>4, Utf8Bytes
  <2> HIDE DEF u
  <2>2. CASE at <= Len(bytes)
    <3>1. bytes[at] = value
      BY <1>1, <1>2, <2>1, <2>2
    <3>2. FromUtf8(bytes, at) = [next |-> at + 1, value |-> value]
      BY <1>1, <1>4, <2>2, <3>1, SMT DEF FromUtf8
    <3> QED  BY <1>1, <1>3, <2>1, <2>2, <3>2, SMT DEF u
  <2>3. CASE ~(at <= Len(bytes))
    <3>1. FromUtf8(bytes, at) = Failed
      BY <1>1, <2>3, SMT DEF FromUtf8
    <3> QED  BY <1>1, <1>3, <2>1, <2>3, <3>1, SMT DEF u
  <2> QED  BY <2>2, <2>3
<1>5. CASE value >= 128
  <2> DEFINE h == HighBits(value, n - 1)
  <2>1. /\ n \in 2..6 /\ Lead[n] \in Nat /\ Lead[n] >= 192 /\ h < Lead[n + 1] - Lead[n]
        /\ Lead[n + 1] \in Nat /\ Lead[n + 1] <= 254
    BY <1>5, Utf8LengthFits
  <2>2. /\ Len(u) = n /\ u[1] = Lead[n] + h
        /\ \A i \in 1..(n - 1) : u[i + 1] % 64 = HighBits(value, n - 1 - i) % 64
    BY <1>5, Utf8Bytes
  <2>3. \A k \in 0..5 : HighBits(value, k) \in Nat
    BY HighBitsStep
  <2> HIDE DEF n, u
  <2>4. h \in Nat
    <3>1. n - 1 \in 0..5
      BY <2>1, SMT
    <3> QED  BY <2>3, <3>1
  <2>5. CASE at > Len(bytes)
    <3>1. FromUtf8(bytes, at) = Failed
      BY <1>1, <2>5, SMT DEF FromUtf8
    <3> QED  BY <1>1, <1>3, <2>1, <2>2, <2>5, <3>1, SMT DEF u
  <2>6. CASE at <= Len(bytes)
    <3> DEFINE b == bytes[at]
    <3>1. b = Lead[n] + h
      <4>1. 1 \in 1..Len(u) /\ at + 1 - 1 = at
        BY <2>1, <2>2
      <4> QED  BY <1>2, <2>2, <2>6, <4>1
    <3> HIDE DEF b, h
    <3>2. b \in Nat /\ Lead[n] <= b /\ b < Lead[n + 1] /\ ~(b < 128) /\ b # 255 /\ b - Lead[n] = h
      <4> DEFINE lead == Lead[n]
                 after == Lead[n + 1]
      <4>1. lead \in Nat /\ after \in Nat /\ h \in Nat /\ lead >= 192 /\ after <= 254 /\ h < after - lead
        BY <2>1, <2>4
      <4>2. b = lead + h
        BY <3>1
      <4> HIDE DEF lead, after
      <4>3. b \in Nat /\ lead <= b /\ b < after /\ ~(b < 128) /\ b # 255 /\ b - lead = h
        BY <4>1, <4>2, LeadByte
      <4> QED  BY <4>3 DEF lead, after
    <3>3. (CHOOSE m \in 1..7 : Lead[m] <= b /\ b < Lead[m + 1]) = n
      BY <2>1, <3>2, LeadSays
    <3>4. ~(at > Len(bytes))
      BY <1>1, <2>6
    <3>5. FromUtf8(bytes, at)
            = IF at + n - 1 > Len(bytes) THEN Failed
              ELSE [next |-> at + n, value |-> Digits(64, h, SubSeq(bytes, at + 1, at + n - 1))]
      BY <3>2, <3>3, <3>4, Zenon DEF FromUtf8, b
    <3>6. CASE at + n - 1 > Len(bytes)
      <4>1. ~Whole(bytes, at, u)
        BY <1>1, <1>3, <2>1, <2>2, <3>6, SMT
      <4> QED  BY <3>5, <3>6, <4>1 DEF u
    <3>7. CASE ~(at + n - 1 > Len(bytes))
      <4> DEFINE digits == SubSeq(bytes, at + 1, at + n - 1)
                 high == [i \in 0..(n - 1) |-> HighBits(value, n - 1 - i)]
      <4>1. Len(digits) = n - 1 /\ \A i \in 1..(n - 1) : digits[i] = bytes[at + i]
        BY <1>1, <2>1, <3>7, SMT
      <4>2. \A i \in 1..(n - 1) : digits[i] % 64 = HighBits(value, n - 1 - i) % 64
        <5> SUFFICES ASSUME NEW i \in 1..(n - 1)
                     PROVE  digits[i] % 64 = HighBits(value, n - 1 - i) % 64
          OBVIOUS
        <5>1. i + 1 \in 1..Len(u) /\ at + (i + 1) - 1 = at + i /\ at + i <= Len(bytes)
          BY <1>1, <2>1, <2>2, <3>7, SMT
        <5>2. bytes[at + i] = u[i + 1]
          BY <1>2, <5>1
        <5> HIDE DEF digits
        <5> QED  BY <2>2, <4>1, <5>2
      <4> HIDE DEF digits
      <4>3. \A i \in 0..(n - 1) : high[i] = IF i = 0 THEN h ELSE (64 * high[i - 1]) + (digits[i] % 64)
        <5> SUFFICES ASSUME NEW i \in 0..(n - 1)
                     PROVE  high[i] = IF i = 0 THEN h ELSE (64 * high[i - 1]) + (digits[i] % 64)
          OBVIOUS
        <5>1. CASE i = 0
          BY <2>1, <5>1, SMT DEF h
        <5>2. CASE i # 0
          <6>1. /\ i \in 1..(n - 1) /\ i - 1 \in 0..(n - 1) /\ n - 1 - i \in 0..4
                /\ n - 1 - (i - 1) = (n - 1 - i) + 1
            BY <2>1, <5>2, SMT
          <6>2. HighBits(value, n - 1 - i) = (64 * HighBits(value, (n - 1 - i) + 1)) + (HighBits(value, n - 1 - i) % 64)
            BY <6>1, HighBitsStep
          <6>3. high[i] = HighBits(value, n - 1 - i) /\ high[i - 1] = HighBits(value, (n - 1 - i) + 1)
            BY <6>1
          <6> HIDE DEF high
          <6> QED  BY <4>2, <5>2, <6>1, <6>2, <6>3
        <5> QED  BY <5>1, <5>2
      <4>4. high = [i \in 0..(n - 1) |-> high[i]]
        OBVIOUS
      <4>5. high[n - 1] = value
        <5>1. n - 1 \in 0..(n - 1) /\ n - 1 - (n - 1) = 0
          BY <2>1, SMT
        <5>2. HighBits(value, 0) = value
          BY HighBitsStep
        <5> QED  BY <5>1, <5>2
      <4> HIDE DEF high
      <4>6. Accumulates(high, 64, h, digits)
        <5>1. /\ high = [i \in 0..Len(digits) |-> high[i]]
              /\ \A i \in 0..Len(digits) : high[i] = IF i = 0 THEN h ELSE (64 * high[i - 1]) + (digits[i] % 64)
          BY <4>1, <4>3, <4>4, Zenon
        <5> QED  BY <5>1, AccumulatesIf
      <4>7. Digits(64, h, digits) = value
        <5>1. Len(digits) \in Nat
          BY <2>1, <4>1, SMT
        <5> QED  BY <4>1, <4>5, <4>6, <5>1, DigitsAre
      <4>8. Whole(bytes, at, u)
        BY <1>1, <1>3, <2>1, <2>2, <3>7, SMT
      <4>9. FromUtf8(bytes, at) = [next |-> at + Len(u), value |-> value]
        BY <2>2, <3>5, <3>7, <4>7 DEF digits
      <4> QED  BY <4>8, <4>9 DEF u
    <3> QED  BY <3>6, <3>7
  <2> QED  BY <1>1, <2>5, <2>6, SMT
<1> QED  BY <1>1, <1>4, <1>5, SMT

(* What decodeUint() and decodeCount() return, from any bytes: a throw, or *)
(* a number and a later place; and where the bytes end too early.          *)
IsRead(read, at) == read = Failed \/ (read.next \in Nat /\ read.next > at /\ read.value \in Nat)
RunsOut(read, bytes) ==
  read = Failed \/ (read.next \in Nat /\ read.next > Len(bytes) + 1 /\ read.value \in Nat)

(* A part of bytes is bytes.                                               *)
LEMMA SubarrayType ==
  ASSUME NEW S, NEW bytes \in Seq(S), NEW from \in Nat \ {0}, NEW to \in Int
  PROVE  Subarray(bytes, from, to) \in Seq(S)
<1> DEFINE end == IF to > Len(bytes) THEN Len(bytes) ELSE to
<1>1. Subarray(bytes, from, to) = SubSeq(bytes, from, end)
  BY DEF Subarray
<1>2. end \in Int /\ end <= Len(bytes) /\ Len(bytes) \in Nat
  OBVIOUS
<1> HIDE DEF end
<1>3. CASE from <= end
  <2>1. \A i \in from..end : bytes[i] \in S
    BY <1>2
  <2> QED  BY <1>1, <1>2, <1>3, <2>1, SMT
<1>4. CASE ~(from <= end)
  <2>1. SubSeq(bytes, from, end) = <<>>
    BY <1>2, <1>4, SMT
  <2> QED  BY <1>1, <2>1, EmptySeq
<1> QED  BY <1>3, <1>4

(* A range where something was written, and is whole, is that.             *)
LEMMA SubarrayIs ==
  ASSUME NEW S, NEW bytes \in Seq(S), NEW at \in Nat \ {0}, NEW s \in Seq(S),
         Agrees(bytes, at, s), Whole(bytes, at, s)
  PROVE  Subarray(bytes, at, at + Len(s) - 1) = s
<1> DEFINE n == Len(s)
           t == SubSeq(bytes, at, at + n - 1)
<1>1. n \in Nat /\ Len(bytes) \in Nat /\ at + n - 1 <= Len(bytes)
  BY DEF Whole
<1>2. Subarray(bytes, at, at + n - 1) = t
  <2>1. ~(at + n - 1 > Len(bytes))
    BY <1>1
  <2> QED  BY <2>1 DEF Subarray
<1>3. t \in Seq(S) /\ Len(t) = n /\ \A i \in 1..n : t[i] = bytes[at + i - 1]
  BY <1>1, SMT
<1>4. \A i \in 1..n : t[i] = s[i]
  <2> SUFFICES ASSUME NEW i \in 1..n PROVE bytes[at + i - 1] = s[i]
    BY <1>3
  <2>1. at + i - 1 <= Len(bytes)
    BY <1>1
  <2> QED  BY <2>1 DEF Agrees
<1> HIDE DEF t
<1>5. t = s
  BY <1>3, <1>4, SMT
<1> QED  BY <1>2, <1>5

(* Any bytes are a number.                                                 *)
LEMMA BigEndianValue ==
  ASSUME NEW data \in Seq(Byte)
  PROVE  FromBigEndian(data) \in Nat
<1>1. data \in Seq(Nat)
  BY DEF Byte
<1> QED  BY <1>1, DigitsType DEF FromBigEndian

(* From any bytes utf8DecodeNumber() throws or reads a number.             *)
LEMMA Utf8ReadType ==
  ASSUME NEW bytes \in Seq(Byte), NEW at \in Nat \ {0}
  PROVE  IsRead(FromUtf8(bytes, at), at)
<1>0. Len(bytes) \in Nat /\ \A i \in 1..Len(bytes) : bytes[i] \in Nat /\ bytes[i] < 256
  BY SMT DEF Byte
<1>1. CASE at > Len(bytes)
  BY <1>1 DEF FromUtf8, IsRead
<1>2. CASE at <= Len(bytes) /\ bytes[at] < 128
  <2>1. FromUtf8(bytes, at) = [next |-> at + 1, value |-> bytes[at]]
    BY <1>0, <1>2, SMT DEF FromUtf8
  <2>2. bytes[at] \in Nat
    BY <1>0, <1>2
  <2> QED  BY <2>1, <2>2, SMT DEF IsRead
<1>3. CASE at <= Len(bytes) /\ bytes[at] = 255
  <2>1. CASE at + 1 > Len(bytes)
    <3>1. FromUtf8(bytes, at) = Failed
      BY <1>0, <1>3, <2>1, SMT DEF FromUtf8
    <3> QED  BY <3>1 DEF IsRead
  <2>2. CASE ~(at + 1 > Len(bytes))
    <3> DEFINE n == bytes[at + 1]
               v == FromBigEndian(Subarray(bytes, at + 2, at + 1 + n))
    <3>1. FromUtf8(bytes, at) = [next |-> at + 2 + n, value |-> v]
      BY <1>0, <1>3, <2>2, SMT DEF FromUtf8
    <3>2. n \in Nat
      BY <1>0, <2>2
    <3>3. v \in Nat
      <4>1. at + 2 \in Nat \ {0} /\ at + 1 + n \in Int
        BY <3>2
      <4> QED  BY <4>1, SubarrayType, BigEndianValue
    <3> HIDE DEF n, v
    <3> QED  BY <3>1, <3>2, <3>3, SMT DEF IsRead
  <2> QED  BY <2>1, <2>2
<1>4. CASE at <= Len(bytes) /\ ~(bytes[at] < 128) /\ bytes[at] # 255
  <2> DEFINE b == bytes[at]
             Says(m) == Lead[m] <= b /\ b < Lead[m + 1]
             n == CHOOSE m \in 1..7 : Says(m)
  <2>0. b \in Nat /\ b < 256 /\ ~(b < 128) /\ b # 255
    BY <1>0, <1>4
  <2>1. \E m \in 1..7 : Says(m)
    <3> HIDE DEF b
    <3>1. /\ Lead[1] = 128 /\ Lead[2] = 192 /\ Lead[3] = 224 /\ Lead[4] = 240
          /\ Lead[5] = 248 /\ Lead[6] = 252 /\ Lead[7] = 254 /\ Lead[8] = 255
      BY SMT DEF Lead
    <3>2. b < 192 => Says(1)
      BY <2>0, <3>1, SMT
    <3>3. b >= 192 /\ b < 224 => Says(2)
      BY <2>0, <3>1, SMT
    <3>4. b >= 224 /\ b < 240 => Says(3)
      BY <2>0, <3>1, SMT
    <3>5. b >= 240 /\ b < 248 => Says(4)
      BY <2>0, <3>1, SMT
    <3>6. b >= 248 /\ b < 252 => Says(5)
      BY <2>0, <3>1, SMT
    <3>7. b >= 252 /\ b < 254 => Says(6)
      BY <2>0, <3>1, SMT
    <3>8. b >= 254 => Says(7)
      BY <2>0, <3>1, SMT
    <3> HIDE DEF Says
    <3> QED  BY <2>0, <3>2, <3>3, <3>4, <3>5, <3>6, <3>7, <3>8, SMT
  <2>2. n \in 1..7 /\ Says(n)
    <3> HIDE DEF Says
    <3> QED  BY <2>1
  <2>3. FromUtf8(bytes, at)
          = IF at + n - 1 > Len(bytes) THEN Failed
            ELSE [next |-> at + n, value |-> Digits(64, b - Lead[n], SubSeq(bytes, at + 1, at + n - 1))]
    <3>1. ~(at > Len(bytes))
      BY <1>0, <1>4
    <3> QED  BY <1>4, <3>1, Zenon DEF FromUtf8
  <2>4. b - Lead[n] \in Nat
    <3>1. \A m \in 1..7 : Lead[m] \in Nat
      BY SMT DEF Lead
    <3> DEFINE lead == Lead[n]
    <3>2. lead \in Nat /\ lead <= b
      BY <2>2, <3>1
    <3> HIDE DEF lead, b
    <3>3. b - lead \in Nat
      BY <2>0, <3>2
    <3> QED  BY <3>3 DEF lead
  <2> HIDE DEF n, b
  <2>5. CASE at + n - 1 > Len(bytes)
    BY <2>3, <2>5 DEF IsRead
  <2>6. CASE ~(at + n - 1 > Len(bytes))
    <3>1. SubSeq(bytes, at + 1, at + n - 1) \in Seq(Nat)
      <4>1. at + 1 \in Nat \ {0} /\ at + n - 1 \in Int /\ bytes \in Seq(Nat)
        BY <2>2, SMT DEF Byte
      <4>2. Subarray(bytes, at + 1, at + n - 1) = SubSeq(bytes, at + 1, at + n - 1)
        BY <2>6, Zenon DEF Subarray
      <4>3. Subarray(bytes, at + 1, at + n - 1) \in Seq(Nat)
        BY <4>1, SubarrayType
      <4> QED  BY <4>2, <4>3
    <3> DEFINE v == Digits(64, b - Lead[n], SubSeq(bytes, at + 1, at + n - 1))
    <3>2. v \in Nat
      <4>1. 64 \in Nat \ {0}
        OBVIOUS
      <4> QED  BY <2>4, <3>1, <4>1, DigitsType
    <3>3. FromUtf8(bytes, at) = [next |-> at + n, value |-> v]
      BY <2>3, <2>6
    <3> HIDE DEF v
    <3> QED  BY <2>2, <3>2, <3>3, SMT DEF IsRead
  <2> QED  BY <2>5, <2>6
<1> QED  BY <1>0, <1>1, <1>2, <1>3, <1>4, SMT

(* So does decodeUint(),                                                   *)
LEMMA UintReadType ==
  ASSUME NEW bytes \in Seq(Byte), NEW at \in Nat \ {0}, NEW width \in Nat \ {0}, NEW c
  PROVE  IsRead(FromUint(bytes, at, width, c), at)
<1>1. CASE c.utf8Numbers
  BY <1>1, Utf8ReadType, Zenon DEF FromUint
<1>2. CASE ~c.utf8Numbers
  <2> DEFINE v == FromBigEndian(Subarray(bytes, at, at + width - 1))
  <2>1. v \in Nat
    <3>1. at + width - 1 \in Int
      OBVIOUS
    <3> QED  BY <3>1, SubarrayType, BigEndianValue
  <2>2. FromUint(bytes, at, width, c) = [next |-> at + width, value |-> v]
    BY <1>2, Zenon DEF FromUint
  <2> HIDE DEF v
  <2> QED  BY <2>1, <2>2, SMT DEF IsRead
<1> QED  BY <1>1, <1>2

(* What encodeUint() writes of a value its width can hold: some bytes.     *)
LEMMA UintType ==
  ASSUME NEW width, NEW value, Holds(width, value), NEW c
  PROVE  /\ Uint(value, width, c) \in Seq(Byte)
         /\ Len(Uint(value, width, c)) \in Nat \ {0}
<1>1. value \in Integer /\ value \in Nat /\ width \in Nat \ {0}
  BY SMT DEF Holds, Integer
<1>2. CASE c.utf8Numbers
  <2>1. Uint(value, width, c) = Utf8(value)
    BY <1>2 DEF Uint
  <2>2. Utf8(value) \in Seq(Byte)
    BY <1>1, Utf8Bytes
  <2>3. Len(Utf8(value)) \in Nat \ {0}
    <3>1. CASE value < 128
      BY <1>1, <3>1, Utf8Bytes
    <3>2. CASE value >= 128
      <4>1. Utf8Length(value) \in 2..6
        BY <1>1, <3>2, Utf8LengthFits
      <4>2. Len(Utf8(value)) = Utf8Length(value)
        BY <1>1, <3>2, Utf8Bytes
      <4> QED  BY <4>1, <4>2, SMT
    <3> QED  BY <1>1, <3>1, <3>2, SMT
  <2> QED  BY <2>1, <2>2, <2>3
<1>3. CASE ~c.utf8Numbers
  <2>1. Uint(value, width, c) = BigEndian(value, width)
    BY <1>3 DEF Uint
  <2> QED  BY <1>1, <2>1, BigEndianType
<1> QED  BY <1>2, <1>3

(* A number reads back, and one that is cut is refused or runs out.        *)
THEOREM UintReadsBack ==
  ASSUME NEW bytes \in Seq(Byte), NEW at \in Nat \ {0},
         NEW width, NEW value, Holds(width, value), NEW c,
         Agrees(bytes, at, Uint(value, width, c))
  PROVE  IF Whole(bytes, at, Uint(value, width, c))
           THEN FromUint(bytes, at, width, c) = [next |-> at + Len(Uint(value, width, c)), value |-> value]
           ELSE RunsOut(FromUint(bytes, at, width, c), bytes)
<1>1. value \in Integer /\ value \in Nat /\ width \in Nat \ {0}
  BY SMT DEF Holds, Integer
<1>2. CASE c.utf8Numbers
  <2>1. Uint(value, width, c) = Utf8(value) /\ FromUint(bytes, at, width, c) = FromUtf8(bytes, at)
    BY <1>2, Zenon DEF Uint, FromUint
  <2> QED  BY <1>1, <2>1, Utf8ReadsBack, Zenon DEF RunsOut
<1>3. CASE ~c.utf8Numbers
  <2> DEFINE u == BigEndian(value, width)
             read == FromUint(bytes, at, width, c)
  <2>1. Uint(value, width, c) = u
    BY <1>3 DEF Uint
  <2>2. u \in Seq(Byte) /\ Len(u) = width
    BY <1>1, BigEndianType
  <2>3. read = [next |-> at + width, value |-> FromBigEndian(Subarray(bytes, at, at + width - 1))]
    BY <1>3, Zenon DEF FromUint
  <2>4. FromBigEndian(u) = value
    BY BigEndianReadsBack
  <2>5. IsRead(read, at)
    BY <1>1, UintReadType
  <2>6. Agrees(bytes, at, u)
    BY <2>1
  <2> HIDE DEF u, read
  <2>7. CASE Whole(bytes, at, u)
    <3>1. Subarray(bytes, at, at + width - 1) = u
      BY <2>2, <2>6, <2>7, SubarrayIs
    <3> QED  BY <2>1, <2>2, <2>3, <2>4, <2>7, <3>1 DEF read
  <2>8. CASE ~Whole(bytes, at, u)
    <3>1. Len(bytes) \in Nat /\ ~(at + width - 1 <= Len(bytes))
      BY <2>2, <2>8 DEF Whole
    <3>2. read.next = at + width /\ read # Failed
      BY <1>1, <2>3, SMT DEF Failed
    <3>3. RunsOut(read, bytes)
      BY <1>1, <2>5, <3>1, <3>2, SMT DEF RunsOut, IsRead
    <3> QED  BY <2>1, <2>8, <3>3 DEF read
  <2> QED  BY <2>7, <2>8
<1> QED  BY <1>2, <1>3

(* A count that may be written. *)
Countable(n, c) == n \in Integer /\ (n < Sentinel \/ c.largeTagCount)

(* The widths that encodeCount() uses hold what it writes in them.         *)
LEMMA CountWidths ==
  ASSUME NEW n, NEW c, Countable(n, c)
  PROVE  Holds(2, Sentinel) /\ Holds(4, n) /\ (n < Sentinel => Holds(2, n))
<1>1. Sentinel \in Nat /\ Sentinel < 65536
  BY CodecAssumption, SMT
<1>2. n \in Nat /\ n <= 2147483647
  BY SMT DEF Countable, Integer
<1> QED  BY <1>1, <1>2, SMT DEF Holds, Integer

(* What encodeCount() writes: some bytes.                                  *)
LEMMA CountType ==
  ASSUME NEW n, NEW c, Countable(n, c)
  PROVE  CountOfTags(n, c) \in Seq(Byte) /\ Len(CountOfTags(n, c)) \in Nat \ {0}
<1>1. CASE n < Sentinel
  <2>1. CountOfTags(n, c) = Uint(n, 2, c) /\ Holds(2, n)
    BY <1>1, CountWidths, Zenon DEF CountOfTags
  <2> QED  BY <2>1, UintType
<1>2. CASE ~(n < Sentinel)
  <2> DEFINE s == Uint(Sentinel, 2, c)
             t == Uint(n, 4, c)
  <2>1. CountOfTags(n, c) = s \o t
    BY <1>2, Zenon DEF CountOfTags
  <2>2. s \in Seq(Byte) /\ t \in Seq(Byte) /\ Len(s) \in Nat \ {0} /\ Len(t) \in Nat \ {0}
    BY CountWidths, UintType
  <2> HIDE DEF s, t
  <2> QED  BY <2>1, <2>2, SMT
<1> QED  BY <1>1, <1>2

(* and decodeCount().                                                      *)
LEMMA CountReadType ==
  ASSUME NEW bytes \in Seq(Byte), NEW at \in Nat \ {0}, NEW c
  PROVE  IsRead(FromCount(bytes, at, c), at)
<1> DEFINE short == FromUint(bytes, at, 2, c)
<1>1. IsRead(short, at)
  BY UintReadType
<1>2. CASE short # Failed /\ c.largeTagCount /\ short.value = Sentinel
  <2> DEFINE long == FromUint(bytes, short.next, 4, c)
  <2>1. FromCount(bytes, at, c) = long
    BY <1>2, Zenon DEF FromCount
  <2> HIDE DEF short
  <2>2. short.next \in Nat \ {0} /\ short.next > at
    BY <1>1, <1>2, SMT DEF IsRead
  <2>3. IsRead(long, short.next)
    BY <2>2, UintReadType
  <2> HIDE DEF long
  <2> QED  BY <2>1, <2>2, <2>3, SMT DEF IsRead
<1>3. CASE ~(short # Failed /\ c.largeTagCount /\ short.value = Sentinel)
  <2>1. FromCount(bytes, at, c) = short
    BY <1>3, Zenon DEF FromCount
  <2> QED  BY <1>1, <2>1
<1> QED  BY <1>2, <1>3

(* A count reads back, or what there is of it runs out.                    *)
LEMMA CountReadsBack ==
  ASSUME NEW bytes \in Seq(Byte), NEW at \in Nat \ {0}, NEW n, NEW c, Countable(n, c),
         Agrees(bytes, at, CountOfTags(n, c))
  PROVE  IF Whole(bytes, at, CountOfTags(n, c))
           THEN FromCount(bytes, at, c) = [next |-> at + Len(CountOfTags(n, c)), value |-> n]
           ELSE RunsOut(FromCount(bytes, at, c), bytes)
<1> DEFINE short == FromUint(bytes, at, 2, c)
           extended == short # Failed /\ c.largeTagCount /\ short.value = Sentinel
           long == FromUint(bytes, short.next, 4, c)
<1>1. FromCount(bytes, at, c) = IF extended THEN long ELSE short
  BY Zenon DEF FromCount
<1>2. Len(bytes) \in Nat /\ n \in Nat /\ Sentinel \in Nat
  <2>1. n \in Nat
    BY SMT DEF Countable, Integer
  <2>2. Sentinel \in Nat
    BY CodecAssumption, SMT
  <2> QED  BY <2>1, <2>2, LenProperties
<1>3. IsRead(short, at)
  BY UintReadType
<1>4. extended => IsRead(long, short.next)
  <2>1. extended => short.next \in Nat \ {0}
    BY <1>3, SMT DEF IsRead
  <2> QED  BY <2>1, UintReadType
<1>5. RunsOut(short, bytes) => RunsOut(FromCount(bytes, at, c), bytes)
  <2> SUFFICES ASSUME RunsOut(short, bytes) PROVE RunsOut(FromCount(bytes, at, c), bytes)
    OBVIOUS
  <2>1. CASE ~extended
    BY <1>1, <2>1
  <2>2. CASE extended
    <3>1. FromCount(bytes, at, c) = long
      BY <1>1, <2>2
    <3>2. IsRead(long, short.next) /\ short # Failed
      BY <1>4, <2>2
    <3> HIDE DEF short, long
    <3> QED  BY <1>2, <3>1, <3>2, SMT DEF IsRead, RunsOut
  <2> QED  BY <2>1, <2>2
<1>6. CASE n < Sentinel
  <2>1. CountOfTags(n, c) = Uint(n, 2, c) /\ Holds(2, n)
    BY <1>6, CountWidths, Zenon DEF CountOfTags
  <2>2. IF Whole(bytes, at, Uint(n, 2, c))
          THEN short = [next |-> at + Len(Uint(n, 2, c)), value |-> n]
          ELSE RunsOut(short, bytes)
    BY <2>1, UintReadsBack
  <2> HIDE DEF short
  <2>3. CASE Whole(bytes, at, Uint(n, 2, c))
    <3>1. short.value = n
      BY <2>2, <2>3
    <3>2. ~extended
      BY <1>2, <1>6, <3>1, SMT
    <3> QED  BY <1>1, <2>1, <2>2, <2>3, <3>2
  <2> QED  BY <1>5, <2>1, <2>2, <2>3
<1>7. CASE ~(n < Sentinel)
  <2> DEFINE s == Uint(Sentinel, 2, c)
             t == Uint(n, 4, c)
  <2>1. CountOfTags(n, c) = s \o t /\ c.largeTagCount
    BY <1>7, Zenon DEF CountOfTags, Countable
  <2>2. s \in Seq(Byte) /\ t \in Seq(Byte) /\ Len(s) \in Nat \ {0} /\ Len(t) \in Nat \ {0}
    BY CountWidths, UintType
  <2>3. Agrees(bytes, at, s \o t)
    BY <2>1
  <2> HIDE DEF s, t
  <2>4. /\ Agrees(bytes, at, s) /\ Agrees(bytes, at + Len(s), t) /\ Len(s \o t) = Len(s) + Len(t)
        /\ Whole(bytes, at, s \o t) <=> Whole(bytes, at + Len(s), t)
        /\ Whole(bytes, at, s \o t) => Whole(bytes, at, s)
    BY <1>2, <2>2, <2>3, AgreesParts
  <2>5. IF Whole(bytes, at, s) THEN short = [next |-> at + Len(s), value |-> Sentinel]
        ELSE RunsOut(short, bytes)
    BY <2>4, CountWidths, UintReadsBack DEF s
  <2>6. CASE Whole(bytes, at, s)
    <3> DEFINE place == at + Len(s)
    <3>1. place \in Nat \ {0}
      BY <2>2, SMT
    <3>2. short.next = place /\ short.value = Sentinel
      BY <2>5, <2>6
    <3>3. extended
      <4>1. short # Failed
        <5> HIDE DEF short, place
        <5> QED  BY <3>1, <3>2, SMT DEF Failed
      <4> QED  BY <2>1, <3>2, <4>1
    <3>4. FromCount(bytes, at, c) = FromUint(bytes, place, 4, c)
      BY <1>1, <3>2, <3>3
    <3>5. IF Whole(bytes, place, t)
            THEN FromUint(bytes, place, 4, c) = [next |-> place + Len(t), value |-> n]
            ELSE RunsOut(FromUint(bytes, place, 4, c), bytes)
      BY <2>4, <3>1, CountWidths, UintReadsBack DEF t
    <3>6. place + Len(t) = at + Len(s \o t)
      BY <2>2, <2>4, SMT
    <3> QED  BY <2>1, <2>4, <3>4, <3>5, <3>6
  <2>7. CASE ~Whole(bytes, at, s)
    BY <1>5, <2>1, <2>4, <2>5, <2>7
  <2> QED  BY <2>6, <2>7
<1> QED  BY <1>6, <1>7

-----------------------------------------------------------------------------
(* The reader.  Where the fields of a tag leave it.                        *)
IsHeader(head, at) ==
  head = Failed \/ (head.next \in Nat \ {0} /\ head.next > at /\ head.n \in Nat /\ head.length \in Nat)

(* From any bytes readTag() leaves the fields at a later place.            *)
LEMMA HeaderType ==
  ASSUME NEW bytes \in Seq(Byte), NEW place \in Place, NEW limits, NEW c
  PROVE  IsHeader(Header(bytes, place, limits, c), place.at)
<1> DEFINE name == FromUint(bytes, place.at, 2, c)
           length == FromUint(bytes, name.next + 1, 4, c)
           n == IF name.value % 2 = 1 THEN FromCount(bytes, length.next, c)
                ELSE [next |-> length.next, value |-> 0]
           head == Header(bytes, place, limits, c)
<1>1. place.at \in Nat \ {0}
  BY DEF Place
<1>2. IsRead(name, place.at)
  BY <1>1, UintReadType
<1>3. CASE head = Failed
  BY <1>3 DEF IsHeader
<1>4. CASE head # Failed
  <2>1. /\ name # Failed /\ length # Failed /\ n # Failed
        /\ head = [next |-> n.next, n |-> n.value, name |-> name.value \div 2,
                   code |-> bytes[name.next], length |-> length.value]
    BY <1>4, Zenon DEF Header
  <2> HIDE DEF head
  <2>2. name.next \in Nat /\ name.next + 1 \in Nat \ {0} /\ name.next > place.at
    BY <1>2, <2>1, SMT DEF IsRead
  <2>3. IsRead(length, name.next + 1)
    BY <2>2, UintReadType
  <2> HIDE DEF name
  <2>4. length.next \in Nat \ {0} /\ length.next > place.at /\ length.value \in Nat
    BY <1>1, <2>1, <2>2, <2>3, SMT DEF IsRead
  <2>5. n.next \in Nat \ {0} /\ n.next > place.at /\ n.value \in Nat
    <3>1. CASE name.value % 2 = 1
      <4>1. IsRead(n, length.next)
        BY <2>4, <3>1, CountReadType
      <4> HIDE DEF n, length
      <4> QED  BY <1>1, <2>1, <2>4, <4>1, SMT DEF IsRead
    <3>2. CASE name.value % 2 # 1
      <4>1. n = [next |-> length.next, value |-> 0]
        BY <3>2
      <4> HIDE DEF n, length
      <4> QED  BY <2>4, <4>1
    <3> QED  BY <3>1, <3>2
  <2> HIDE DEF n, length
  <2>6. IsHeader(head, place.at)
    BY <2>1, <2>4, <2>5 DEF IsHeader
  <2> QED  BY <2>6 DEF head
<1> QED  BY <1>3, <1>4

(* Own data ends where the length says. *)
LEMMA OwnValueEnds ==
  ASSUME NEW bytes, Len(bytes) \in Nat, NEW at \in Nat \ {0}, NEW length \in Int, NEW code, NEW c,
         OwnValue(bytes, at, length, code, c) # Failed
  PROVE  /\ OwnValue(bytes, at, length, code, c).next = at + length
         /\ length >= 0 /\ at + length \in Nat \ {0}
<1> DEFINE type == CHOOSE t \in IntegerType \union DataType : TypeCode(t) = code
           read == Value(type, Subarray(bytes, at, at + length - 1), c)
           own == OwnValue(bytes, at, length, code, c)
<1>1. ~(length < 0) /\ own = [next |-> at + length, type |-> type, value |-> read.value]
  BY Zenon DEF OwnValue
<1> HIDE DEF type, read, own
<1>2. own.next = at + length
  BY <1>1
<1>3. length >= 0 /\ at + length \in Nat \ {0}
  BY <1>1
<1> QED  BY <1>2, <1>3 DEF own

(* What the reader returns: a throw, or a place that is not an earlier one.*)
IsResult(result, at) ==
  result = Failed \/ (result.next \in Nat \ {0} /\ result.next >= at /\ result.count \in Nat)

(* Reading from a place only needs what is read from the later ones.       *)
LEMMA ReadingGoesOn ==
  ASSUME NEW bytes \in Seq(Byte), NEW limits, NEW c, NEW place \in Place, NEW g, NEW h,
         \A q \in Place : q.at > place.at => g[q] = h[q] /\ IsResult(g[q], q.at)
  PROVE  /\ Reading(g, bytes, place, limits, c) = Reading(h, bytes, place, limits, c)
         /\ IsResult(Reading(g, bytes, place, limits, c), place.at)
<1>0. place.at \in Nat \ {0} /\ place.n \in Nat /\ place.depth \in Nat /\ place.count \in Nat
  BY DEF Place
<1>1. CASE place.n = 0
  <2>1. \A f : Reading(f, bytes, place, limits, c) = [next |-> place.at, count |-> place.count, tags |-> <<>>]
    BY <1>1, Zenon DEF Reading, TagRead, OwnOf
  <2>2. Reading(g, bytes, place, limits, c) = [next |-> place.at, count |-> place.count, tags |-> <<>>]
    BY <2>1
  <2>3. IsResult(Reading(g, bytes, place, limits, c), place.at)
    BY <1>0, <2>2 DEF IsResult
  <2> QED  BY <2>1, <2>3
<1>2. CASE place.n # 0
  <2> DEFINE head == Header(bytes, place, limits, c)
             Own(i) == OwnValue(bytes, i.next, head.length - (i.next - head.next), head.code, c)
             Tag(i) == [name |-> head.name, children |-> i.tags, type |-> Own(i).type, value |-> Own(i).value]
             Rest(f, i) == f[After(place, Own(i), i)]
             Result(i, o) == [next |-> o.next, count |-> o.count, tags |-> <<Tag(i)>> \o o.tags]
             inner == g[Inside(place, head)]
  <2>1. \A f : Reading(f, bytes, place, limits, c)
                 = IF head = Failed THEN Failed
                   ELSE IF f[Inside(place, head)] = Failed THEN Failed
                   ELSE IF Own(f[Inside(place, head)]) = Failed THEN Failed
                   ELSE IF Rest(f, f[Inside(place, head)]) = Failed THEN Failed
                   ELSE Result(f[Inside(place, head)], Rest(f, f[Inside(place, head)]))
    BY <1>2, Zenon DEF Reading, TagRead, OwnOf
  <2>2. IsHeader(head, place.at)
    BY HeaderType
  <2>3. CASE head = Failed
    BY <2>1, <2>3 DEF IsResult
  <2>4. CASE head # Failed
    <3> HIDE DEF head
    <3>1. /\ head.next \in Nat \ {0} /\ head.next > place.at /\ head.n \in Nat /\ head.length \in Nat
      BY <2>2, <2>4 DEF IsHeader
    <3>2. Inside(place, head) \in Place /\ Inside(place, head).at > place.at
      BY <1>0, <3>1 DEF Inside, Place
    <3>3. g[Inside(place, head)] = h[Inside(place, head)] /\ IsResult(inner, head.next)
      <4>1. Inside(place, head).at = head.next
        BY DEF Inside
      <4> QED  BY <3>2, <4>1
    <3>4. CASE inner = Failed
      BY <2>1, <2>4, <3>3, <3>4 DEF IsResult
    <3>5. CASE inner # Failed
      <4>1. h[Inside(place, head)] = inner
        BY <3>3
      <4> HIDE DEF inner
      <4>2. inner.next \in Nat \ {0} /\ inner.next >= head.next /\ inner.count \in Nat
        BY <3>3, <3>5 DEF IsResult
      <4>3. CASE Own(inner) = Failed
        BY <2>1, <2>4, <3>3, <3>5, <4>1, <4>3 DEF IsResult, inner
      <4>4. CASE Own(inner) # Failed
        <5> DEFINE own == Own(inner)
                   o == g[After(place, own, inner)]
        <5>1. own.next \in Nat \ {0} /\ own.next >= inner.next
          <6>1. Len(bytes) \in Nat /\ head.length - (inner.next - head.next) \in Int
            BY <3>1, <4>2
          <6>2. /\ own.next = inner.next + (head.length - (inner.next - head.next))
                /\ head.length - (inner.next - head.next) >= 0
                /\ inner.next + (head.length - (inner.next - head.next)) \in Nat \ {0}
            BY <4>2, <4>4, <6>1, OwnValueEnds
          <6> HIDE DEF own
          <6> QED  BY <3>1, <4>2, <6>2, SMT
        <5> HIDE DEF Own
        <5>2. After(place, own, inner) \in Place /\ After(place, own, inner).at = own.next /\ own.next > place.at
          <6>1. place.n - 1 \in Nat
            BY <1>0, <1>2
          <6>2. own.next > place.at
            BY <1>0, <3>1, <4>2, <5>1
          <6> HIDE DEF own
          <6> QED  BY <1>0, <4>2, <5>1, <6>1, <6>2 DEF After, Place
        <5>3. h[After(place, own, inner)] = o /\ IsResult(o, own.next)
          BY <5>2
        <5>4. /\ Reading(g, bytes, place, limits, c) = IF o = Failed THEN Failed ELSE Result(inner, o)
              /\ Reading(h, bytes, place, limits, c) = IF o = Failed THEN Failed ELSE Result(inner, o)
          <6>1. g[Inside(place, head)] = inner
            BY DEF inner
          <6> HIDE DEF Result
          <6> QED  BY <2>1, <2>4, <3>5, <4>1, <4>4, <5>3, <6>1
        <5>5. CASE o = Failed
          BY <5>4, <5>5 DEF IsResult
        <5>6. CASE o # Failed
          <6>1. o.next \in Nat \ {0} /\ o.next >= own.next /\ o.count \in Nat
            BY <5>3, <5>6 DEF IsResult
          <6>2. Result(inner, o).next = o.next /\ Result(inner, o).count = o.count
            OBVIOUS
          <6> HIDE DEF Result, o, own
          <6>3. IsResult(Result(inner, o), place.at)
            BY <1>0, <3>1, <4>2, <5>1, <6>1, <6>2, SMT DEF IsResult
          <6> QED  BY <5>4, <5>6, <6>3
        <5> QED  BY <5>5, <5>6
      <4> QED  BY <4>3, <4>4
    <3> QED  BY <3>4, <3>5
  <2> QED  BY <2>3, <2>4
<1> QED  BY <1>1, <1>2

(* From a place past the end nothing is read. *)
LEMMA NothingPastEnd ==
  ASSUME NEW bytes, NEW place, place.at > Len(bytes), NEW limits, NEW c, NEW f
  PROVE  Reading(f, bytes, place, limits, c)
           = IF place.n = 0 THEN [next |-> place.at, count |-> place.count, tags |-> <<>>] ELSE Failed
<1>1. Header(bytes, place, limits, c) = Failed
  BY Zenon DEF Header
<1>2. CASE place.n = 0
  BY <1>2, Zenon DEF Reading, TagRead, OwnOf
<1>3. CASE place.n # 0
  BY <1>1, <1>3, Zenon DEF Reading, TagRead, OwnOf
<1> QED  BY <1>2, <1>3

(* There is a reader: one for the last k places, from those past the end.  *)
ReadsLast(f, bytes, limits, c, k) ==
  \A place \in Place : place.at + k > Len(bytes) =>
    /\ f[place] = Reading(f, bytes, place, limits, c)
    /\ IsResult(f[place], place.at)

(* So there is one that reads from every place.                            *)
LEMMA ReaderExists ==
  ASSUME NEW bytes \in Seq(Byte), NEW limits, NEW c
  PROVE  \E f : f = [place \in Place |-> Reading(f, bytes, place, limits, c)]
<1> DEFINE L == Len(bytes)
           Some(k) == \E f : ReadsLast(f, bytes, limits, c, k)
           Missing == {k \in 0..L : ~Some(k)}
<1>0. L \in Nat
  OBVIOUS
<1>1. Some(0)
  <2> DEFINE f == [place \in Place |-> Reading(<<>>, bytes, place, limits, c)]
  <2>1. ASSUME NEW place \in Place, place.at + 0 > L
        PROVE  f[place] = Reading(f, bytes, place, limits, c) /\ IsResult(f[place], place.at)
    <3>1. place.at \in Nat \ {0} /\ place.count \in Nat /\ place.at > Len(bytes)
      BY <1>0, <2>1 DEF Place
    <3>2. f[place] = Reading(<<>>, bytes, place, limits, c)
      OBVIOUS
    <3> DEFINE r == IF place.n = 0 THEN [next |-> place.at, count |-> place.count, tags |-> <<>>] ELSE Failed
    <3>3. Reading(<<>>, bytes, place, limits, c) = r
      BY <3>1, NothingPastEnd, Zenon
    <3> HIDE DEF f
    <3>4. Reading(f, bytes, place, limits, c) = r
      BY <3>1, NothingPastEnd, Zenon
    <3>5. IsResult(r, place.at)
      BY <3>1 DEF IsResult
    <3> HIDE DEF r
    <3> QED  BY <3>2, <3>3, <3>4, <3>5
  <2> HIDE DEF f
  <2>2. ReadsLast(f, bytes, limits, c, 0)
    BY <2>1, Zenon DEF ReadsLast
  <2> QED  BY <2>2
<1>2. ASSUME NEW k \in 1..L, Some(k - 1)
      PROVE  Some(k)
  <2>1. PICK g : ReadsLast(g, bytes, limits, c, k - 1)
    BY <1>2
  <2> DEFINE h == [place \in Place |-> IF place.at + (k - 1) > L THEN g[place]
                                       ELSE Reading(g, bytes, place, limits, c)]
  <2>2. ASSUME NEW place \in Place, place.at + k > L
        PROVE  h[place] = Reading(h, bytes, place, limits, c) /\ IsResult(h[place], place.at)
    <3>1. \A q \in Place : q.at > place.at => g[q] = h[q] /\ IsResult(g[q], q.at)
      <4> SUFFICES ASSUME NEW q \in Place, q.at > place.at
                   PROVE  g[q] = h[q] /\ IsResult(g[q], q.at)
        OBVIOUS
      <4>1. q.at + (k - 1) > L
        <5>1. q.at \in Nat /\ place.at \in Nat
          BY DEF Place
        <5> HIDE DEF L
        <5> QED  BY <1>0, <2>2, <5>1
      <4>2. IsResult(g[q], q.at)
        BY <2>1, <4>1 DEF ReadsLast
      <4> QED  BY <4>1, <4>2
    <3>2. h[place] = IF place.at + (k - 1) > L THEN g[place] ELSE Reading(g, bytes, place, limits, c)
      OBVIOUS
    <3> HIDE DEF h
    <3>3. /\ Reading(g, bytes, place, limits, c) = Reading(h, bytes, place, limits, c)
          /\ IsResult(Reading(g, bytes, place, limits, c), place.at)
      BY <3>1, ReadingGoesOn
    <3>4. place.at + (k - 1) > L => g[place] = Reading(g, bytes, place, limits, c)
      BY <2>1 DEF ReadsLast
    <3> QED  BY <3>2, <3>3, <3>4
  <2> HIDE DEF h
  <2>3. ReadsLast(h, bytes, limits, c, k)
    BY <2>2, Zenon DEF ReadsLast
  <2> QED  BY <2>3
<1> HIDE DEF Some
<1>3. Missing = {}
  <2> SUFFICES ASSUME Missing # {} PROVE FALSE
    OBVIOUS
  <2>1. PICK k \in Missing : \A m \in Missing : k <= m
    <3>1. Missing \subseteq Nat
      BY <1>0
    <3> QED  BY <3>1, LeastNumber
  <2>2. k \in 0..L /\ ~Some(k)
    OBVIOUS
  <2>3. k \in 1..L /\ k - 1 \in 0..L /\ ~(k <= k - 1)
    <3> HIDE DEF L
    <3> QED  BY <1>0, <1>1, <2>2
  <2> QED  BY <1>2, <2>1, <2>2, <2>3
<1>4. Some(L)
  BY <1>0, <1>3
<1>5. PICK g : ReadsLast(g, bytes, limits, c, L)
  BY <1>4 DEF Some
<1>6. ASSUME NEW place \in Place
      PROVE  g[place] = Reading(g, bytes, place, limits, c) /\ IsResult(g[place], place.at)
  <2>1. place.at + L > L
    <3>1. place.at \in Nat \ {0}
      BY DEF Place
    <3> HIDE DEF L
    <3> QED  BY <1>0, <3>1
  <2> QED  BY <1>5, <2>1 DEF ReadsLast
<1> DEFINE f == [place \in Place |-> Reading(g, bytes, place, limits, c)]
<1>7. \A place \in Place : f[place] = g[place]
  BY <1>6
<1>8. \A place \in Place : Reading(g, bytes, place, limits, c) = Reading(f, bytes, place, limits, c)
  <2> SUFFICES ASSUME NEW place \in Place
               PROVE  Reading(g, bytes, place, limits, c) = Reading(f, bytes, place, limits, c)
    OBVIOUS
  <2>1. \A q \in Place : q.at > place.at => g[q] = f[q] /\ IsResult(g[q], q.at)
    BY <1>6, <1>7
  <2> HIDE DEF f
  <2> QED  BY <2>1, ReadingGoesOn
<1>9. f = [place \in Place |-> Reading(f, bytes, place, limits, c)]
  BY <1>8, Zenon
<1> QED  BY <1>9

(* ReadTags() is that reader: it reads a tag, its children, the others.    *)
LEMMA ReadTagsUnfolds ==
  ASSUME NEW bytes \in Seq(Byte), NEW limits, NEW c, NEW place \in Place
  PROVE  ReadTags(bytes, limits, c)[place] = Reading(ReadTags(bytes, limits, c), bytes, place, limits, c)
<1> DEFINE f == CHOOSE f : f = [q \in Place |-> Reading(f, bytes, q, limits, c)]
<1>1. f = [q \in Place |-> Reading(f, bytes, q, limits, c)]
  BY ReaderExists
<1>2. ReadTags(bytes, limits, c) = f
  BY DEF ReadTags
<1> HIDE DEF f
<1>3. f[place] = Reading(f, bytes, place, limits, c)
  BY <1>1
<1> QED  BY <1>2, <1>3

-----------------------------------------------------------------------------
(* Own data.  A tag as the constructors make it, which may be written.     *)
IsTag(tag) ==
  /\ tag.name \in Nat /\ tag.name < 32768
  /\ tag.type \in IntegerType \union DataType
  /\ IF tag.type \in IntegerType THEN tag.value \in Integer ELSE tag.value \in Seq(Byte)
  /\ Fits(tag.type, tag.value)

(* A type and its code: no two share one.                                  *)
LEMMA CodeOfType ==
  ASSUME NEW type \in IntegerType \union DataType
  PROVE  /\ TypeCode(type) \in Byte
         /\ (CHOOSE t \in IntegerType \union DataType : TypeCode(t) = TypeCode(type)) = type
<1>1. \A t, u \in IntegerType \union DataType : TypeCode(t) = TypeCode(u) => t = u
  BY SMT DEF IntegerType, DataType, TypeCode
<1>2. TypeCode(type) \in Byte
  BY SMT DEF IntegerType, DataType, TypeCode, Byte
<1>3. (CHOOSE t \in IntegerType \union DataType : TypeCode(t) = TypeCode(type)) = type
  BY <1>1
<1> QED  BY <1>2, <1>3

(* The width of an integer tag holds the value of one.                     *)
LEMMA WidthHolds ==
  ASSUME NEW tag, IsTag(tag), tag.type \in IntegerType
  PROVE  Holds(Width(tag.type), tag.value)
<1> DEFINE type == tag.type
           value == tag.value
<1>1. value \in Integer /\ Fits(type, value) /\ type \in IntegerType
  BY DEF IsTag
<1> HIDE DEF type, value
<1>2. /\ type = "UINT8" => Width(type) = 1 /\ value < 256
      /\ type = "UINT16" => Width(type) = 2 /\ value < 65536
      /\ type = "UINT32" => Width(type) = 4
      /\ type = "UINT64" => Width(type) = 8
      /\ type = "UINT128" => Width(type) = 16
  BY <1>1, SMT DEF Fits, Width
<1>3. Holds(Width(type), value)
  BY <1>1, <1>2, SMT DEF IntegerType, Holds
<1> QED  BY <1>3 DEF type, value

(* Own data is bytes.                                                      *)
LEMMA OwnDataType ==
  ASSUME NEW tag, IsTag(tag), NEW c
  PROVE  OwnData(tag, c) \in Seq(Byte)
<1>1. CASE tag.type \in IntegerType
  <2>1. OwnData(tag, c) = Uint(tag.value, Width(tag.type), c)
    BY <1>1, SMT DEF OwnData, IntegerType
  <2> QED  BY <1>1, <2>1, WidthHolds, UintType
<1>2. CASE tag.type = "STRING"
  <2>1. OwnData(tag, c) = Append(tag.value, 0)
    BY <1>2, SMT DEF OwnData, IntegerType
  <2>2. tag.value \in Seq(Byte) /\ 0 \in Byte
    BY <1>2, SMT DEF IsTag, IntegerType, Byte
  <2> QED  BY <2>1, <2>2
<1>3. CASE tag.type \notin IntegerType /\ tag.type # "STRING"
  <2>1. OwnData(tag, c) = tag.value
    BY <1>3, Zenon DEF OwnData
  <2>2. tag.value \in Seq(Byte)
    BY <1>3 DEF IsTag
  <2> QED  BY <2>1, <2>2
<1> QED  BY <1>1, <1>2, <1>3

(* A value is made of its own data again. *)
LEMMA ValueOfOwnData ==
  ASSUME NEW tag, IsTag(tag), NEW c
  PROVE  /\ Value(tag.type, OwnData(tag, c), c) # Failed
         /\ Value(tag.type, OwnData(tag, c), c).value = tag.value
<1> DEFINE data == OwnData(tag, c)
           read == Value(tag.type, data, c)
<1>0. data \in Seq(Byte) /\ Len(data) \in Nat
  BY OwnDataType
<1>1. CASE tag.type \in IntegerType
  <2>1. data = Uint(tag.value, Width(tag.type), c)
    BY <1>1, SMT DEF OwnData, IntegerType
  <2>2. Holds(Width(tag.type), tag.value) /\ tag.value \in Integer
    BY <1>1, WidthHolds DEF Holds
  <2> HIDE DEF data
  <2>3. CASE c.utf8Numbers
    <3>1. read = FromUtf8(data, 1)
      BY <1>1, <2>3, SMT DEF Value, IntegerType
    <3>2. data = Utf8(tag.value)
      BY <2>1, <2>3 DEF Uint
    <3>3. Agrees(data, 1, data) /\ Whole(data, 1, data)
      BY <1>0, SMT DEF Agrees, Whole
    <3>4. read = [next |-> 1 + Len(data), value |-> tag.value]
      BY <1>0, <2>2, <3>1, <3>2, <3>3, Utf8ReadsBack
    <3> HIDE DEF read
    <3>5. read.next # 0 /\ read.value = tag.value
      BY <1>0, <3>4
    <3> QED  BY <3>5 DEF read, data, Failed
  <2>4. CASE ~c.utf8Numbers
    <3>1. read = [next |-> 1, value |-> FromBigEndian(data)]
      BY <1>1, <2>4, SMT DEF Value, IntegerType
    <3>2. FromBigEndian(data) = tag.value
      BY <2>1, <2>2, <2>4, BigEndianReadsBack DEF Uint
    <3> HIDE DEF read
    <3>3. read.next # 0 /\ read.value = tag.value
      BY <3>1, <3>2
    <3> QED  BY <3>3 DEF read, data, Failed
  <2> QED  BY <2>3, <2>4
<1>2. CASE tag.type = "STRING"
  <2>1. data = Append(tag.value, 0) /\ tag.value \in Seq(Byte)
    BY <1>2, SMT DEF OwnData, IntegerType, IsTag
  <2> DEFINE n == Len(data)
  <2>2. data # <<>> /\ data[n] = 0 /\ SubSeq(data, 1, n - 1) = tag.value
    <3> DEFINE s == tag.value
    <3>1. s \in Seq(Byte) /\ data = Append(s, 0) /\ 0 \in Byte
      BY <2>1, SMT DEF Byte
    <3> HIDE DEF s, data
    <3>2. Len(data) = Len(s) + 1 /\ data[Len(s) + 1] = 0 /\ data # <<>>
      BY <3>1
    <3>3. SubSeq(data, 1, Len(s)) = s
      BY <3>1, SMT
    <3> QED  BY <3>1, <3>2, <3>3 DEF s
  <2> HIDE DEF data
  <2>3. read = [next |-> 1, value |-> SubSeq(data, 1, Len(data) - 1)]
    BY <1>2, <2>2, SMT DEF Value, IntegerType
  <2> HIDE DEF read
  <2>4. read.next # 0 /\ read.value = tag.value
    BY <2>2, <2>3
  <2> QED  BY <2>4 DEF read, data, Failed
<1>3. CASE tag.type \notin IntegerType /\ tag.type # "STRING"
  <2>1. data = tag.value
    BY <1>3, Zenon DEF OwnData
  <2> HIDE DEF data
  <2>2. CASE tag.type = "IPV4"
    <3>1. Len(data) = 6
      BY <2>1, <2>2, SMT DEF IsTag, Fits
    <3>2. read = [next |-> 1, value |-> Subarray(data, 1, 6)]
      BY <1>3, <2>2, SMT DEF Value, IntegerType
    <3>3. Subarray(data, 1, 6) = data
      <4>1. Subarray(data, 1, 6) = SubSeq(data, 1, 6)
        BY <3>1, SMT DEF Subarray
      <4>2. SubSeq(data, 1, 6) = data
        BY <1>0, <3>1, SMT
      <4> QED  BY <4>1, <4>2
    <3> HIDE DEF read
    <3>4. read.next # 0 /\ read.value = tag.value
      BY <2>1, <3>2, <3>3
    <3> QED  BY <3>4 DEF read, data, Failed
  <2>3. CASE tag.type # "IPV4"
    <3>1. read = [next |-> 1, value |-> data]
      BY <1>3, <2>3, Zenon DEF Value
    <3> HIDE DEF read
    <3>2. read.next # 0 /\ read.value = tag.value
      BY <2>1, <3>1
    <3> QED  BY <3>2 DEF read, data, Failed
  <2> QED  BY <2>2, <2>3
<1> QED  BY <1>1, <1>2, <1>3

(* Own data reads back as the value it was, or is refused when cut.        *)
LEMMA OwnValueReadsBack ==
  ASSUME NEW bytes \in Seq(Byte), NEW at \in Nat \ {0}, NEW tag, IsTag(tag), NEW c,
         Agrees(bytes, at, OwnData(tag, c))
  PROVE  OwnValue(bytes, at, Len(OwnData(tag, c)), TypeCode(tag.type), c)
           = IF Whole(bytes, at, OwnData(tag, c))
               THEN [next |-> at + Len(OwnData(tag, c)), type |-> tag.type, value |-> tag.value]
               ELSE Failed
<1> DEFINE data == OwnData(tag, c)
           code == TypeCode(tag.type)
           own == OwnValue(bytes, at, Len(data), code, c)
<1>1. data \in Seq(Byte) /\ Len(data) \in Nat
  BY OwnDataType
<1>2. tag.type \in IntegerType \union DataType /\ Fits(tag.type, tag.value)
  BY DEF IsTag
<1>3. CASE ~Whole(bytes, at, data)
  <2>1. own = Failed
    BY <1>3, Zenon DEF OwnValue, Whole, WithinEnd
  <2> QED  BY <1>3, <2>1
<1>4. CASE Whole(bytes, at, data)
  <2>1. ~(Len(data) < 0) /\ WithinEnd(bytes, at, Len(data))
    BY <1>1, <1>4, SMT DEF Whole, WithinEnd
  <2>2. Subarray(bytes, at, at + Len(data) - 1) = data
    BY <1>1, <1>4, SubarrayIs
  <2>3. (CHOOSE t \in IntegerType \union DataType : TypeCode(t) = code) = tag.type
    BY <1>2, CodeOfType
  <2>4. ~(\A t \in IntegerType \union DataType : TypeCode(t) # code)
    BY <1>2
  <2> DEFINE read == Value(tag.type, data, c)
  <2>5. own = IF read = Failed THEN Failed
              ELSE IF Fits(tag.type, read.value)
                   THEN [next |-> at + Len(data), type |-> tag.type, value |-> read.value]
                   ELSE Failed
    <3> HIDE DEF code, data
    <3> QED  BY <2>1, <2>2, <2>3, <2>4, Zenon DEF OwnValue
  <2>6. read # Failed /\ read.value = tag.value
    BY ValueOfOwnData
  <2> HIDE DEF read, own
  <2>7. own = [next |-> at + Len(data), type |-> tag.type, value |-> tag.value]
    BY <1>2, <2>5, <2>6
  <2> QED  BY <1>4, <2>7 DEF own
<1> QED  BY <1>3, <1>4

-----------------------------------------------------------------------------
(* The fields of a tag before its children. *)
NameField(tag, n, c) == Uint((2 * tag.name) + (IF n > 0 THEN 1 ELSE 0), 2, c)
CountField(n, c) == IF n > 0 THEN CountOfTags(n, c) ELSE <<>>
HeaderField(tag, n, length, c) ==
  NameField(tag, n, c) \o <<TypeCode(tag.type)>> \o Uint(length, 4, c) \o CountField(n, c)

(* A number of children, as a tag may have it. *)
Childcount(n, c) == n = 0 \/ (n \in Nat \ {0} /\ Countable(n, c))

(* What each field may hold, and the bytes it has.                         *)
LEMMA HeaderFields ==
  ASSUME NEW tag, IsTag(tag), NEW c, NEW n, Childcount(n, c), NEW length \in Integer
  PROVE  /\ n \in Nat
         /\ Holds(2, (2 * tag.name) + (IF n > 0 THEN 1 ELSE 0)) /\ Holds(4, length)
         /\ NameField(tag, n, c) \in Seq(Byte) /\ Len(NameField(tag, n, c)) \in Nat \ {0}
         /\ <<TypeCode(tag.type)>> \in Seq(Byte)
         /\ Uint(length, 4, c) \in Seq(Byte) /\ Len(Uint(length, 4, c)) \in Nat \ {0}
         /\ CountField(n, c) \in Seq(Byte) /\ Len(CountField(n, c)) \in Nat
<1>1. n \in Nat
  BY DEF Childcount
<1>2. Holds(2, (2 * tag.name) + (IF n > 0 THEN 1 ELSE 0))
  <2> DEFINE name == tag.name
  <2>1. name \in Nat /\ name < 32768
    BY DEF IsTag
  <2> HIDE DEF name
  <2>2. Holds(2, (2 * name) + 1) /\ Holds(2, (2 * name) + 0)
    BY <2>1, SMT DEF Holds, Integer
  <2> QED  BY <2>2 DEF name
<1>3. Holds(4, length)
  BY SMT DEF Holds
<1>4. NameField(tag, n, c) \in Seq(Byte) /\ Len(NameField(tag, n, c)) \in Nat \ {0}
  BY <1>2, UintType DEF NameField
<1>5. <<TypeCode(tag.type)>> \in Seq(Byte)
  <2>1. TypeCode(tag.type) \in Byte
    BY CodeOfType DEF IsTag
  <2> QED  BY <2>1
<1>6. Uint(length, 4, c) \in Seq(Byte) /\ Len(Uint(length, 4, c)) \in Nat \ {0}
  BY <1>3, UintType
<1>7. CountField(n, c) \in Seq(Byte) /\ Len(CountField(n, c)) \in Nat
  <2>1. CASE n > 0
    <3>1. CountField(n, c) = CountOfTags(n, c) /\ Countable(n, c)
      BY <1>1, <2>1 DEF CountField, Childcount
    <3> QED  BY <3>1, CountType
  <2>2. CASE ~(n > 0)
    <3>1. CountField(n, c) = <<>>
      BY <2>2 DEF CountField
    <3> QED  BY <3>1, EmptySeq
  <2> QED  BY <2>1, <2>2
<1> QED  BY <1>1, <1>2, <1>3, <1>4, <1>5, <1>6, <1>7

(* The name and the bit beside it are told apart again.                    *)
LEMMA NameBits ==
  ASSUME NEW name \in Nat, NEW n \in Nat
  PROVE  /\ ((2 * name) + (IF n > 0 THEN 1 ELSE 0)) \div 2 = name
         /\ ((2 * name) + (IF n > 0 THEN 1 ELSE 0)) % 2 = 1 <=> n > 0
<1>1. ((2 * name) + 1) \div 2 = name /\ ((2 * name) + 1) % 2 = 1
  BY SMT
<1>2. ((2 * name) + 0) \div 2 = name /\ ((2 * name) + 0) % 2 = 0
  BY SMT
<1> QED  BY <1>1, <1>2

(* One sequence after another, and how long it is.                         *)
LEMMA JoinType ==
  ASSUME NEW S, NEW s \in Seq(S), NEW t \in Seq(S)
  PROVE  s \o t \in Seq(S) /\ Len(s \o t) = Len(s) + Len(t)
BY ConcatProperties

(* The limits readTag() checks before it reads.                            *)
Exceeds(place, limits) == place.count + 1 > limits.maxTagCount \/ place.depth >= limits.maxDepth

(* The fields read back; cut, they are refused or run out.                 *)
LEMMA HeaderReadsBack ==
  ASSUME NEW bytes \in Seq(Byte), NEW place \in Place, NEW limits, NEW tag, IsTag(tag), NEW c,
         NEW n, Childcount(n, c), NEW length \in Integer,
         Agrees(bytes, place.at, HeaderField(tag, n, length, c))
  PROVE  IF Exceeds(place, limits) THEN Header(bytes, place, limits, c) = Failed
         ELSE IF Whole(bytes, place.at, HeaderField(tag, n, length, c))
         THEN Header(bytes, place, limits, c)
                = [next |-> place.at + Len(HeaderField(tag, n, length, c)), n |-> n, name |-> tag.name,
                   code |-> TypeCode(tag.type), length |-> length]
         ELSE \/ Header(bytes, place, limits, c) = Failed
              \/ Header(bytes, place, limits, c).next > Len(bytes) + 1
<1> DEFINE at == place.at
           f1 == NameField(tag, n, c)
           f2 == <<TypeCode(tag.type)>>
           f3 == Uint(length, 4, c)
           f4 == CountField(n, c)
           at2 == at + Len(f1)
           at3 == at2 + 1
           at4 == at3 + Len(f3)
           L == Len(bytes)
           raw == (2 * tag.name) + (IF n > 0 THEN 1 ELSE 0)
           head == Header(bytes, place, limits, c)
           rname == FromUint(bytes, at, 2, c)
           rlength == FromUint(bytes, rname.next + 1, 4, c)
           rn == IF rname.value % 2 = 1 THEN FromCount(bytes, rlength.next, c)
                 ELSE [next |-> rlength.next, value |-> 0]
<1>1. CASE Exceeds(place, limits)
  <2>1. head = Failed
    BY <1>1, Zenon DEF Header, Exceeds
  <2> QED  BY <1>1, <2>1
<1>2. CASE ~Exceeds(place, limits)
  <2>1. head = IF at > L THEN Failed
               ELSE IF rname = Failed \/ rname.next > L THEN Failed
               ELSE IF rlength = Failed THEN Failed
               ELSE IF rn = Failed THEN Failed
               ELSE [next |-> rn.next, n |-> rn.value, name |-> rname.value \div 2,
                     code |-> bytes[rname.next], length |-> rlength.value]
    BY <1>2, Zenon DEF Header, Exceeds
  <2>2. /\ n \in Nat /\ Holds(2, raw) /\ Holds(4, length)
        /\ f1 \in Seq(Byte) /\ Len(f1) \in Nat \ {0} /\ f2 \in Seq(Byte)
        /\ f3 \in Seq(Byte) /\ Len(f3) \in Nat \ {0} /\ f4 \in Seq(Byte) /\ Len(f4) \in Nat
    BY HeaderFields
  <2>3. L \in Nat /\ at \in Nat \ {0} /\ Len(f2) = 1 /\ f2[1] = TypeCode(tag.type)
    <3>1. at \in Nat \ {0}
      BY DEF Place
    <3> QED  BY <3>1
  <2>4. HeaderField(tag, n, length, c) = ((f1 \o f2) \o f3) \o f4
    BY DEF HeaderField
  <2>5. tag.name \in Nat
    BY DEF IsTag
  <2>6. raw \div 2 = tag.name /\ (raw % 2 = 1 <=> n > 0)
    BY <2>2, <2>5, NameBits
  <2>7. IsHeader(head, at)
    BY HeaderType
  <2> HIDE DEF f1, f2, f3, f4, at, L, raw, head
  <2>8. /\ f1 \o f2 \in Seq(Byte) /\ (f1 \o f2) \o f3 \in Seq(Byte)
        /\ Len(f1 \o f2) = Len(f1) + 1 /\ Len((f1 \o f2) \o f3) = Len(f1) + 1 + Len(f3)
        /\ Len(((f1 \o f2) \o f3) \o f4) = Len(f1) + 1 + Len(f3) + Len(f4)
    <3>1. f1 \o f2 \in Seq(Byte) /\ Len(f1 \o f2) = Len(f1) + 1
      <4>1. f1 \o f2 \in Seq(Byte) /\ Len(f1 \o f2) = Len(f1) + Len(f2)
        BY <2>2, JoinType
      <4> QED  BY <2>3, <4>1
    <3> DEFINE p == f1 \o f2
    <3>2. p \in Seq(Byte) /\ Len(p) = Len(f1) + 1
      BY <3>1
    <3> HIDE DEF p
    <3>3. p \o f3 \in Seq(Byte) /\ Len(p \o f3) = Len(p) + Len(f3)
      BY <2>2, <3>2, JoinType
    <3> DEFINE q == p \o f3
    <3>4. q \in Seq(Byte) /\ Len(q) = Len(f1) + 1 + Len(f3)
      BY <3>2, <3>3
    <3> HIDE DEF q
    <3>5. q \o f4 \in Seq(Byte) /\ Len(q \o f4) = Len(q) + Len(f4)
      BY <2>2, <3>4, JoinType
    <3>6. Len(q \o f4) = Len(f1) + 1 + Len(f3) + Len(f4)
      BY <3>4, <3>5
    <3> QED  BY <3>1, <3>4, <3>6 DEF p, q
  <2> DEFINE s2 == f1 \o f2
             s3 == s2 \o f3
             s4 == s3 \o f4
  <2>9. at2 \in Nat \ {0} /\ at3 \in Nat \ {0} /\ at4 \in Nat \ {0}
    BY <2>2, <2>3
  <2>10. at + Len(s2) = at3 /\ at + Len(s3) = at4 /\ at + Len(s4) = at4 + Len(f4)
    BY <2>2, <2>3, <2>8
  <2>11. Agrees(bytes, at, s4)
    BY <2>4 DEF at
  <2> HIDE DEF s4
  <2>12. Agrees(bytes, at, s3) /\ Agrees(bytes, at4, f4) /\ (Whole(bytes, at, s4) <=> Whole(bytes, at4, f4))
         /\ (Whole(bytes, at, s4) => Whole(bytes, at, s3))
    <3> HIDE DEF s3, at4
    <3> QED  BY <2>2, <2>3, <2>8, <2>10, <2>11, AgreesParts DEF s4, L, s3
  <2>13. Agrees(bytes, at, s2) /\ Agrees(bytes, at3, f3) /\ (Whole(bytes, at, s3) <=> Whole(bytes, at3, f3))
         /\ (Whole(bytes, at, s3) => Whole(bytes, at, s2))
    <3> HIDE DEF s2, at3
    <3> QED  BY <2>2, <2>3, <2>8, <2>10, <2>12, AgreesParts DEF s3, L, s2
  <2>14. Agrees(bytes, at, f1) /\ Agrees(bytes, at2, f2) /\ (Whole(bytes, at, s2) <=> Whole(bytes, at2, f2))
         /\ (Whole(bytes, at, s2) => Whole(bytes, at, f1))
    <3> HIDE DEF at2
    <3> QED  BY <2>2, <2>3, <2>8, <2>10, <2>13, AgreesParts DEF s2, L, at2
  <2> HIDE DEF s3, s2
  <2>15. IF Whole(bytes, at, f1) THEN rname = [next |-> at2, value |-> raw] ELSE RunsOut(rname, bytes)
    BY <2>2, <2>3, <2>14, UintReadsBack DEF f1, raw, NameField
  <2>16. CASE ~Whole(bytes, at, f1)
    <3>1. rname = Failed \/ rname.next > L
      <4>1. RunsOut(rname, bytes)
        BY <2>15, <2>16
      <4> HIDE DEF rname
      <4> QED  BY <2>3, <4>1, SMT DEF RunsOut, L
    <3>2. head = Failed
      BY <2>1, <3>1, Zenon
    <3>3. ~Whole(bytes, at, s4)
      BY <2>12, <2>13, <2>14, <2>16
    <3> QED  BY <1>2, <2>4, <3>2, <3>3 DEF head, s4, s3, s2, at
  <2>17. CASE Whole(bytes, at, f1)
    <3>1. rname = [next |-> at2, value |-> raw]
      BY <2>15, <2>17
    <3>2. rname.next = at2 /\ rname.value = raw
      BY <3>1
    <3>3. rname # Failed
      BY <2>9, <3>1, <3>2 DEF Failed
    <3>4. ~(at > L)
      <4>1. at + Len(f1) - 1 <= Len(bytes)
        BY <2>17 DEF Whole
      <4> QED  BY <2>2, <2>3, <4>1 DEF L
    <3>5. CASE at2 > L
      <4>1. head = Failed
        BY <2>1, <3>2, <3>5, Zenon
      <4>2. ~Whole(bytes, at2, f2)
        BY <2>3, <2>9, <3>5, SMT DEF Whole, L
      <4>3. ~Whole(bytes, at, s4)
        BY <2>12, <2>13, <2>14, <4>2
      <4> QED  BY <1>2, <2>4, <4>1, <4>3 DEF head, s4, s3, s2, at
    <3>6. CASE ~(at2 > L)
      <4>1. bytes[at2] = TypeCode(tag.type)
        <5>1. \A i \in 1..Len(f2) : at2 + i - 1 <= Len(bytes) => bytes[at2 + i - 1] = f2[i]
          BY <2>14 DEF Agrees
        <5>2. 1 \in 1..Len(f2) /\ at2 + 1 - 1 = at2 /\ at2 <= Len(bytes)
          BY <2>3, <2>9, <3>6 DEF L
        <5> HIDE DEF at2
        <5> QED  BY <2>3, <5>1, <5>2
      <4>2. head = IF rlength = Failed THEN Failed
                   ELSE IF rn = Failed THEN Failed
                   ELSE [next |-> rn.next, n |-> rn.value, name |-> tag.name,
                         code |-> TypeCode(tag.type), length |-> rlength.value]
        <5> HIDE DEF rlength, rn, rname
        <5> QED  BY <2>1, <2>6, <3>2, <3>3, <3>4, <3>6, <4>1
      <4>3. rlength = FromUint(bytes, at3, 4, c)
        BY <3>2
      <4>4. IF Whole(bytes, at3, f3) THEN rlength = [next |-> at4, value |-> length]
            ELSE RunsOut(rlength, bytes)
        <5> HIDE DEF at3, rname
        <5> QED  BY <2>2, <2>9, <2>13, <4>3, UintReadsBack DEF f3
      <4>5. rn = IF n > 0 THEN FromCount(bytes, rlength.next, c) ELSE [next |-> rlength.next, value |-> 0]
        <5>1. rname.value % 2 = 1 <=> n > 0
          BY <2>6, <3>2
        <5> HIDE DEF rname, rlength
        <5> QED  BY <5>1
      <4> HIDE DEF rname, rlength
      <4>6. CASE ~Whole(bytes, at3, f3)
        <5>1. RunsOut(rlength, bytes)
          BY <4>4, <4>6
        <5>2. rn = Failed \/ rn.next > L + 1 \/ rlength = Failed
          <6>1. CASE rlength # Failed /\ n > 0
            <7>1. rlength.next \in Nat \ {0} /\ rlength.next > L + 1
              BY <2>3, <5>1, <6>1, SMT DEF RunsOut, L
            <7>2. IsRead(FromCount(bytes, rlength.next, c), rlength.next)
              BY <7>1, CountReadType
            <7>3. rn = FromCount(bytes, rlength.next, c)
              BY <4>5, <6>1
            <7> HIDE DEF rn
            <7> QED  BY <2>3, <7>1, <7>2, <7>3, SMT DEF IsRead
          <6>2. CASE rlength # Failed /\ ~(n > 0)
            <7>1. rn.next = rlength.next
              BY <4>5, <6>2
            <7> HIDE DEF rn
            <7> QED  BY <2>3, <5>1, <6>2, <7>1, SMT DEF RunsOut, L
          <6> QED  BY <6>1, <6>2
        <5>3. ~Whole(bytes, at, s4)
          BY <2>12, <2>13, <4>6
        <5> HIDE DEF rn
        <5>4. head = Failed \/ head.next > L + 1
          BY <4>2, <5>2
        <5> QED  BY <1>2, <2>4, <5>3, <5>4 DEF head, s4, s3, s2, at, L
      <4>7. CASE Whole(bytes, at3, f3)
        <5>1. rlength = [next |-> at4, value |-> length] /\ rlength.next = at4 /\ rlength.value = length
          BY <4>4, <4>7
        <5>2. rlength # Failed
          BY <2>9, <5>1 DEF Failed
        <5>3. CASE n > 0
          <6>1. f4 = CountOfTags(n, c) /\ Countable(n, c)
            BY <2>2, <5>3 DEF f4, CountField, Childcount
          <6>2. rn = FromCount(bytes, at4, c)
            BY <4>5, <5>1, <5>3
          <6>3. IF Whole(bytes, at4, f4) THEN rn = [next |-> at4 + Len(f4), value |-> n]
                ELSE RunsOut(rn, bytes)
            <7> HIDE DEF at4, rn
            <7> QED  BY <2>9, <2>12, <6>1, <6>2, CountReadsBack
          <6> HIDE DEF rn
          <6>4. CASE Whole(bytes, at4, f4)
            <7>1. rn.next = at + Len(s4) /\ rn.value = n
              BY <2>10, <6>3, <6>4
            <7>2. rn # Failed
              <8>1. at + Len(s4) # 0
                BY <2>2, <2>9, <2>10, SMTT(20)
              <8> QED  BY <7>1, <8>1 DEF Failed
            <7>3. head = [next |-> at + Len(s4), n |-> n, name |-> tag.name,
                          code |-> TypeCode(tag.type), length |-> length]
              BY <4>2, <5>1, <5>2, <7>1, <7>2
            <7> QED  BY <1>2, <2>4, <2>12, <6>4, <7>3 DEF head, s4, s3, s2, at
          <6>5. CASE ~Whole(bytes, at4, f4)
            <7>1. RunsOut(rn, bytes)
              BY <6>3, <6>5
            <7>2. rn = Failed \/ rn.next > L + 1
              BY <2>3, <7>1, SMT DEF RunsOut, L
            <7>3. head = Failed \/ head.next > L + 1
              BY <4>2, <7>2
            <7> QED  BY <1>2, <2>4, <2>12, <6>5, <7>3 DEF head, s4, s3, s2, at, L
          <6> QED  BY <6>4, <6>5
        <5>4. CASE ~(n > 0)
          <6>1. n = 0 /\ f4 = <<>> /\ Len(f4) = 0
            BY <2>2, <5>4 DEF f4, CountField
          <6>2. rn = [next |-> at4, value |-> 0]
            BY <4>5, <5>1, <5>4
          <6> HIDE DEF rn
          <6>3. rn.next = at + Len(s4) /\ rn.value = n
            BY <2>9, <2>10, <6>1, <6>2
          <6>4. rn # Failed
            BY <2>9, <6>2 DEF Failed
          <6>5. head = [next |-> at + Len(s4), n |-> n, name |-> tag.name,
                        code |-> TypeCode(tag.type), length |-> length]
            BY <4>2, <5>1, <5>2, <6>3, <6>4
          <6>6. Whole(bytes, at, s4)
            <7>1. at3 + Len(f3) - 1 <= Len(bytes)
              BY <4>7 DEF Whole
            <7> QED  BY <2>2, <2>3, <2>9, <2>10, <6>1, <7>1, SMT DEF Whole
          <6> QED  BY <1>2, <2>4, <6>5, <6>6 DEF head, s4, s3, s2, at
        <5> QED  BY <5>3, <5>4
      <4> QED  BY <4>6, <4>7
    <3> QED  BY <3>5, <3>6
  <2> QED  BY <2>16, <2>17
<1> QED  BY <1>1, <1>2

(* Where the fields of a tag run out of the bytes it is refused.           *)
LEMMA RunsOutFails ==
  ASSUME NEW bytes \in Seq(Byte), NEW limits, NEW c, NEW place \in Place, place.n # 0,
         Header(bytes, place, limits, c) = Failed \/ Header(bytes, place, limits, c).next > Len(bytes) + 1
  PROVE  ReadTags(bytes, limits, c)[place] = Failed
<1> DEFINE f == ReadTags(bytes, limits, c)
           head == Header(bytes, place, limits, c)
           p == Inside(place, head)
           inner == f[p]
           own == OwnValue(bytes, inner.next, head.length - (inner.next - head.next), head.code, c)
           others == f[After(place, own, inner)]
           tag == [name |-> head.name, children |-> inner.tags, type |-> own.type, value |-> own.value]
           L == Len(bytes)
<1>1. f[place] = Reading(f, bytes, place, limits, c)
  BY ReadTagsUnfolds
<1>2. Reading(f, bytes, place, limits, c)
        = IF head = Failed THEN Failed
          ELSE IF inner = Failed THEN Failed
          ELSE IF own = Failed THEN Failed
          ELSE IF others = Failed THEN Failed
          ELSE [next |-> others.next, count |-> others.count, tags |-> <<tag>> \o others.tags]
  BY Zenon DEF Reading, TagRead, OwnOf
<1> HIDE DEF others, tag
<1>3. CASE head = Failed \/ inner = Failed \/ own = Failed
  <2> HIDE DEF inner, own, head
  <2> QED  BY <1>1, <1>2, <1>3
<1>4. CASE head # Failed /\ inner # Failed /\ own # Failed
  <2>1. head.next \in Nat \ {0} /\ head.next > L + 1 /\ head.n \in Nat /\ head.length \in Nat
    <3>1. IsHeader(head, place.at)
      BY HeaderType
    <3> HIDE DEF head
    <3> QED  BY <1>4, <3>1 DEF IsHeader, head
  <2>2. p \in Place /\ p.at = head.next /\ p.at > Len(bytes) /\ L \in Nat
    <3>1. place.depth + 1 \in Nat /\ place.count + 1 \in Nat
      BY DEF Place
    <3> HIDE DEF head
    <3>2. p.at = head.next
      BY DEF Inside
    <3>3. p \in Place
      BY <2>1, <3>1 DEF Inside, Place
    <3> QED  BY <2>1, <3>2, <3>3
  <2>3. inner = IF p.n = 0 THEN [next |-> p.at, count |-> p.count, tags |-> <<>>] ELSE Failed
    <3> HIDE DEF p
    <3>1. f[p] = Reading(f, bytes, p, limits, c)
      BY <2>2, ReadTagsUnfolds
    <3> HIDE DEF f
    <3>2. Reading(f, bytes, p, limits, c)
            = IF p.n = 0 THEN [next |-> p.at, count |-> p.count, tags |-> <<>>] ELSE Failed
      BY <2>2, NothingPastEnd
    <3> QED  BY <3>1, <3>2 DEF f
  <2>4. inner.next = head.next
    <3> HIDE DEF p, inner, head
    <3> QED  BY <1>4, <2>2, <2>3
  <2> DEFINE len == head.length - (inner.next - head.next)
  <2>5. len = head.length /\ len \in Int
    <3> HIDE DEF inner, head
    <3> QED  BY <2>1, <2>4
  <2>6. ~WithinEnd(bytes, inner.next, len)
    <3> HIDE DEF inner, head, len
    <3>1. ~(inner.next + len - 1 <= Len(bytes))
      BY <2>1, <2>2, <2>4, <2>5, SMT
    <3> QED  BY <3>1 DEF WithinEnd
  <2>7. own = Failed
    <3> HIDE DEF inner, head
    <3> QED  BY <2>6, Zenon DEF OwnValue
  <2> QED  BY <1>4, <2>7
<1> HIDE DEF head, inner, own
<1> QED  BY <1>3, <1>4

(* The bytes of any number, however large. *)
LEMMA UintBytes ==
  ASSUME NEW value \in Nat, NEW width \in Nat, NEW c
  PROVE  Uint(value, width, c) \in Seq(Nat)
<1>1. BigEndian(value, width) \in Seq(Nat)
  <2>1. Weight[1] = 1 /\ Weight[2] = 256 /\ Weight[3] = 65536 /\ Weight[4] = 16777216
    BY SMT DEF Weight
  <2>2. \A i \in 1..width : (IF width - i < 4 THEN (value \div Weight[width - i + 1]) % 256 ELSE 0) \in Nat
    <3> SUFFICES ASSUME NEW i \in 1..width, width - i < 4
                 PROVE  (value \div Weight[width - i + 1]) % 256 \in Nat
      OBVIOUS
    <3>1. width - i + 1 \in 1..4
      OBVIOUS
    <3>2. \A w \in {1, 256, 65536, 16777216} : (value \div w) % 256 \in Nat
      BY SMT
    <3>3. Weight[width - i + 1] \in {1, 256, 65536, 16777216}
      BY <2>1, <3>1, SMT
    <3> DEFINE w == Weight[width - i + 1]
    <3> HIDE DEF w
    <3>4. w \in {1, 256, 65536, 16777216}
      BY <3>3 DEF w
    <3>5. (value \div w) % 256 \in Nat
      BY <3>2, <3>4, SMT
    <3> QED  BY <3>5 DEF w
  <2> QED  BY <2>2 DEF BigEndian
<1>2. Utf8(value) \in Seq(Nat)
  <2>1. CASE value < 128
    BY <2>1 DEF Utf8
  <2>2. CASE ~(value < 128)
    <3> DEFINE Enough(k) == (k = 1 \/ value >= Capacity[k - 1]) /\ (k = 6 \/ value < Capacity[k])
               n == Utf8Length(value)
    <3>1. /\ Capacity[1] = 128 /\ Capacity[2] = 2048 /\ Capacity[3] = 65536
          /\ Capacity[4] = 2097152 /\ Capacity[5] = 67108864
      BY SMT DEF Capacity
    <3>2. \E k \in 1..6 : Enough(k)
      <4>1. CASE value < 2048
        BY <2>2, <3>1, <4>1, SMT
      <4>2. CASE value >= 2048 /\ value < 65536
        BY <3>1, <4>2, SMT
      <4>3. CASE value >= 65536 /\ value < 2097152
        BY <3>1, <4>3, SMT
      <4>4. CASE value >= 2097152 /\ value < 67108864
        BY <3>1, <4>4, SMT
      <4>5. CASE value >= 67108864
        BY <3>1, <4>5, SMT
      <4> QED  BY <4>1, <4>2, <4>3, <4>4, <4>5, SMT
    <3>3. n \in 1..6
      BY <3>2, Zenon DEF Utf8Length
    <3> DEFINE first == Lead[n] + (value \div Above[n])
               more == [i \in 1..(n - 1) |-> 128 + ((value \div Above[n - i]) % 64)]
    <3>4. \A k \in 1..6 : Lead[k] \in Nat /\ Above[k] \in Nat \ {0}
      BY SMT DEF Lead, Above
    <3>5. \A w \in Nat \ {0} : value \div w \in Nat /\ (value \div w) % 64 \in Nat
      BY SMT
    <3>6. Utf8(value) = <<first>> \o more
      BY <2>2, Zenon DEF Utf8
    <3> HIDE DEF n
    <3>7. first \in Nat
      <4>1. Lead[n] \in Nat /\ value \div Above[n] \in Nat
        BY <3>3, <3>4, <3>5
      <4> QED  BY <4>1, SMT
    <3>8. more \in Seq(Nat)
      <4>1. \A i \in 1..(n - 1) : 128 + ((value \div Above[n - i]) % 64) \in Nat
        <5> SUFFICES ASSUME NEW i \in 1..(n - 1)
                     PROVE  128 + ((value \div Above[n - i]) % 64) \in Nat
          OBVIOUS
        <5>1. n - i \in 1..6
          BY <3>3, SMT
        <5>2. (value \div Above[n - i]) % 64 \in Nat
          BY <3>4, <3>5, <5>1, Zenon
        <5> QED  BY <5>2, SMT
      <4>2. n - 1 \in Nat
        BY <3>3, SMT
      <4> HIDE DEF more
      <4>3. more = [i \in 1..(n - 1) |-> 128 + ((value \div Above[n - i]) % 64)]
        BY DEF more
      <4> DEFINE entry(i) == 128 + ((value \div Above[n - i]) % 64)
      <4> HIDE DEF entry
      <4>4. more = [i \in 1..(n - 1) |-> entry(i)] /\ \A i \in 1..(n - 1) : entry(i) \in Nat
        BY <4>1, <4>3, Zenon DEF entry
      <4> QED  BY <4>2, <4>4, SMT
    <3> HIDE DEF first, more
    <3>9. <<first>> \in Seq(Nat)
      BY <3>7
    <3> QED  BY <3>6, <3>8, <3>9, JoinType
  <2> QED  BY <2>1, <2>2
<1>3. CASE c.utf8Numbers
  BY <1>2, <1>3 DEF Uint
<1>4. CASE ~c.utf8Numbers
  BY <1>1, <1>4 DEF Uint
<1> QED  BY <1>3, <1>4

-----------------------------------------------------------------------------
(* The lists of tags, as AddTag makes them: a tag, the list of its          *)
(* children and the list it is put before, both made earlier.              *)
NewList(made, tag, children, rest) ==
  [tag |-> tag, children |-> children, rest |-> rest,
   length |-> 1 + made[rest].length,
   tags |-> <<[name |-> tag.name, children |-> made[children].tags, type |-> tag.type, value |-> tag.value]>>
            \o made[rest].tags,
   size |-> 1 + made[children].size + made[rest].size,
   depth |-> IF 1 + made[children].depth > made[rest].depth
             THEN 1 + made[children].depth ELSE made[rest].depth]

(* A list made by putting a tag before another list.                       *)
IsListed(made, i) ==
  /\ IsTag(made[i].tag)
  /\ made[i].children \in 1..(i - 1) /\ made[i].rest \in 1..(i - 1)
  /\ made[i] = NewList(made, made[i].tag, made[i].children, made[i].rest)

(* Its numbers, within the bound of a packet.                              *)
WithinTags(list) ==
  /\ list.length \in Nat /\ list.size \in Nat /\ list.depth \in Nat
  /\ list.length <= list.size /\ list.size <= MaxTags

(* The lists that AddTag makes, from the empty one on.                     *)
WellMade(made) ==
  /\ \E S : made \in Seq(S)
  /\ Len(made) \in Nat \ {0} /\ made[1] = NoTags
  /\ \A i \in 1..Len(made) : WithinTags(made[i])
  /\ \A i \in 2..Len(made) : IsListed(made, i)

(* The bytes of a list, from those of the lists it is made of. *)
BytesOf(bytes, made, i, c) ==
  IF i = 1 THEN <<>>
  ELSE EncodeTag(made[i].tag, made[made[i].children].length, bytes[made[i].children], c)
       \o bytes[made[i].rest]

(* An encoder of the first k lists.                                        *)
EncodesUpTo(f, made, c, k) == f = [i \in 1..k |-> BytesOf(f, made, i, c)]

(* There is an encoder of the lists, each from the ones before it.         *)
LEMMA EncoderExists ==
  ASSUME NEW made, WellMade(made), NEW c
  PROVE  \E f : EncodesUpTo(f, made, c, Len(made))
<1> DEFINE L == Len(made)
           Some(k) == \E f : EncodesUpTo(f, made, c, k)
           Missing == {k \in 1..L : ~Some(k)}
<1>1. L \in Nat \ {0}
  BY DEF WellMade
<1>2. \A i \in 2..L : made[i].children \in 1..(i - 1) /\ made[i].rest \in 1..(i - 1)
  BY DEF WellMade, IsListed
<1> HIDE DEF L
<1>3. Some(1)
  <2> DEFINE f == [i \in 1..1 |-> <<>>]
  <2>1. \A i \in 1..1 : BytesOf(f, made, i, c) = <<>>
    BY DEF BytesOf
  <2>2. f = [i \in 1..1 |-> BytesOf(f, made, i, c)]
    BY <2>1
  <2> HIDE DEF f
  <2>3. EncodesUpTo(f, made, c, 1)
    BY <2>2 DEF EncodesUpTo
  <2> QED  BY <2>3
<1>4. ASSUME NEW k \in 2..L, Some(k - 1)
      PROVE  Some(k)
  <2>1. PICK g : EncodesUpTo(g, made, c, k - 1)
    BY <1>4
  <2> DEFINE h == [i \in 1..k |-> BytesOf(g, made, i, c)]
  <2>2. \A i \in 1..(k - 1) : g[i] = BytesOf(g, made, i, c)
    BY <2>1 DEF EncodesUpTo
  <2>3. \A i \in 1..(k - 1) : h[i] = g[i]
    <3>1. \A i \in 1..(k - 1) : i \in 1..k
      BY <1>1
    <3>2. \A i \in 1..k : h[i] = BytesOf(g, made, i, c)
      OBVIOUS
    <3> QED  BY <2>2, <3>1, <3>2
  <2>4. \A i \in 1..k : BytesOf(g, made, i, c) = BytesOf(h, made, i, c)
    <3> SUFFICES ASSUME NEW i \in 1..k
                 PROVE  BytesOf(g, made, i, c) = BytesOf(h, made, i, c)
      OBVIOUS
    <3>1. CASE i = 1
      BY <3>1 DEF BytesOf
    <3>2. CASE i # 1
      <4>1. i \in 2..L
        BY <1>1, <3>2
      <4>2. made[i].children \in 1..(k - 1) /\ made[i].rest \in 1..(k - 1)
        BY <1>1, <1>2, <4>1
      <4>3. g[made[i].children] = h[made[i].children] /\ g[made[i].rest] = h[made[i].rest]
        BY <2>3, <4>2
      <4> HIDE DEF h
      <4> QED  BY <3>2, <4>3, Zenon DEF BytesOf
    <3> QED  BY <3>1, <3>2
  <2>5. h = [i \in 1..k |-> BytesOf(h, made, i, c)]
    BY <2>4, Zenon
  <2> HIDE DEF h
  <2>6. EncodesUpTo(h, made, c, k)
    BY <2>5 DEF EncodesUpTo
  <2> QED  BY <2>6
<1> HIDE DEF Some
<1>5. Missing = {}
  <2> SUFFICES ASSUME Missing # {} PROVE FALSE
    OBVIOUS
  <2>1. PICK k \in Missing : \A m \in Missing : k <= m
    <3>1. Missing \subseteq Nat
      BY <1>1
    <3> QED  BY <3>1, LeastNumber
  <2>2. k \in 1..L /\ ~Some(k)
    OBVIOUS
  <2>3. k \in 2..L /\ k - 1 \in 1..L /\ ~(k <= k - 1)
    BY <1>1, <1>3, <2>2
  <2> QED  BY <1>4, <2>1, <2>2, <2>3
<1>6. Some(L)
  BY <1>1, <1>5
<1> QED  BY <1>6 DEF Some, L

(* EncodeLists() is that encoder.                                          *)
LEMMA EncodeUnfolds ==
  ASSUME NEW made, WellMade(made), NEW c, NEW i \in 1..Len(made)
  PROVE  EncodeLists(made, c)[i]
           = IF i = 1 THEN <<>>
             ELSE EncodeTag(made[i].tag, made[made[i].children].length,
                            EncodeLists(made, c)[made[i].children], c)
                  \o EncodeLists(made, c)[made[i].rest]
<1> DEFINE f == CHOOSE f : f = [k \in 1..Len(made) |->
                  IF k = 1 THEN <<>>
                  ELSE EncodeTag(made[k].tag, made[made[k].children].length, f[made[k].children], c)
                       \o f[made[k].rest]]
<1> DEFINE Encodes(g) == g = [k \in 1..Len(made) |->
                  IF k = 1 THEN <<>>
                  ELSE EncodeTag(made[k].tag, made[made[k].children].length, g[made[k].children], c)
                       \o g[made[k].rest]]
<1>0. \A g : EncodesUpTo(g, made, c, Len(made)) <=> Encodes(g)
  BY Zenon DEF EncodesUpTo, BytesOf
<1>1. EncodesUpTo(f, made, c, Len(made))
  <2>1. \E g : Encodes(g)
    BY <1>0, EncoderExists, Zenon
  <2>2. Encodes(f)
    BY <2>1, Zenon
  <2> QED  BY <1>0, <2>2, Zenon
<1>2. EncodeLists(made, c) = f
  BY Zenon DEF EncodeLists
<1> HIDE DEF f
<1>3. f[i] = BytesOf(f, made, i, c)
  BY <1>1 DEF EncodesUpTo
<1> QED  BY <1>2, <1>3 DEF BytesOf

(* A tag in its four parts. *)
LEMMA EncodeTagParts ==
  ASSUME NEW tag, NEW n, NEW children, NEW c
  PROVE  EncodeTag(tag, n, children, c)
           = (HeaderField(tag, n, Len(children) + Len(OwnData(tag, c)), c) \o children) \o OwnData(tag, c)
BY Zenon DEF EncodeTag, HeaderField, NameField, CountField, TagLength

(* Four sequences one after another.                                       *)
LEMMA JoinFour ==
  ASSUME NEW S, NEW s \in Seq(S), NEW t \in Seq(S), NEW u \in Seq(S), NEW v \in Seq(S)
  PROVE  /\ ((s \o t) \o u) \o v \in Seq(S)
         /\ Len(((s \o t) \o u) \o v) = Len(s) + Len(t) + Len(u) + Len(v)
<1> DEFINE p == s \o t
           q == p \o u
<1>1. p \in Seq(S) /\ Len(p) = Len(s) + Len(t)
  BY JoinType
<1> HIDE DEF p
<1>2. q \in Seq(S) /\ Len(q) = Len(p) + Len(u)
  BY <1>1, JoinType
<1> HIDE DEF q
<1>3. q \o v \in Seq(S) /\ Len(q \o v) = Len(q) + Len(v)
  BY <1>2, JoinType
<1>4. Len(q \o v) = Len(s) + Len(t) + Len(u) + Len(v)
  BY <1>1, <1>2, <1>3
<1> QED  BY <1>3, <1>4 DEF p, q

(* Bytes are numbers.                                                      *)
LEMMA BytesAreNumbers ==
  ASSUME NEW s \in Seq(Byte)
  PROVE  s \in Seq(Nat)
<1>1. \A b \in Byte : b \in Nat
  BY DEF Byte
<1> QED  BY <1>1

(* The fields are bytes, if the length is one that can be written.         *)
LEMMA HeaderFieldType ==
  ASSUME NEW tag, IsTag(tag), NEW c, NEW n, Childcount(n, c), NEW length \in Nat
  PROVE  /\ HeaderField(tag, n, length, c) \in Seq(Nat) /\ Len(HeaderField(tag, n, length, c)) \in Nat \ {0}
         /\ length \in Integer => HeaderField(tag, n, length, c) \in Seq(Byte)
<1> DEFINE f1 == NameField(tag, n, c)
           f2 == <<TypeCode(tag.type)>>
           f3 == Uint(length, 4, c)
           f4 == CountField(n, c)
<1>1. HeaderField(tag, n, length, c) = ((f1 \o f2) \o f3) \o f4
  BY DEF HeaderField
<1>2. /\ f1 \in Seq(Byte) /\ Len(f1) \in Nat \ {0} /\ f2 \in Seq(Byte)
      /\ f4 \in Seq(Byte) /\ (length \in Integer => f3 \in Seq(Byte))
  <2>1. 0 \in Integer
    BY SMT DEF Integer
  <2> HIDE DEF f1, f2, f3, f4
  <2>2. f1 \in Seq(Byte) /\ Len(f1) \in Nat \ {0} /\ f2 \in Seq(Byte) /\ f4 \in Seq(Byte)
    BY <2>1, HeaderFields DEF f1, f2, f4
  <2>3. length \in Integer => f3 \in Seq(Byte)
    BY HeaderFields DEF f3
  <2> QED  BY <2>2, <2>3
<1>3. f3 \in Seq(Nat)
  BY UintBytes
<1> HIDE DEF f1, f2, f3, f4
<1>4. f1 \in Seq(Nat) /\ f2 \in Seq(Nat) /\ f4 \in Seq(Nat)
  BY <1>2, BytesAreNumbers
<1> DEFINE s == ((f1 \o f2) \o f3) \o f4
<1>5. s \in Seq(Nat) /\ Len(s) = Len(f1) + Len(f2) + Len(f3) + Len(f4)
  BY <1>3, <1>4, JoinFour
<1>6. length \in Integer => s \in Seq(Byte)
  BY <1>2, JoinFour
<1> HIDE DEF s
<1>7. Len(f2) \in Nat /\ Len(f3) \in Nat /\ Len(f4) \in Nat
  BY <1>3, <1>4
<1>8. Len(s) \in Nat \ {0}
  BY <1>2, <1>5, <1>7, SMT
<1> QED  BY <1>1, <1>5, <1>6, <1>8 DEF s

(* A list that may be encoded has a number of tags that a tag may have.    *)
LEMMA ChildcountOfList ==
  ASSUME NEW made, WellMade(made), NEW c, Encodable(made, c), NEW i \in 1..Len(made)
  PROVE  Childcount(made[i].length, c)
<1>1. made[i].length \in Nat /\ made[i].length <= made[i].size /\ made[i].size \in Nat /\ made[i].size <= MaxTags
  BY DEF WellMade, WithinTags
<1>2. MaxTags \in Integer
  BY CodecAssumption, SMT
<1>3. made[i].length < Sentinel \/ c.largeTagCount
  BY DEF Encodable
<1> DEFINE n == made[i].length
<1>4. n \in Integer
  BY <1>1, <1>2, SMT DEF Integer
<1> HIDE DEF n
<1>5. n = 0 \/ n \in Nat \ {0}
  BY <1>1 DEF n
<1>6. n < Sentinel \/ c.largeTagCount
  BY <1>3 DEF n
<1>7. Childcount(n, c)
  BY <1>4, <1>5, <1>6 DEF Childcount, Countable
<1> QED  BY <1>7 DEF n

(* The bytes of a list are bytes, if there are not too many.               *)
HasBytes(s) == s \in Seq(Nat) /\ (Len(s) \in Integer => s \in Seq(Byte))

(* A tag encoded before others: its fields, children and own data.         *)
EncodedIn(tag, c, n, children, rest, data, length, header, all) ==
  /\ IsTag(tag) /\ Childcount(n, c) /\ HasBytes(children) /\ HasBytes(rest)
  /\ data = OwnData(tag, c) /\ length = Len(children) + Len(data)
  /\ header = HeaderField(tag, n, length, c)
  /\ all = EncodeTag(tag, n, children, c) \o rest

(* No part of what is short enough to be written is too long itself.       *)
LEMMA PartsInside ==
  ASSUME NEW tag, NEW c, NEW n, NEW children, NEW rest, NEW data, NEW length, NEW header, NEW all,
         EncodedIn(tag, c, n, children, rest, data, length, header, all)
  PROVE  /\ all = ((header \o children) \o data) \o rest
         /\ HasBytes(all)
         /\ Len(header) \in Nat \ {0} /\ Len(children) \in Nat /\ Len(data) \in Nat /\ Len(rest) \in Nat
         /\ Len(all) = Len(header) + Len(children) + Len(data) + Len(rest)
         /\ Len(all) \in Integer =>
              /\ length \in Integer /\ Len(children) \in Integer /\ Len(rest) \in Integer
              /\ header \in Seq(Byte) /\ children \in Seq(Byte) /\ data \in Seq(Byte) /\ rest \in Seq(Byte)
<1>0. /\ IsTag(tag) /\ Childcount(n, c) /\ HasBytes(children) /\ HasBytes(rest)
      /\ data = OwnData(tag, c) /\ length = Len(children) + Len(data)
      /\ header = HeaderField(tag, n, length, c)
      /\ all = EncodeTag(tag, n, children, c) \o rest
  BY Zenon DEF EncodedIn
<1>1. all = ((header \o children) \o data) \o rest
  BY <1>0, EncodeTagParts, Zenon
<1>2. data \in Seq(Byte) /\ data \in Seq(Nat) /\ Len(data) \in Nat
  BY <1>0, OwnDataType, BytesAreNumbers
<1>3. children \in Seq(Nat) /\ rest \in Seq(Nat) /\ Len(children) \in Nat /\ Len(rest) \in Nat
  BY <1>0 DEF HasBytes
<1>4. length \in Nat
  BY <1>0, <1>2, <1>3
<1>5. header \in Seq(Nat) /\ Len(header) \in Nat \ {0} /\ (length \in Integer => header \in Seq(Byte))
  BY <1>0, <1>4, HeaderFieldType
<1>6. all \in Seq(Nat) /\ Len(all) = Len(header) + Len(children) + Len(data) + Len(rest)
  BY <1>1, <1>2, <1>3, <1>5, JoinFour
<1>7. Len(all) \in Integer => length \in Integer /\ Len(children) \in Integer /\ Len(rest) \in Integer
  BY <1>0, <1>2, <1>3, <1>5, <1>6, SMT DEF Integer
<1>8. Len(all) \in Integer => header \in Seq(Byte) /\ children \in Seq(Byte) /\ data \in Seq(Byte) /\ rest \in Seq(Byte)
  BY <1>0, <1>2, <1>5, <1>7 DEF HasBytes
<1>9. Len(all) \in Integer => all \in Seq(Byte)
  BY <1>1, <1>8, JoinFour
<1>10. HasBytes(all)
  BY <1>6, <1>9 DEF HasBytes
<1> QED  BY <1>1, <1>2, <1>3, <1>5, <1>6, <1>7, <1>8, <1>10

(* So has every list.                                                      *)
LEMMA ListHasBytes ==
  ASSUME NEW made, WellMade(made), NEW c, Encodable(made, c)
  PROVE  \A i \in 1..Len(made) : HasBytes(EncodeLists(made, c)[i])
<1> DEFINE enc == EncodeLists(made, c)
           L == Len(made)
           Missing == {i \in 1..L : ~HasBytes(enc[i])}
<1>1. L \in Nat \ {0}
  BY DEF WellMade
<1> HIDE DEF L
<1>2. SUFFICES ASSUME Missing # {} PROVE FALSE
  BY DEF L
<1>3. PICK i \in Missing : \A m \in Missing : i <= m
  <2>1. Missing \subseteq Nat
    BY <1>1
  <2> QED  BY <1>2, <2>1, LeastNumber
<1>4. i \in 1..L /\ ~HasBytes(enc[i])
  OBVIOUS
<1>5. \A k \in 1..(i - 1) : HasBytes(enc[k])
  BY <1>1, <1>3, <1>4
<1> HIDE DEF enc
<1>6. CASE i = 1
  <2>1. enc[i] = <<>>
    BY <1>4, <1>6, EncodeUnfolds DEF enc, L
  <2>2. <<>> \in Seq(Nat) /\ <<>> \in Seq(Byte)
    BY EmptySeq
  <2> QED  BY <1>4, <2>1, <2>2 DEF HasBytes
<1>7. CASE i # 1
  <2> DEFINE k == made[i].children
             j == made[i].rest
             tag == made[i].tag
             n == made[k].length
  <2>1. i \in 2..L
    BY <1>1, <1>4, <1>7
  <2>2. k \in 1..(i - 1) /\ j \in 1..(i - 1) /\ IsTag(tag)
    BY <2>1 DEF WellMade, IsListed, L
  <2>3. HasBytes(enc[k]) /\ HasBytes(enc[j])
    BY <1>5, <2>2
  <2>4. k \in 1..L
    BY <1>1, <1>4, <2>2
  <2>5. Childcount(n, c)
    BY <2>4, ChildcountOfList DEF L
  <2>6. enc[i] = EncodeTag(tag, n, enc[k], c) \o enc[j]
    BY <1>4, <1>7, EncodeUnfolds DEF enc, L
  <2> DEFINE data == OwnData(tag, c)
             length == Len(enc[k]) + Len(data)
             header == HeaderField(tag, n, length, c)
             all == EncodeTag(tag, n, enc[k], c) \o enc[j]
  <2>7. HasBytes(all)
    <3> HIDE DEF k, j, tag, n
    <3>1. EncodedIn(tag, c, n, enc[k], enc[j], data, length, header, all)
      BY <2>2, <2>3, <2>5, Zenon DEF EncodedIn
    <3> HIDE DEF data, length, header, all
    <3> QED  BY <3>1, PartsInside
  <2> HIDE DEF k, j, tag, n
  <2> QED  BY <1>4, <2>6, <2>7
<1> QED  BY <1>6, <1>7

-----------------------------------------------------------------------------
(* A list read back. *)
IsLimits(limits) == limits.maxDepth \in Nat /\ limits.maxTagCount \in Nat

(* What readTag() refuses: a list past a limit, where it is read.          *)
TooMuch(list, place, limits) ==
  /\ list.size > 0
  /\ place.depth + list.depth > limits.maxDepth \/ place.count + list.size > limits.maxTagCount

(* The fields of a list, one by one.                                       *)
HasFields(list, made, tag, k, j) ==
  /\ list.tag = tag /\ list.children = k /\ list.rest = j
  /\ list.length = 1 + made[j].length
  /\ list.tags = <<[name |-> tag.name, children |-> made[k].tags, type |-> tag.type, value |-> tag.value]>>
                 \o made[j].tags
  /\ list.size = 1 + made[k].size + made[j].size
  /\ list.depth = IF 1 + made[k].depth > made[j].depth THEN 1 + made[k].depth ELSE made[j].depth

(* A list just made has them.                                              *)
LEMMA NewListFields ==
  ASSUME NEW made, NEW tag, NEW k, NEW j
  PROVE  HasFields(NewList(made, tag, k, j), made, tag, k, j)
<1> DEFINE list == NewList(made, tag, k, j)
           length == 1 + made[j].length
           tags == <<[name |-> tag.name, children |-> made[k].tags, type |-> tag.type, value |-> tag.value]>>
                   \o made[j].tags
           size == 1 + made[k].size + made[j].size
           depth == IF 1 + made[k].depth > made[j].depth THEN 1 + made[k].depth ELSE made[j].depth
<1>1. list = [tag |-> tag, children |-> k, rest |-> j,
              length |-> length, tags |-> tags, size |-> size, depth |-> depth]
  BY DEF NewList
<1> HIDE DEF list, length, tags, size, depth
<1>2. /\ list.tag = tag /\ list.children = k /\ list.rest = j /\ list.length = length
      /\ list.tags = tags /\ list.size = size /\ list.depth = depth
  BY <1>1
<1> QED  BY <1>2, Zenon DEF HasFields, list, length, tags, size, depth

(* So has each of the lists, but the empty one.                            *)
LEMMA ListFields ==
  ASSUME NEW made, WellMade(made), NEW i \in 2..Len(made)
  PROVE  /\ made[i].children \in 1..(i - 1) /\ made[i].rest \in 1..(i - 1) /\ IsTag(made[i].tag)
         /\ made[i].length = 1 + made[made[i].rest].length
         /\ made[i].tags = <<[name |-> made[i].tag.name, children |-> made[made[i].children].tags,
                              type |-> made[i].tag.type, value |-> made[i].tag.value]>>
                           \o made[made[i].rest].tags
         /\ made[i].size = 1 + made[made[i].children].size + made[made[i].rest].size
         /\ made[i].depth = IF 1 + made[made[i].children].depth > made[made[i].rest].depth
                            THEN 1 + made[made[i].children].depth ELSE made[made[i].rest].depth
<1>1. /\ made[i].children \in 1..(i - 1) /\ made[i].rest \in 1..(i - 1) /\ IsTag(made[i].tag)
      /\ made[i] = NewList(made, made[i].tag, made[i].children, made[i].rest)
  BY DEF WellMade, IsListed
<1> DEFINE tag == made[i].tag
           k == made[i].children
           j == made[i].rest
           list == NewList(made, tag, k, j)
<1>2. HasFields(list, made, tag, k, j) /\ list = made[i]
  BY <1>1, NewListFields
<1> HIDE DEF list
<1>3. HasFields(made[i], made, tag, k, j)
  BY <1>2, Zenon
<1> QED  BY <1>1, <1>3, Zenon DEF HasFields

(* Their types, and those of the empty list.                               *)
LEMMA ListTypes ==
  ASSUME NEW made, WellMade(made), NEW i \in 1..Len(made)
  PROVE  /\ made[i].length \in Nat /\ made[i].size \in Nat /\ made[i].depth \in Nat
         /\ made[i].size = 0 => made[i].depth = 0
         /\ i = 1 => made[i].length = 0 /\ made[i].size = 0 /\ made[i].tags = <<>>
<1>1. made[i].length \in Nat /\ made[i].size \in Nat /\ made[i].depth \in Nat
  BY DEF WellMade, WithinTags
<1>2. CASE i = 1
  <2>1. made[i] = NoTags
    BY <1>2 DEF WellMade
  <2> QED  BY <1>1, <2>1 DEF NoTags
<1>3. CASE i # 1
  <2>1. Len(made) \in Nat
    BY DEF WellMade
  <2>2. i \in 2..Len(made)
    BY <1>3, <2>1
  <2>3. /\ made[i].size = 1 + made[made[i].children].size + made[made[i].rest].size
        /\ made[i].children \in 1..(i - 1) /\ made[i].rest \in 1..(i - 1)
    BY <2>2, ListFields
  <2>4. made[i].children \in 1..Len(made) /\ made[i].rest \in 1..Len(made)
    BY <2>1, <2>2, <2>3
  <2>5. made[made[i].children].size \in Nat /\ made[made[i].rest].size \in Nat
    BY <2>4 DEF WellMade, WithinTags
  <2>6. made[i].size # 0
    <3> DEFINE s == made[i].size
               a == made[made[i].children].size
               b == made[made[i].rest].size
    <3>1. s = 1 + a + b /\ a \in Nat /\ b \in Nat
      BY <2>3, <2>5
    <3> HIDE DEF s, a, b
    <3>2. s # 0
      BY <3>1, SMT
    <3> QED  BY <3>2 DEF s
  <2> QED  BY <1>1, <1>3, <2>6
<1> QED  BY <1>2, <1>3

(* Four things written one after another, each at its place.               *)
WrittenAt(bytes, at, S, s, t, u, v, all, at1, at2, at3) ==
  /\ Len(bytes) \in Nat /\ at \in Nat \ {0}
  /\ s \in Seq(S) /\ t \in Seq(S) /\ u \in Seq(S) /\ v \in Seq(S)
  /\ all = ((s \o t) \o u) \o v /\ Agrees(bytes, at, all)
  /\ at1 = at + Len(s) /\ at2 = at1 + Len(t) /\ at3 = at2 + Len(u)

(* Each of the four is whole if the next one is.                           *)
LEMMA FourParts ==
  ASSUME NEW bytes, NEW at, NEW S, NEW s, NEW t, NEW u, NEW v, NEW all, NEW at1, NEW at2, NEW at3,
         WrittenAt(bytes, at, S, s, t, u, v, all, at1, at2, at3)
  PROVE  /\ at1 \in Nat \ {0} /\ at2 \in Nat \ {0} /\ at3 \in Nat \ {0} /\ at + Len(all) = at3 + Len(v)
         /\ Agrees(bytes, at, s) /\ Agrees(bytes, at1, t) /\ Agrees(bytes, at2, u) /\ Agrees(bytes, at3, v)
         /\ Whole(bytes, at, all) <=> Whole(bytes, at3, v)
         /\ Whole(bytes, at3, v) => Whole(bytes, at2, u)
         /\ Whole(bytes, at2, u) => Whole(bytes, at1, t)
         /\ Whole(bytes, at1, t) => Whole(bytes, at, s)
         /\ Len(t) = 0 => (Whole(bytes, at, s) => Whole(bytes, at1, t))
         /\ Len(v) = 0 => (Whole(bytes, at2, u) => Whole(bytes, at3, v))
<1>0. /\ Len(bytes) \in Nat /\ at \in Nat \ {0}
      /\ s \in Seq(S) /\ t \in Seq(S) /\ u \in Seq(S) /\ v \in Seq(S)
      /\ all = ((s \o t) \o u) \o v /\ Agrees(bytes, at, all)
      /\ at1 = at + Len(s) /\ at2 = at1 + Len(t) /\ at3 = at2 + Len(u)
  BY DEF WrittenAt
<1> DEFINE p == s \o t
           q == p \o u
<1>1. s \in Seq(S) /\ t \in Seq(S) /\ u \in Seq(S) /\ v \in Seq(S)
      /\ Len(s) \in Nat /\ Len(t) \in Nat /\ Len(u) \in Nat /\ Len(v) \in Nat
  BY <1>0
<1>2. p \in Seq(S) /\ Len(p) = Len(s) + Len(t)
  BY <1>1, JoinType
<1>3. p = s \o t
  OBVIOUS
<1> HIDE DEF p
<1>4. q \in Seq(S) /\ Len(q) = Len(p) + Len(u)
  BY <1>1, <1>2, JoinType
<1>5. q = p \o u /\ all = q \o v
  BY <1>0, Zenon DEF p
<1> HIDE DEF q
<1>6. Len(all) = Len(q) + Len(v)
  BY <1>1, <1>4, <1>5, JoinType
<1>7. /\ at1 \in Nat \ {0} /\ at2 \in Nat \ {0} /\ at3 \in Nat \ {0}
      /\ at + Len(all) = at3 + Len(v) /\ at + Len(p) = at2 /\ at + Len(q) = at3
  <2>1. at \in Nat \ {0} /\ at1 = at + Len(s) /\ at2 = at1 + Len(t) /\ at3 = at2 + Len(u)
    BY <1>0, Zenon
  <2> DEFINE a == Len(s)
             b == Len(t)
             x == Len(u)
             y == Len(v)
             lp == Len(p)
             lq == Len(q)
             la == Len(all)
  <2>2. /\ a \in Nat /\ b \in Nat /\ x \in Nat /\ y \in Nat /\ lp = a + b /\ lq = lp + x /\ la = lq + y
        /\ at1 = at + a /\ at2 = at1 + b /\ at3 = at2 + x
    BY <1>1, <1>2, <1>4, <1>6, <2>1, Zenon
  <2> HIDE DEF a, b, x, y, lp, lq, la
  <2>3. /\ at1 \in Nat \ {0} /\ at2 \in Nat \ {0} /\ at3 \in Nat \ {0}
        /\ at + la = at3 + y /\ at + lp = at2 /\ at + lq = at3
    BY <2>1, <2>2, SMT
  <2> QED  BY <2>3 DEF y, la, lp, lq
<1>8. /\ Agrees(bytes, at, q) /\ Agrees(bytes, at3, v)
      /\ (Whole(bytes, at, all) <=> Whole(bytes, at3, v)) /\ (Whole(bytes, at, all) => Whole(bytes, at, q))
  <2>1. Agrees(bytes, at, q \o v) /\ Len(bytes) \in Nat /\ at \in Nat \ {0}
    BY <1>0, <1>5, Zenon
  <2>2. /\ Agrees(bytes, at, q) /\ Agrees(bytes, at + Len(q), v)
        /\ (Whole(bytes, at, q \o v) <=> Whole(bytes, at + Len(q), v))
        /\ (Whole(bytes, at, q \o v) => Whole(bytes, at, q))
    BY <1>1, <1>4, <2>1, AgreesParts
  <2> QED  BY <1>5, <1>7, <2>2, Zenon
<1>9. /\ Agrees(bytes, at, p) /\ Agrees(bytes, at2, u)
      /\ (Whole(bytes, at, q) <=> Whole(bytes, at2, u)) /\ (Whole(bytes, at, q) => Whole(bytes, at, p))
  <2>1. Agrees(bytes, at, p \o u) /\ Len(bytes) \in Nat /\ at \in Nat \ {0}
    BY <1>0, <1>5, <1>8, Zenon
  <2>2. /\ Agrees(bytes, at, p) /\ Agrees(bytes, at + Len(p), u)
        /\ (Whole(bytes, at, p \o u) <=> Whole(bytes, at + Len(p), u))
        /\ (Whole(bytes, at, p \o u) => Whole(bytes, at, p))
    BY <1>1, <1>2, <2>1, AgreesParts
  <2> QED  BY <1>5, <1>7, <2>2, Zenon
<1>10. /\ Agrees(bytes, at, s) /\ Agrees(bytes, at1, t)
       /\ (Whole(bytes, at, p) <=> Whole(bytes, at1, t)) /\ (Whole(bytes, at, p) => Whole(bytes, at, s))
  <2>1. Agrees(bytes, at, s \o t) /\ Len(bytes) \in Nat /\ at \in Nat \ {0} /\ at1 = at + Len(s)
    BY <1>0, <1>3, <1>9, Zenon
  <2>2. /\ Agrees(bytes, at, s) /\ Agrees(bytes, at + Len(s), t)
        /\ (Whole(bytes, at, s \o t) <=> Whole(bytes, at + Len(s), t))
        /\ (Whole(bytes, at, s \o t) => Whole(bytes, at, s))
    BY <1>1, <2>1, AgreesParts
  <2> QED  BY <1>3, <2>1, <2>2, Zenon
<1>11. Len(t) = 0 => (Whole(bytes, at, s) => Whole(bytes, at1, t))
  <2>1. at \in Nat /\ Len(bytes) \in Nat /\ at1 = at + Len(s) /\ Len(s) \in Nat
    BY <1>0, <1>1
  <2>2. Len(t) = 0 => (at + Len(s) - 1 <= Len(bytes) => at1 + Len(t) - 1 <= Len(bytes))
    BY <2>1
  <2> QED  BY <2>2 DEF Whole
<1>12. Len(v) = 0 => (Whole(bytes, at2, u) => Whole(bytes, at3, v))
  <2>1. at2 \in Nat /\ Len(bytes) \in Nat /\ at3 = at2 + Len(u) /\ Len(u) \in Nat
    BY <1>0, <1>1, <1>7
  <2>2. Len(v) = 0 => (at2 + Len(u) - 1 <= Len(bytes) => at3 + Len(v) - 1 <= Len(bytes))
    BY <2>1
  <2> QED  BY <2>2 DEF Whole
<1> QED  BY <1>7, <1>8, <1>9, <1>10, <1>11, <1>12, Zenon

(* A list reads back from any place it is written at, within the limits    *)
(* there; cut anywhere, it is refused.                                     *)
ReadsBack(made, c, bytes, limits, i) ==
  \A place \in Place :
    place.n = made[i].length /\ Agrees(bytes, place.at, EncodeLists(made, c)[i]) =>
      /\ Whole(bytes, place.at, EncodeLists(made, c)[i]) =>
           ReadTags(bytes, limits, c)[place]
             = IF TooMuch(made[i], place, limits) THEN Failed
               ELSE [next |-> place.at + Len(EncodeLists(made, c)[i]),
                     count |-> place.count + made[i].size, tags |-> made[i].tags]
      /\ ~Whole(bytes, place.at, EncodeLists(made, c)[i]) /\ i # 1 =>
           ReadTags(bytes, limits, c)[place] = Failed

(* The empty list is read without a byte.                                  *)
LEMMA NoTagsReadBack ==
  ASSUME NEW made, WellMade(made), NEW c, NEW bytes \in Seq(Byte), NEW limits
  PROVE  ReadsBack(made, c, bytes, limits, 1)
<1> DEFINE enc == EncodeLists(made, c)[1]
           f == ReadTags(bytes, limits, c)
<1>1. 1 \in 1..Len(made)
  BY DEF WellMade
<1>2. enc = <<>> /\ Len(enc) = 0
  BY <1>1, EncodeUnfolds
<1>3. made[1].length = 0 /\ made[1].size = 0 /\ made[1].tags = <<>>
  BY <1>1, ListTypes
<1>4. ASSUME NEW place \in Place, place.n = 0
      PROVE  f[place] = [next |-> place.at + Len(enc), count |-> place.count + made[1].size, tags |-> made[1].tags]
  <2>1. f[place] = Reading(f, bytes, place, limits, c)
    BY ReadTagsUnfolds
  <2>2. f[place] = [next |-> place.at, count |-> place.count, tags |-> <<>>]
    BY <1>4, <2>1, Zenon DEF Reading, TagRead, OwnOf
  <2>3. place.at + 0 = place.at /\ place.count + 0 = place.count
    BY DEF Place
  <2> QED  BY <1>2, <1>3, <2>2, <2>3
<1>5. \A place : ~TooMuch(made[1], place, limits)
  BY <1>3 DEF TooMuch
<1> HIDE DEF enc, f
<1> QED  BY <1>3, <1>4, <1>5 DEF ReadsBack, enc, f

(* If the lists it is made of are read back, so is a list.                 *)
LEMMA ListReadsBack ==
  ASSUME NEW made, NEW c, NEW bytes, NEW limits, NEW i
  PROVE  /\ WellMade(made) /\ Encodable(made, c) /\ bytes \in Seq(Byte) /\ IsLimits(limits)
         /\ i \in 2..Len(made) /\ Len(EncodeLists(made, c)[i]) \in Integer
         /\ \A m \in 1..(i - 1) :
              Len(EncodeLists(made, c)[m]) \in Integer => ReadsBack(made, c, bytes, limits, m)
         => ReadsBack(made, c, bytes, limits, i)
<1>0. SUFFICES ASSUME WellMade(made), Encodable(made, c), bytes \in Seq(Byte), IsLimits(limits),
                      i \in 2..Len(made), Len(EncodeLists(made, c)[i]) \in Integer,
                      \A m \in 1..(i - 1) :
                        Len(EncodeLists(made, c)[m]) \in Integer => ReadsBack(made, c, bytes, limits, m)
               PROVE  ReadsBack(made, c, bytes, limits, i)
  BY Zenon
<1> DEFINE enc == EncodeLists(made, c)
           f == ReadTags(bytes, limits, c)
           k == made[i].children
           j == made[i].rest
           tag == made[i].tag
           n == made[k].length
           E == enc[k]
           R == enc[j]
           D == OwnData(tag, c)
           len == Len(E) + Len(D)
           H == HeaderField(tag, n, len, c)
           all == ((H \o E) \o D) \o R
<1>1. k \in 1..(i - 1) /\ j \in 1..(i - 1) /\ IsTag(tag)
  BY <1>0, ListFields
<1>2. k \in 1..Len(made) /\ j \in 1..Len(made) /\ i \in 1..Len(made)
  <2>1. Len(made) \in Nat /\ i \in 2..Len(made)
    BY <1>0 DEF WellMade
  <2> HIDE DEF k, j
  <2> QED  BY <1>1, <2>1
<1>3. HasBytes(E) /\ HasBytes(R) /\ Childcount(n, c)
  BY <1>0, <1>2, ListHasBytes, ChildcountOfList
<1>4. enc[i] = EncodeTag(tag, n, E, c) \o R
  <2>1. i # 1
    BY <1>0
  <2> QED  BY <1>0, <1>2, <2>1, EncodeUnfolds
<1>5. /\ enc[i] = all
      /\ Len(H) \in Nat \ {0} /\ Len(E) \in Nat /\ Len(D) \in Nat /\ Len(R) \in Nat
      /\ Len(all) = Len(H) + Len(E) + Len(D) + Len(R)
      /\ len \in Integer /\ Len(E) \in Integer /\ Len(R) \in Integer
      /\ H \in Seq(Byte) /\ E \in Seq(Byte) /\ D \in Seq(Byte) /\ R \in Seq(Byte)
  <2>1. Len(EncodeTag(tag, n, E, c) \o R) \in Integer
    BY <1>0, <1>4
  <2> DEFINE whole == EncodeTag(tag, n, E, c) \o R
  <2>0. /\ D = OwnData(tag, c) /\ len = Len(E) + Len(D) /\ H = HeaderField(tag, n, len, c)
        /\ whole = EncodeTag(tag, n, E, c) \o R /\ all = ((H \o E) \o D) \o R
    OBVIOUS
  <2> HIDE DEF enc, k, j, tag, n, E, R, whole, all, len, H, D
  <2>2. /\ whole = all
        /\ Len(H) \in Nat \ {0} /\ Len(E) \in Nat /\ Len(D) \in Nat /\ Len(R) \in Nat
        /\ Len(whole) = Len(H) + Len(E) + Len(D) + Len(R)
        /\ Len(whole) \in Integer =>
             /\ len \in Integer /\ Len(E) \in Integer /\ Len(R) \in Integer
             /\ H \in Seq(Byte) /\ E \in Seq(Byte) /\ D \in Seq(Byte) /\ R \in Seq(Byte)
    <3>1. EncodedIn(tag, c, n, E, R, D, len, H, whole)
      BY <1>1, <1>3, <2>0, Zenon DEF EncodedIn
    <3>2. whole = ((H \o E) \o D) \o R
      BY <3>1, PartsInside, SMT
    <3>3. /\ Len(H) \in Nat \ {0} /\ Len(E) \in Nat /\ Len(D) \in Nat /\ Len(R) \in Nat
          /\ Len(whole) = Len(H) + Len(E) + Len(D) + Len(R)
      BY <3>1, PartsInside, SMT
    <3>4. Len(whole) \in Integer =>
            /\ len \in Integer /\ Len(E) \in Integer /\ Len(R) \in Integer
            /\ H \in Seq(Byte) /\ E \in Seq(Byte) /\ D \in Seq(Byte) /\ R \in Seq(Byte)
      BY <3>1, PartsInside, Zenon
    <3> QED  BY <2>0, <3>2, <3>3, <3>4, Zenon
  <2>3. enc[i] = whole /\ Len(whole) \in Integer
    BY <1>4, <2>0, <2>1, Zenon
  <2> QED  BY <2>2, <2>3
<1>6. ReadsBack(made, c, bytes, limits, k) /\ ReadsBack(made, c, bytes, limits, j)
  BY <1>0, <1>1, <1>5
<1>7. /\ made[i].length = 1 + made[j].length /\ made[i].size = 1 + made[k].size + made[j].size
      /\ made[i].tags = <<[name |-> tag.name, children |-> made[k].tags, type |-> tag.type, value |-> tag.value]>>
                        \o made[j].tags
      /\ made[i].depth = IF 1 + made[k].depth > made[j].depth THEN 1 + made[k].depth ELSE made[j].depth
  BY <1>0, ListFields
<1>8. /\ made[k].size \in Nat /\ made[k].depth \in Nat /\ (made[k].size = 0 => made[k].depth = 0)
      /\ made[j].size \in Nat /\ made[j].depth \in Nat /\ (made[j].size = 0 => made[j].depth = 0)
      /\ made[k].length \in Nat /\ made[j].length \in Nat
  BY <1>0, <1>2, ListTypes
<1>9. (k = 1 => E = <<>> /\ Len(E) = 0) /\ (j = 1 => R = <<>> /\ Len(R) = 0)
  <2>1. \A m \in 1..Len(made) : m = 1 => enc[m] = <<>>
    BY <1>0, EncodeUnfolds
  <2> QED  BY <1>2, <2>1
<1>10. Len(bytes) \in Nat /\ bytes \in Seq(Byte) /\ IsLimits(limits)
  BY <1>0
<1>29. len = Len(E) + Len(D) /\ D = OwnData(tag, c)
  OBVIOUS
<1> HIDE DEF enc, k, j, tag, E, R, D, len, H, all, n
<1>11. SUFFICES ASSUME NEW place \in Place, place.n = made[i].length, Agrees(bytes, place.at, all)
                PROVE  /\ Whole(bytes, place.at, all) =>
                            f[place] = IF TooMuch(made[i], place, limits) THEN Failed
                                       ELSE [next |-> place.at + Len(all), count |-> place.count + made[i].size,
                                             tags |-> made[i].tags]
                       /\ ~Whole(bytes, place.at, all) => f[place] = Failed
  BY <1>5, Zenon DEF ReadsBack, enc
<1> DEFINE at == place.at
           at1 == at + Len(H)
           at2 == at1 + Len(E)
           at3 == at2 + Len(D)
<1>12. at \in Nat \ {0} /\ place.n \in Nat /\ place.depth \in Nat /\ place.count \in Nat
  BY DEF Place
<1>13. all = ((H \o E) \o D) \o R /\ Agrees(bytes, at, all)
       /\ H \in Seq(Byte) /\ E \in Seq(Byte) /\ D \in Seq(Byte) /\ R \in Seq(Byte)
  BY <1>5, <1>11 DEF all
<1>14. at1 = at + Len(H) /\ at2 = at1 + Len(E) /\ at3 = at2 + Len(D) /\ at = place.at
  OBVIOUS
<1> HIDE DEF at, at1, at2, at3
<1>15. /\ at1 \in Nat \ {0} /\ at2 \in Nat \ {0} /\ at3 \in Nat \ {0} /\ at + Len(all) = at3 + Len(R)
       /\ Agrees(bytes, at, H) /\ Agrees(bytes, at1, E) /\ Agrees(bytes, at2, D) /\ Agrees(bytes, at3, R)
       /\ (Whole(bytes, at, all) <=> Whole(bytes, at3, R))
       /\ (Whole(bytes, at3, R) => Whole(bytes, at2, D))
       /\ (Whole(bytes, at2, D) => Whole(bytes, at1, E))
       /\ (Whole(bytes, at1, E) => Whole(bytes, at, H))
       /\ (Len(E) = 0 => (Whole(bytes, at, H) => Whole(bytes, at1, E)))
       /\ (Len(R) = 0 => (Whole(bytes, at2, D) => Whole(bytes, at3, R)))
  <2>1. WrittenAt(bytes, at, Byte, H, E, D, R, all, at1, at2, at3)
    BY <1>10, <1>12, <1>13, <1>14, Zenon DEF WrittenAt
  <2> QED  BY <2>1, FourParts
<1> DEFINE head == Header(bytes, place, limits, c)
           expected == [next |-> at1, n |-> n, name |-> tag.name, code |-> TypeCode(tag.type), length |-> len]
<1>23. IF Exceeds(place, limits) THEN head = Failed
       ELSE IF Whole(bytes, at, H) THEN head = expected
       ELSE head = Failed \/ head.next > Len(bytes) + 1
  BY <1>1, <1>3, <1>5, <1>10, <1>14, <1>15, HeaderReadsBack DEF H
<1>24. place.n # 0
  BY <1>7, <1>8, <1>11
<1> DEFINE inner(p) == f[Inside(place, p)]
           Own(p, r) == OwnValue(bytes, r.next, p.length - (r.next - p.next), p.code, c)
           Rest(p, r) == f[After(place, Own(p, r), r)]
           Tag(p, r) == [name |-> p.name, children |-> r.tags, type |-> Own(p, r).type, value |-> Own(p, r).value]
           Read(p, r) == IF r = Failed THEN Failed
                         ELSE IF Own(p, r) = Failed THEN Failed
                         ELSE IF Rest(p, r) = Failed THEN Failed
                         ELSE [next |-> Rest(p, r).next, count |-> Rest(p, r).count,
                               tags |-> <<Tag(p, r)>> \o Rest(p, r).tags]
<1>25. f[place] = IF head = Failed THEN Failed ELSE Read(head, inner(head))
  <2>1. f[place] = Reading(f, bytes, place, limits, c)
    BY <1>10, ReadTagsUnfolds
  <2> HIDE DEF f
  <2> QED  BY <1>24, <2>1, Zenon DEF Reading, TagRead, OwnOf
<1> DEFINE much == TooMuch(made[i], place, limits)
           p1 == [at |-> at1, n |-> n, depth |-> place.depth + 1, count |-> place.count + 1]
           p3 == [at |-> at3, n |-> made[j].length, depth |-> place.depth, count |-> place.count + 1 + made[k].size]
<1>26. much <=> Exceeds(place, limits) \/ TooMuch(made[k], p1, limits) \/ TooMuch(made[j], p3, limits)
  <2>0. /\ place.depth \in Nat /\ place.count \in Nat /\ made[k].size \in Nat /\ made[k].depth \in Nat
        /\ made[j].size \in Nat /\ made[j].depth \in Nat
        /\ (made[k].size = 0 => made[k].depth = 0) /\ (made[j].size = 0 => made[j].depth = 0)
    BY <1>8, <1>12
  <2>1. p1.depth = place.depth + 1 /\ p1.count = place.count + 1
    OBVIOUS
  <2>2. p3.depth = place.depth /\ p3.count = place.count + 1 + made[k].size
    OBVIOUS
  <2> HIDE DEF p1, p3
  <2>3. limits.maxDepth \in Nat /\ limits.maxTagCount \in Nat
    BY <1>10 DEF IsLimits
  <2>4. /\ made[i].size = 1 + made[k].size + made[j].size
        /\ made[i].depth = IF 1 + made[k].depth > made[j].depth THEN 1 + made[k].depth ELSE made[j].depth
    BY <1>7
  <2> DEFINE maxD == limits.maxDepth
             maxC == limits.maxTagCount
             d == place.depth
             m == place.count
             sk == made[k].size
             dk == made[k].depth
             sj == made[j].size
             dj == made[j].depth
             s == made[i].size
             dd == made[i].depth
  <2> HIDE DEF maxD, maxC, d, m, sk, dk, sj, dj, s, dd
  <2>5. (s > 0 /\ (d + dd > maxD \/ m + s > maxC))
          <=> \/ m + 1 > maxC \/ d >= maxD
              \/ sk > 0 /\ (d + 1 + dk > maxD \/ m + 1 + sk > maxC)
              \/ sj > 0 /\ (d + dj > maxD \/ m + 1 + sk + sj > maxC)
    <3>1. /\ maxD \in Nat /\ maxC \in Nat /\ d \in Nat /\ m \in Nat
          /\ sk \in Nat /\ dk \in Nat /\ sj \in Nat /\ dj \in Nat
          /\ (sk = 0 => dk = 0) /\ (sj = 0 => dj = 0)
          /\ s = 1 + sk + sj /\ dd = IF 1 + dk > dj THEN 1 + dk ELSE dj
      BY <2>0, <2>3, <2>4 DEF maxD, maxC, d, m, sk, dk, sj, dj, s, dd
    <3> QED  BY <3>1, SMT
  <2>6. TooMuch(made[k], p1, limits) <=> sk > 0 /\ (d + 1 + dk > maxD \/ m + 1 + sk > maxC)
    BY <2>1, Zenon DEF TooMuch, maxD, maxC, d, m, sk, dk
  <2>7. TooMuch(made[j], p3, limits) <=> sj > 0 /\ (d + dj > maxD \/ m + 1 + sk + sj > maxC)
    BY <2>2, Zenon DEF TooMuch, maxD, maxC, d, m, sj, dj, sk
  <2>8. much <=> s > 0 /\ (d + dd > maxD \/ m + s > maxC)
    BY Zenon DEF TooMuch, maxD, maxC, d, m, s, dd
  <2>9. Exceeds(place, limits) <=> (m + 1 > maxC \/ d >= maxD)
    BY Zenon DEF Exceeds, maxD, maxC, d, m
  <2> HIDE DEF much
  <2> QED  BY <2>5, <2>6, <2>7, <2>8, <2>9, Zenon
<1> HIDE DEF much
<1>27. CASE head = Failed \/ head.next > Len(bytes) + 1
  <2>1. f[place] = Failed
    BY <1>10, <1>24, <1>27, RunsOutFails
  <2>2. Whole(bytes, place.at, all) => much
    <3> SUFFICES ASSUME Whole(bytes, place.at, all), ~Exceeds(place, limits) PROVE FALSE
      BY <1>26
    <3>1. head = expected
      BY <1>14, <1>15, <1>23
    <3> HIDE DEF head
    <3>2. head.next = at1
      BY <3>1
    <3>3. head # Failed
      BY <1>15, <3>2 DEF Failed
    <3>4. at + Len(H) - 1 <= Len(bytes)
      BY <1>14, <1>15 DEF Whole
    <3>5. at \in Nat /\ at1 = at + Len(H) /\ Len(H) \in Nat /\ Len(bytes) \in Nat
      BY <1>5, <1>10, <1>12, <1>14
    <3>6. ~(at1 > Len(bytes) + 1)
      BY <3>4, <3>5
    <3> QED  BY <1>27, <3>2, <3>3, <3>6 DEF head
  <2> QED  BY <2>1, <2>2 DEF much
<1>28. CASE ~(head = Failed \/ head.next > Len(bytes) + 1)
  <2>1. ~Exceeds(place, limits) /\ Whole(bytes, at, H) /\ head = expected
    BY <1>23, <1>28
  <2> DEFINE r1 == f[p1]
  <2>2. p1 \in Place /\ Inside(place, head) = p1
    <3>1. n \in Nat /\ place.depth + 1 \in Nat /\ place.count + 1 \in Nat
      BY <1>8, <1>12 DEF n
    <3>2. expected.next = at1 /\ expected.n = n
      OBVIOUS
    <3> HIDE DEF expected, head
    <3>3. p1 \in Place
      BY <1>15, <3>1 DEF Place
    <3>4. Inside(place, head) = p1
      BY <2>1, <3>2 DEF Inside
    <3> QED  BY <3>3, <3>4
  <2>3. p1.n = n /\ p1.at = at1 /\ p1.count = place.count + 1
    OBVIOUS
  <2>4. /\ Whole(bytes, at1, E) =>
              r1 = IF TooMuch(made[k], p1, limits) THEN Failed
                   ELSE [next |-> at1 + Len(E), count |-> p1.count + made[k].size, tags |-> made[k].tags]
        /\ ~Whole(bytes, at1, E) /\ k # 1 => r1 = Failed
    <3>1. p1.n = made[k].length /\ Agrees(bytes, p1.at, enc[k])
      BY <1>15, <2>3 DEF n, E
    <3> HIDE DEF p1
    <3> QED  BY <1>6, <2>2, <2>3, <3>1, Zenon DEF ReadsBack, enc, E, n
  <2>5. f[place] = Read(head, r1)
    <3> HIDE DEF Read, head, p1, f
    <3>1. inner(head) = f[p1]
      BY <2>2
    <3> QED  BY <1>25, <1>28, <3>1
  <2>6. CASE ~Whole(bytes, at1, E)
    <3>1. r1 = Failed
      BY <1>9, <1>15, <2>1, <2>4, <2>6
    <3>2. f[place] = Failed
      <4> HIDE DEF r1, f, head
      <4> QED  BY <2>5, <3>1
    <3>3. ~Whole(bytes, place.at, all)
      BY <1>14, <1>15, <2>6
    <3> QED  BY <3>2, <3>3
  <2>7. CASE Whole(bytes, at1, E) /\ TooMuch(made[k], p1, limits)
    <3>1. r1 = Failed
      BY <2>4, <2>7
    <3>2. f[place] = Failed
      <4> HIDE DEF r1, f, head
      <4> QED  BY <2>5, <3>1
    <3>3. much
      BY <1>26, <2>7
    <3> QED  BY <3>2, <3>3 DEF much
  <2>8. CASE Whole(bytes, at1, E) /\ ~TooMuch(made[k], p1, limits)
    <3>1. r1 = [next |-> at1 + Len(E), count |-> p1.count + made[k].size, tags |-> made[k].tags]
      BY <2>4, <2>8
    <3>2. r1.next = at2 /\ r1.count = place.count + 1 + made[k].size /\ r1.tags = made[k].tags
      BY <1>14, <2>3, <3>1
    <3>3. r1 # Failed
      <4> HIDE DEF r1
      <4> QED  BY <1>15, <3>2 DEF Failed
    <3> HIDE DEF r1, f
    <3>4. head.next = at1 /\ head.length = len /\ head.code = TypeCode(tag.type) /\ head.name = tag.name
      BY <2>1
    <3>5. len - (at2 - at1) = Len(D)
      <4>1. at1 \in Nat /\ at2 = at1 + Len(E) /\ Len(E) \in Nat /\ Len(D) \in Nat
        BY <1>5, <1>14, <1>15
      <4>2. len = Len(E) + Len(D)
        BY <1>29
      <4> QED  BY <4>1, <4>2
    <3> DEFINE own == Own(head, r1)
               ownExpected == [next |-> at2 + Len(D), type |-> tag.type, value |-> tag.value]
    <3>6. own = IF Whole(bytes, at2, D) THEN ownExpected ELSE Failed
      <4>1. own = OwnValue(bytes, at2, Len(D), TypeCode(tag.type), c)
        <5> HIDE DEF head
        <5> QED  BY <3>2, <3>4, <3>5
      <4> HIDE DEF own
      <4> QED  BY <1>1, <1>10, <1>15, <1>29, <4>1, OwnValueReadsBack
    <3>7. f[place] = IF own = Failed THEN Failed
                     ELSE IF Rest(head, r1) = Failed THEN Failed
                     ELSE [next |-> Rest(head, r1).next, count |-> Rest(head, r1).count,
                           tags |-> <<Tag(head, r1)>> \o Rest(head, r1).tags]
      <4> HIDE DEF Own, Rest, Tag, head
      <4> QED  BY <2>5, <3>3
    <3>8. CASE ~Whole(bytes, at2, D)
      <4>1. f[place] = Failed
        <5> HIDE DEF own, Rest, Tag
        <5> QED  BY <3>6, <3>7, <3>8
      <4>2. ~Whole(bytes, place.at, all)
        BY <1>14, <1>15, <3>8
      <4> QED  BY <4>1, <4>2
    <3>9. CASE Whole(bytes, at2, D)
      <4>1. own = ownExpected
        BY <3>6, <3>9
      <4> HIDE DEF own
      <4>2. own.next = at3 /\ own.type = tag.type /\ own.value = tag.value
        BY <1>14, <4>1
      <4>3. own # Failed
        BY <1>15, <4>2 DEF Failed
      <4> DEFINE r3 == f[p3]
      <4>4. p3 \in Place /\ After(place, own, r1) = p3
        <5>1. place.n - 1 = made[j].length /\ place.count + 1 + made[k].size \in Nat
          <6> DEFINE a == place.n
                     b == made[j].length
                     x == place.count
                     y == made[k].size
          <6>1. a = 1 + b /\ b \in Nat /\ x \in Nat /\ y \in Nat
            BY <1>7, <1>8, <1>11, <1>12
          <6> HIDE DEF a, b, x, y
          <6>2. a - 1 = b /\ x + 1 + y \in Nat
            BY <6>1
          <6> QED  BY <6>2 DEF a, b, x, y
        <5>2. p3 \in Place
          BY <1>8, <1>12, <1>15, <5>1 DEF Place
        <5>3. After(place, own, r1) = p3
          BY <3>2, <4>2, <5>1 DEF After
        <5> QED  BY <5>2, <5>3
      <4>5. p3.n = made[j].length /\ p3.at = at3 /\ p3.count = place.count + 1 + made[k].size
        OBVIOUS
      <4>6. Rest(head, r1) = r3
        BY <4>4 DEF own
      <4> HIDE DEF p3
      <4>7. /\ Whole(bytes, at3, R) =>
                  r3 = IF TooMuch(made[j], p3, limits) THEN Failed
                       ELSE [next |-> at3 + Len(R), count |-> p3.count + made[j].size, tags |-> made[j].tags]
            /\ ~Whole(bytes, at3, R) /\ j # 1 => r3 = Failed
        <5>1. Agrees(bytes, p3.at, enc[j])
          BY <1>15, <4>5 DEF R
        <5> QED  BY <1>6, <4>4, <4>5, <5>1, Zenon DEF ReadsBack, enc, R, f
      <4>8. f[place] = IF r3 = Failed THEN Failed
                       ELSE [next |-> r3.next, count |-> r3.count, tags |-> <<Tag(head, r1)>> \o r3.tags]
        <5> HIDE DEF Rest, Tag, r3, head
        <5> QED  BY <3>7, <4>3, <4>6
      <4>9. Tag(head, r1) = [name |-> tag.name, children |-> made[k].tags, type |-> tag.type, value |-> tag.value]
        <5>1. Tag(head, r1) = [name |-> head.name, children |-> r1.tags, type |-> own.type, value |-> own.value]
          BY DEF own
        <5> HIDE DEF Tag, head
        <5> QED  BY <3>2, <3>4, <4>2, <5>1
      <4> HIDE DEF r3, Tag, Rest, head
      <4>10. CASE ~Whole(bytes, at3, R)
        <5>1. j # 1
          BY <1>9, <1>15, <3>9, <4>10
        <5>2. f[place] = Failed
          BY <4>7, <4>8, <4>10, <5>1
        <5>3. ~Whole(bytes, place.at, all)
          BY <1>14, <1>15, <4>10
        <5> QED  BY <5>2, <5>3
      <4>11. CASE Whole(bytes, at3, R) /\ TooMuch(made[j], p3, limits)
        <5>1. f[place] = Failed
          BY <4>7, <4>8, <4>11
        <5>2. much
          BY <1>26, <4>11 DEF p3
        <5> QED  BY <5>1, <5>2 DEF much
      <4>12. CASE Whole(bytes, at3, R) /\ ~TooMuch(made[j], p3, limits)
        <5>1. r3 = [next |-> at3 + Len(R), count |-> p3.count + made[j].size, tags |-> made[j].tags]
          BY <4>7, <4>12
        <5>2. r3.next = place.at + Len(all) /\ r3.tags = made[j].tags
          BY <1>14, <1>15, <5>1
        <5>3. r3.count = place.count + made[i].size
          <6>1. r3.count = place.count + 1 + made[k].size + made[j].size
            BY <4>5, <5>1
          <6>2. made[i].size = 1 + made[k].size + made[j].size
            BY <1>7
          <6> DEFINE x == made[k].size
                     y == made[j].size
                     z == place.count
          <6>3. x \in Nat /\ y \in Nat /\ z \in Nat
            BY <1>8, <1>12
          <6> HIDE DEF x, y, z
          <6>4. z + 1 + x + y = z + (1 + x + y)
            BY <6>3
          <6> QED  BY <6>1, <6>2, <6>4 DEF x, y, z
        <5>4. r3 # Failed
          <6>1. at3 + Len(R) # 0
            BY <1>5, <1>15
          <6> QED  BY <1>14, <1>15, <5>2, <6>1 DEF Failed
        <5>5. f[place] = [next |-> place.at + Len(all), count |-> place.count + made[i].size, tags |-> made[i].tags]
          BY <1>7, <4>8, <4>9, <5>2, <5>3, <5>4
        <5>6. ~much
          BY <1>26, <2>1, <2>8, <4>12 DEF p3
        <5>7. Whole(bytes, place.at, all)
          BY <1>14, <1>15, <4>12
        <5> QED  BY <5>5, <5>6, <5>7 DEF much
      <4> QED  BY <4>10, <4>11, <4>12
    <3> QED  BY <3>8, <3>9
  <2> QED  BY <2>6, <2>7, <2>8
<1> QED  BY <1>27, <1>28

(* So every list reads back, each from the two it is made of.              *)
LEMMA EveryListReadsBack ==
  ASSUME NEW made, WellMade(made), NEW c, Encodable(made, c), NEW bytes \in Seq(Byte),
         NEW limits, IsLimits(limits)
  PROVE  \A i \in 1..Len(made) :
           Len(EncodeLists(made, c)[i]) \in Integer => ReadsBack(made, c, bytes, limits, i)
<1> DEFINE enc == EncodeLists(made, c)
           L == Len(made)
           Back(i) == Len(enc[i]) \in Integer => ReadsBack(made, c, bytes, limits, i)
           Missing == {i \in 1..L : ~Back(i)}
<1>1. L \in Nat \ {0}
  BY DEF WellMade
<1> HIDE DEF L
<1>2. SUFFICES ASSUME Missing # {} PROVE FALSE
  BY DEF L
<1>3. PICK i \in Missing : \A m \in Missing : i <= m
  <2>1. Missing \subseteq Nat
    BY <1>1
  <2> QED  BY <1>2, <2>1, LeastNumber
<1>4. i \in 1..L /\ ~Back(i)
  OBVIOUS
<1> HIDE DEF Back
<1>5. \A m \in 1..(i - 1) : Back(m)
  BY <1>1, <1>3, <1>4
<1>6. CASE i = 1
  BY <1>4, <1>6, NoTagsReadBack DEF Back
<1>7. CASE i # 1
  <2>1. i \in 2..L
    BY <1>1, <1>4, <1>7
  <2>2. Len(enc[i]) \in Integer /\ ~ReadsBack(made, c, bytes, limits, i)
    BY <1>4 DEF Back
  <2>3. \A m \in 1..(i - 1) : Len(enc[m]) \in Integer => ReadsBack(made, c, bytes, limits, m)
    BY <1>5 DEF Back
  <2> QED  BY <2>1, <2>2, <2>3, ListReadsBack, Zenon DEF L
<1> QED  BY <1>6, <1>7

(* The count of a packet may be written.                                   *)
LEMMA ListCountable ==
  ASSUME NEW made, WellMade(made), NEW c, Encodable(made, c), NEW i \in 1..Len(made)
  PROVE  Countable(made[i].length, c)
<1> DEFINE n == made[i].length
<1>1. Childcount(n, c)
  BY ChildcountOfList
<1>2. n < Sentinel \/ c.largeTagCount
  BY DEF Encodable
<1> HIDE DEF n
<1>3. n \in Integer
  <2>1. 0 \in Integer
    BY SMT DEF Integer
  <2> QED  BY <1>1, <2>1 DEF Childcount, Countable
<1>4. Countable(n, c)
  BY <1>2, <1>3 DEF Countable
<1> QED  BY <1>4 DEF n

(* The body of a packet: the last list, with an opcode and a count.        *)
PacketBody(made, c) ==
  <<Opcode>> \o CountOfTags(made[Len(made)].length, c) \o EncodeLists(made, c)[Len(made)]

(* A packet within the limits of who decodes it.                           *)
Allowed(list, limits) == list.depth < limits.maxDepth /\ list.size <= limits.maxTagCount

(* What the body is made of: bytes, each part of which can be written.     *)
LEMMA BodyParts ==
  ASSUME NEW made, WellMade(made), NEW c, Encodable(made, c), Len(PacketBody(made, c)) \in Integer
  PROVE  LET count == CountOfTags(made[Len(made)].length, c)
             tags == EncodeLists(made, c)[Len(made)]
         IN /\ Len(made) \in 1..Len(made)
            /\ PacketBody(made, c) = (<<Opcode>> \o count) \o tags
            /\ <<Opcode>> \in Seq(Byte) /\ <<Opcode>> \o count \in Seq(Byte)
            /\ PacketBody(made, c) \in Seq(Byte)
            /\ count \in Seq(Byte) /\ Len(count) \in Nat \ {0}
            /\ tags \in Seq(Byte) /\ Len(tags) \in Integer /\ Len(tags) \in Nat
            /\ Len(<<Opcode>> \o count) = 1 + Len(count)
            /\ Len(PacketBody(made, c)) = 1 + Len(count) + Len(tags)
<1> DEFINE L == Len(made)
           count == CountOfTags(made[L].length, c)
           tags == EncodeLists(made, c)[L]
           start == <<Opcode>> \o count
           all == start \o tags
<1>1. L \in 1..L
  BY DEF WellMade
<1>2. PacketBody(made, c) = all
  BY Zenon DEF PacketBody
<1>3. count \in Seq(Byte) /\ Len(count) \in Nat \ {0}
  BY <1>1, ListCountable, CountType
<1>4. HasBytes(tags)
  BY <1>1, ListHasBytes
<1> HIDE DEF count, tags, L
<1>5. <<Opcode>> \in Seq(Byte) /\ Len(<<Opcode>>) = 1
  <2>1. Opcode \in Byte
    BY SMT DEF Opcode, Byte
  <2> QED  BY <2>1
<1>6. start \in Seq(Byte) /\ Len(start) = 1 + Len(count)
  BY <1>3, <1>5, JoinType
<1>7. tags \in Seq(Nat) /\ Len(tags) \in Nat
  BY <1>4 DEF HasBytes
<1> HIDE DEF start
<1>8. Len(all) = Len(start) + Len(tags)
  <2>1. start \in Seq(Nat)
    BY <1>6, BytesAreNumbers
  <2> QED  BY <1>7, <2>1, JoinType
<1> HIDE DEF all
<1>9. Len(tags) \in Integer
  <2>1. Len(all) \in Integer
    BY <1>2
  <2> QED  BY <1>3, <1>6, <1>7, <1>8, <2>1, SMT DEF Integer
<1>10. tags \in Seq(Byte)
  BY <1>4, <1>9 DEF HasBytes
<1>11. all \in Seq(Byte)
  BY <1>6, <1>10, JoinType DEF all
<1>12. Len(all) = 1 + Len(count) + Len(tags)
  BY <1>6, <1>8
<1> QED  BY <1>1, <1>2, <1>3, <1>5, <1>6, <1>7, <1>9, <1>10, <1>11, <1>12, Zenon DEF start, all, L, count, tags

(* A whole body decodes to what was encoded; a cut one to no other packet. *)
THEOREM BodyReadsBack ==
  ASSUME NEW made, WellMade(made), NEW c, Encodable(made, c), Len(PacketBody(made, c)) \in Integer,
         NEW limits, IsLimits(limits), limits.maxDepth > 0, NEW m \in 0..Len(PacketBody(made, c))
  PROVE  LET list == made[Len(made)]
             packet == DecodePacket(SubSeq(PacketBody(made, c), 1, m), limits, c)
         IN /\ m = Len(PacketBody(made, c)) =>
                 packet = IF Allowed(list, limits) THEN [opcode |-> Opcode, tags |-> list.tags] ELSE Failed
            /\ m # Len(PacketBody(made, c)) => packet \in {Failed, [opcode |-> Opcode, tags |-> <<>>]}
<1> DEFINE L == Len(made)
           list == made[L]
           whole == PacketBody(made, c)
           bytes == SubSeq(whole, 1, m)
           count == CountOfTags(list.length, c)
           tags == EncodeLists(made, c)[L]
           start == <<Opcode>> \o count
           packet == DecodePacket(bytes, limits, c)
           n == FromCount(bytes, 2, c)
           place == [at |-> n.next, n |-> n.value, depth |-> 1, count |-> 0]
           all == ReadTags(bytes, limits, c)[place]
<1>1. /\ L \in 1..L
      /\ whole = start \o tags /\ <<Opcode>> \in Seq(Byte) /\ start \in Seq(Byte)
      /\ whole \in Seq(Byte) /\ count \in Seq(Byte) /\ Len(count) \in Nat \ {0}
      /\ tags \in Seq(Byte) /\ Len(tags) \in Integer /\ Len(tags) \in Nat
      /\ Len(start) = 1 + Len(count) /\ Len(whole) = 1 + Len(count) + Len(tags)
  BY BodyParts, Zenon
<1>2. list.length \in Nat /\ list.size \in Nat /\ list.depth \in Nat /\ Countable(list.length, c)
      /\ (list.size = 0 => list.depth = 0)
  BY <1>1, ListTypes, ListCountable
<1>3. L = 1 => tags = <<>> /\ Len(tags) = 0
  <2>1. \A i \in 1..L : i = 1 => EncodeLists(made, c)[i] = <<>>
    BY EncodeUnfolds
  <2>2. L = 1 => tags = <<>>
    BY <1>1, <2>1
  <2> HIDE DEF tags
  <2> QED  BY <2>2
<1>4. m \in Nat /\ m <= Len(whole) /\ Len(whole) \in Nat
  <2>1. Len(whole) = 1 + Len(count) + Len(tags) /\ Len(count) \in Nat /\ Len(tags) \in Nat
    BY <1>1
  <2> HIDE DEF whole, count, tags
  <2>2. Len(whole) \in Nat
    BY <2>1
  <2>3. m \in 0..Len(whole)
    BY DEF whole
  <2> QED  BY <2>2, <2>3
<1>5. packet = IF bytes = <<>> THEN Failed
               ELSE IF n = Failed THEN Failed
               ELSE IF all = Failed THEN Failed
               ELSE [opcode |-> bytes[1], tags |-> all.tags]
  BY Zenon DEF DecodePacket, PacketOf
<1>6. ReadsBack(made, c, bytes, limits, L) \/ bytes \notin Seq(Byte)
  BY <1>1, EveryListReadsBack
<1> HIDE DEF whole, L, list, tags, count, start, bytes
<1>7. /\ bytes \in Seq(Byte) /\ Len(bytes) = m
      /\ \A i \in 1..m : bytes[i] = whole[i]
  BY <1>1, <1>4 DEF bytes
<1>8. SUFFICES /\ m = Len(whole) =>
                    packet = IF Allowed(list, limits) THEN [opcode |-> Opcode, tags |-> list.tags] ELSE Failed
               /\ m # Len(whole) => packet \in {Failed, [opcode |-> Opcode, tags |-> <<>>]}
  BY Zenon DEF whole, list, L, bytes
<1>9. CASE m = 0
  <2>1. bytes = <<>>
    BY <1>7, <1>9
  <2>2. packet = Failed
    BY <1>5, <2>1, Zenon
  <2>3. m # Len(whole)
    <3>1. Len(whole) = 1 + Len(count) + Len(tags) /\ Len(count) \in Nat /\ Len(tags) \in Nat
      BY <1>1
    <3> QED  BY <1>9, <3>1
  <2> QED  BY <2>2, <2>3
<1>10. CASE m # 0
  <2>1. bytes # <<>> /\ m >= 1
    BY <1>4, <1>7, <1>10
  <2>2. Agrees(bytes, 1, whole)
    <3> SUFFICES ASSUME NEW i \in 1..Len(whole), 1 + i - 1 <= Len(bytes)
                 PROVE  bytes[1 + i - 1] = whole[i]
      BY DEF Agrees
    <3>1. 1 + i - 1 = i /\ i \in 1..m
      BY <1>4, <1>7
    <3> QED  BY <1>7, <3>1
  <2>3. Len(bytes) \in Nat /\ 1 \in Nat \ {0}
    BY <1>4, <1>7
  <2>4. /\ Agrees(bytes, 1, start) /\ Agrees(bytes, 1 + Len(start), tags)
        /\ (Whole(bytes, 1, whole) <=> Whole(bytes, 1 + Len(start), tags))
        /\ (Whole(bytes, 1, whole) => Whole(bytes, 1, start))
    BY <1>1, <2>2, <2>3, AgreesParts
  <2>5. /\ Agrees(bytes, 1, <<Opcode>>) /\ Agrees(bytes, 1 + Len(<<Opcode>>), count)
        /\ (Whole(bytes, 1, start) <=> Whole(bytes, 1 + Len(<<Opcode>>), count))
    <3>1. Agrees(bytes, 1, <<Opcode>> \o count)
      BY <2>4 DEF start
    <3> QED  BY <1>1, <2>3, <3>1, AgreesParts DEF start
  <2>6. bytes[1] = Opcode
    <3>1. 1 \in 1..Len(<<Opcode>>) /\ 1 + 1 - 1 <= Len(bytes) /\ <<Opcode>>[1] = Opcode /\ 1 + 1 - 1 = 1
      BY <1>7, <2>1, <1>4
    <3> QED  BY <2>5, <3>1 DEF Agrees
  <2> DEFINE at == 2 + Len(count)
  <2>7. 1 + Len(<<Opcode>>) = 2 /\ 1 + Len(start) = at /\ at \in Nat \ {0}
    <3>1. Len(<<Opcode>>) = 1
      OBVIOUS
    <3>2. Len(start) = 1 + Len(count) /\ Len(count) \in Nat
      BY <1>1
    <3> QED  BY <3>1, <3>2
  <2> HIDE DEF at
  <2>8. Whole(bytes, 1, whole) <=> m = Len(whole)
    <3>1. 1 + Len(whole) - 1 <= Len(bytes) <=> m = Len(whole)
      BY <1>4, <1>7
    <3> QED  BY <3>1 DEF Whole
  <2>9. IF Whole(bytes, 2, count) THEN n = [next |-> at, value |-> list.length] ELSE RunsOut(n, bytes)
    <3>1. 2 \in Nat \ {0} /\ Agrees(bytes, 2, CountOfTags(list.length, c))
      BY <2>5, <2>7 DEF count
    <3> HIDE DEF n
    <3> QED  BY <1>2, <1>7, <3>1, CountReadsBack DEF n, count, at
  <2>10. CASE ~Whole(bytes, 2, count)
    <3>1. n = Failed \/ (n.next \in Nat \ {0} /\ n.next > Len(bytes) /\ n.value \in Nat)
      <4>1. RunsOut(n, bytes)
        BY <2>9, <2>10
      <4> HIDE DEF n
      <4> QED  BY <2>3, <4>1, SMT DEF RunsOut
    <3>2. m # Len(whole)
      BY <2>4, <2>5, <2>7, <2>8, <2>10
    <3>3. CASE n = Failed
      <4>1. packet = Failed
        BY <1>5, <3>3, Zenon
      <4> QED  BY <3>2, <4>1
    <3>4. CASE n # Failed
      <4>1. n.next \in Nat \ {0} /\ n.next > Len(bytes) /\ n.value \in Nat
        BY <3>1, <3>4
      <4> HIDE DEF n
      <4>2. place \in Place /\ place.at > Len(bytes)
        BY <4>1 DEF Place
      <4> HIDE DEF place
      <4>3. all = Failed \/ all = [next |-> place.at, count |-> place.count, tags |-> <<>>]
        <5> DEFINE f == ReadTags(bytes, limits, c)
        <5>1. f[place] = Reading(f, bytes, place, limits, c)
          BY <1>7, <4>2, ReadTagsUnfolds
        <5> HIDE DEF f
        <5>2. Reading(f, bytes, place, limits, c)
                = IF place.n = 0 THEN [next |-> place.at, count |-> place.count, tags |-> <<>>] ELSE Failed
          BY <4>2, NothingPastEnd
        <5> QED  BY <5>1, <5>2 DEF f
      <4> HIDE DEF all
      <4>4. all # Failed => all.tags = <<>>
        BY <4>3
      <4>5. packet \in {Failed, [opcode |-> Opcode, tags |-> <<>>]}
        <5> HIDE DEF packet
        <5> QED  BY <1>5, <2>6, <4>4
      <4> QED  BY <3>2, <4>5
    <3> QED  BY <3>3, <3>4
  <2>11. CASE Whole(bytes, 2, count)
    <3>1. n = [next |-> at, value |-> list.length] /\ n.next = at /\ n.value = list.length
      BY <2>9, <2>11
    <3>2. n # Failed
      <4> HIDE DEF n
      <4> QED  BY <2>7, <3>1 DEF Failed
    <3> HIDE DEF n
    <3>3. place \in Place /\ place.n = list.length /\ place.at = at /\ place.depth = 1 /\ place.count = 0
      BY <1>2, <2>7, <3>1 DEF Place
    <3> HIDE DEF place
    <3>4. Agrees(bytes, at, tags) /\ (Whole(bytes, at, tags) <=> m = Len(whole))
      BY <2>4, <2>7, <2>8
    <3>5. /\ Whole(bytes, at, tags) =>
                all = IF TooMuch(list, place, limits) THEN Failed
                      ELSE [next |-> at + Len(tags), count |-> 0 + list.size, tags |-> list.tags]
          /\ ~Whole(bytes, at, tags) /\ L # 1 => all = Failed
      <4>1. ReadsBack(made, c, bytes, limits, L)
        BY <1>6, <1>7
      <4> QED  BY <3>3, <3>4, <4>1, Zenon DEF ReadsBack, list, tags
    <3> HIDE DEF all, packet
    <3>6. CASE m # Len(whole)
      <4>1. L # 1
        <5> SUFFICES ASSUME L = 1 PROVE FALSE
          OBVIOUS
        <5>1. Len(whole) = 1 + Len(count) /\ Len(count) \in Nat
          <6>1. Len(whole) = 1 + Len(count) + Len(tags) /\ Len(tags) = 0 /\ Len(count) \in Nat
            BY <1>1, <1>3
          <6> QED  BY <6>1
        <5>2. 2 + Len(count) - 1 <= Len(bytes)
          BY <2>11 DEF Whole
        <5> QED  BY <1>4, <1>7, <3>6, <5>1, <5>2
      <4>2. packet = Failed
        BY <1>5, <3>4, <3>5, <3>6, <4>1
      <4> QED  BY <3>6, <4>2
    <3>7. CASE m = Len(whole)
      <4>1. TooMuch(list, place, limits) <=> ~Allowed(list, limits)
        <5>1. limits.maxDepth \in Nat /\ limits.maxTagCount \in Nat
          BY DEF IsLimits
        <5>2. TooMuch(list, place, limits)
                <=> list.size > 0 /\ (1 + list.depth > limits.maxDepth \/ 0 + list.size > limits.maxTagCount)
          BY <3>3, Zenon DEF TooMuch
        <5> DEFINE s == list.size
                   d == list.depth
                   maxD == limits.maxDepth
                   maxC == limits.maxTagCount
        <5>3. s \in Nat /\ d \in Nat /\ maxD \in Nat /\ maxC \in Nat /\ (s = 0 => d = 0) /\ maxD > 0
          BY <1>2, <5>1
        <5> HIDE DEF s, d, maxD, maxC
        <5>4. s > 0 /\ (1 + d > maxD \/ 0 + s > maxC) <=> ~(d < maxD /\ s <= maxC)
          BY <5>3
        <5> QED  BY <5>2, <5>4, Zenon DEF s, d, maxD, maxC, Allowed
      <4>2. CASE Allowed(list, limits)
        <5>1. all = [next |-> at + Len(tags), count |-> 0 + list.size, tags |-> list.tags]
          BY <3>4, <3>5, <3>7, <4>1, <4>2
        <5>2. all.next = at + Len(tags) /\ all.tags = list.tags
          BY <5>1
        <5>3. all # Failed
          <6>1. at + Len(tags) # 0
            BY <1>1, <2>7
          <6> QED  BY <5>2, <6>1 DEF Failed
        <5>4. packet = [opcode |-> Opcode, tags |-> list.tags]
          BY <1>5, <2>1, <2>6, <3>2, <5>2, <5>3
        <5> QED  BY <3>7, <4>2, <5>4
      <4>3. CASE ~Allowed(list, limits)
        <5>1. all = Failed
          BY <3>4, <3>5, <3>7, <4>1, <4>3
        <5>2. packet = Failed
          BY <1>5, <5>1, Zenon
        <5> QED  BY <3>7, <4>3, <5>2
      <4> QED  BY <4>2, <4>3
    <3> QED  BY <3>6, <3>7
  <2> QED  BY <2>10, <2>11
<1> QED  BY <1>9, <1>10

-----------------------------------------------------------------------------
(* The state.  What is encoded and decoded is made of the lists so far.    *)
CodecInv ==
  /\ WellMade(lists)
  /\ caps \in Forms
  /\ body # <<>> => /\ Encodable(lists, caps)
                    /\ body = PacketBody(lists, caps)
                    /\ Len(body) \in Integer
  /\ decoded # NotYet =>
       /\ body # <<>>
       /\ \E m \in 0..Len(body), limits \in Limits :
            decoded = [next |-> 2, whole |-> m = Len(body), limits |-> limits,
                       packet |-> DecodePacket(SubSeq(body, 1, m), limits, caps)]

(* What the constructors take makes a tag.                                 *)
LEMMA LeafIsTag ==
  ASSUME NEW leaf \in Leaf
  PROVE  IsTag(leaf)
<1>1. \A name \in TagNames : name \in Nat /\ name < 32768
  BY CodecAssumption, SMT
<1>2. Numbers \subseteq Integer /\ \A type \in DataType : Data[type] \subseteq Seq(Byte)
  BY CodecAssumption, SMT
<1>3. \A type \in DataType : type \notin IntegerType
  BY DEF DataType, IntegerType
<1>4. CASE leaf \in {tag \in [name : TagNames, type : IntegerType, value : Numbers] : Fits(tag.type, tag.value)}
  <2>1. leaf.name \in TagNames /\ leaf.type \in IntegerType /\ leaf.value \in Numbers /\ Fits(leaf.type, leaf.value)
    BY <1>4
  <2> QED  BY <1>1, <1>2, <2>1 DEF IsTag
<1>5. CASE ~(leaf \in {tag \in [name : TagNames, type : IntegerType, value : Numbers] : Fits(tag.type, tag.value)})
  <2>1. /\ leaf.name \in TagNames /\ leaf.type \in DataType
        /\ leaf.value \in Data[leaf.type] /\ Fits(leaf.type, leaf.value)
    BY <1>5 DEF Leaf
  <2>2. leaf.value \in Seq(Byte) /\ leaf.type \notin IntegerType
    BY <1>2, <1>3, <2>1
  <2> QED  BY <1>1, <2>1, <2>2 DEF IsTag
<1> QED  BY <1>4, <1>5

(* A list within the bound is so with every number of it.                  *)
LEMMA NewListWithin ==
  ASSUME NEW made, NEW tag, NEW k, NEW j, WithinTags(made[k]), WithinTags(made[j]),
         NewList(made, tag, k, j).size <= MaxTags
  PROVE  WithinTags(NewList(made, tag, k, j))
<1> DEFINE list == NewList(made, tag, k, j)
           lj == made[j].length
           sj == made[j].size
           dj == made[j].depth
           sk == made[k].size
           dk == made[k].depth
           l == list.length
           s == list.size
           d == list.depth
<1>1. /\ lj \in Nat /\ sj \in Nat /\ dj \in Nat /\ sk \in Nat /\ dk \in Nat /\ lj <= sj
  BY DEF WithinTags
<1>2. l = 1 + lj /\ s = 1 + sk + sj /\ d = IF 1 + dk > dj THEN 1 + dk ELSE dj
  <2>1. HasFields(list, made, tag, k, j)
    BY NewListFields
  <2> HIDE DEF list
  <2> QED  BY <2>1, Zenon DEF HasFields
<1> HIDE DEF lj, sj, dj, sk, dk, l, s, d
<1>3. l \in Nat /\ s \in Nat /\ d \in Nat /\ l <= s
  BY <1>1, <1>2
<1>4. s <= MaxTags
  BY DEF s
<1> HIDE DEF list
<1>5. WithinTags(list)
  BY <1>3, <1>4 DEF WithinTags, l, s, d
<1> QED  BY <1>5 DEF list

(* AddTag makes one more list from those made.                             *)
LEMMA AppendWellMade ==
  ASSUME NEW made, WellMade(made), NEW tag, IsTag(tag), NEW k \in 1..Len(made), NEW j \in 1..Len(made),
         NewList(made, tag, k, j).size <= MaxTags
  PROVE  WellMade(Append(made, NewList(made, tag, k, j)))
<1> DEFINE L == Len(made)
           list == NewList(made, tag, k, j)
           more == Append(made, list)
<1>1. L \in Nat \ {0} /\ made[1] = NoTags /\ k \in 1..L /\ j \in 1..L
  BY DEF WellMade
<1>2. PICK S : made \in Seq(S)
  BY DEF WellMade
<1>3. list.tag = tag /\ list.children = k /\ list.rest = j
  <2>1. HasFields(list, made, tag, k, j)
    BY NewListFields
  <2> HIDE DEF list
  <2> QED  BY <2>1, Zenon DEF HasFields
<1>4. WithinTags(list) /\ \A i \in 1..L : WithinTags(made[i])
  <2>1. \A i \in 1..L : WithinTags(made[i])
    BY DEF WellMade
  <2> QED  BY <1>1, <2>1, NewListWithin
<1> HIDE DEF list, L
<1>5. made \in Seq(S \union {list})
  <2>1. \A i \in 1..L : made[i] \in S \union {list}
    BY <1>2 DEF L
  <2> QED  BY <1>2, <2>1 DEF L
<1>6. /\ more \in Seq(S \union {list}) /\ Len(more) = L + 1
      /\ \A i \in 1..L : more[i] = made[i]
      /\ more[L + 1] = list
  <2>1. list \in S \union {list}
    OBVIOUS
  <2> QED  BY <1>5, <2>1, AppendProperties DEF L
<1> HIDE DEF more
<1>7. ASSUME NEW a, NEW m \in 1..L, NEW n \in 1..L
      PROVE  NewList(more, a, m, n) = NewList(made, a, m, n)
  BY <1>6, Zenon DEF NewList
<1>8. ASSUME NEW i \in 2..L
      PROVE  IsListed(more, i)
  <2>1. i \in 1..L /\ more[i] = made[i]
    BY <1>1, <1>6
  <2>2. /\ made[i].children \in 1..(i - 1) /\ made[i].rest \in 1..(i - 1) /\ IsTag(made[i].tag)
        /\ made[i] = NewList(made, made[i].tag, made[i].children, made[i].rest)
    BY DEF WellMade, IsListed, L
  <2>3. made[i].children \in 1..L /\ made[i].rest \in 1..L
    BY <1>1, <2>1, <2>2
  <2>4. NewList(more, made[i].tag, made[i].children, made[i].rest) = made[i]
    BY <1>7, <2>2, <2>3, Zenon
  <2> QED  BY <2>1, <2>2, <2>4, Zenon DEF IsListed
<1>9. IsListed(more, L + 1)
  <2> DEFINE i == L + 1
  <2>1. i - 1 = L /\ more[i] = list
    BY <1>1, <1>6
  <2>2. NewList(more, tag, k, j) = list
    BY <1>1, <1>7, Zenon DEF list
  <2> HIDE DEF i
  <2>3. IsTag(more[i].tag) /\ more[i].children \in 1..(i - 1) /\ more[i].rest \in 1..(i - 1)
    BY <1>1, <1>3, <2>1
  <2>4. more[i] = NewList(more, more[i].tag, more[i].children, more[i].rest)
    BY <1>3, <2>1, <2>2, Zenon
  <2>5. IsListed(more, i)
    BY <2>3, <2>4 DEF IsListed
  <2> QED  BY <2>5 DEF i
<1>10. /\ \A i \in 1..(L + 1) : i \in 1..L \/ i = L + 1
       /\ \A i \in 2..(L + 1) : i \in 2..L \/ i = L + 1
       /\ L + 1 \in Nat \ {0} /\ 1 \in 1..L
  BY <1>1
<1>11. \A i \in 1..Len(more) : WithinTags(more[i])
  BY <1>4, <1>6, <1>10, Zenon
<1>12. \A i \in 2..Len(more) : IsListed(more, i)
  BY <1>6, <1>8, <1>9, <1>10, Zenon
<1>13. Len(more) \in Nat \ {0} /\ more[1] = NoTags
  BY <1>1, <1>6, <1>10, Zenon
<1> QED  BY <1>6, <1>11, <1>12, <1>13, Zenon DEF WellMade, more, list

(* CodecInv is inductive: it holds at first,                               *)
LEMMA CodecInvInit == CodecInit => CodecInv
<1> SUFFICES ASSUME CodecInit PROVE CodecInv
  OBVIOUS
<1>1. lists = <<NoTags>> /\ body = <<>> /\ decoded = NotYet
      /\ caps = [utf8Numbers |-> FALSE, largeTagCount |-> FALSE]
  BY DEF CodecInit
<1>2. caps \in Forms
  BY <1>1 DEF Forms
<1>3. WellMade(lists)
  <2>1. lists \in Seq({NoTags}) /\ Len(lists) = 1 /\ lists[1] = NoTags
    BY <1>1
  <2>2. \A i \in 1..1 : i = 1
    OBVIOUS
  <2>3. WithinTags(NoTags)
    <3>1. MaxTags \in Nat
      BY CodecAssumption, SMT DEF Integer
    <3>2. NoTags.length = 0 /\ NoTags.size = 0 /\ NoTags.depth = 0
      BY DEF NoTags
    <3> QED  BY <3>1, <3>2 DEF WithinTags
  <2>4. \A i \in 1..Len(lists) : WithinTags(lists[i])
    BY <2>1, <2>2, <2>3
  <2>5. 2..Len(lists) = {}
    BY <2>1
  <2>6. Len(lists) \in Nat \ {0}
    BY <2>1
  <2>7. \E S : lists \in Seq(S)
    BY <2>1
  <2> QED  BY <2>1, <2>4, <2>5, <2>6, <2>7, Zenon DEF WellMade
<1> QED  BY <1>1, <1>2, <1>3 DEF CodecInv

(* and every action keeps it.                                              *)
LEMMA CodecInvNext == CodecInv /\ [CodecNext]_codecVars => CodecInv'
<1> SUFFICES ASSUME CodecInv, [CodecNext]_codecVars PROVE CodecInv'
  OBVIOUS
<1>1. WellMade(lists) /\ caps \in Forms
  BY DEF CodecInv
<1>2. body # <<>> => Encodable(lists, caps) /\ body = PacketBody(lists, caps) /\ Len(body) \in Integer
  BY DEF CodecInv
<1>3. decoded # NotYet =>
        /\ body # <<>>
        /\ \E m \in 0..Len(body), limits \in Limits :
             decoded = [next |-> 2, whole |-> m = Len(body), limits |-> limits,
                        packet |-> DecodePacket(SubSeq(body, 1, m), limits, caps)]
  BY DEF CodecInv
<1>4. CASE UNCHANGED codecVars
  <2>1. lists' = lists /\ caps' = caps /\ body' = body /\ decoded' = decoded
    BY <1>4 DEF codecVars
  <2> QED  BY <1>1, <1>2, <1>3, <2>1 DEF CodecInv
<1>5. ASSUME NEW leaf \in Leaf, NEW children \in 1..Len(lists), NEW rest \in 1..Len(lists),
             AddTag(leaf, children, rest)
      PROVE  CodecInv'
  <2>1. /\ body = <<>> /\ Listed(leaf, children, rest).size <= MaxTags
        /\ lists' = Append(lists, Listed(leaf, children, rest))
        /\ caps' = caps /\ body' = body /\ decoded' = decoded
    BY <1>5, Zenon DEF AddTag
  <2>2. Listed(leaf, children, rest) = NewList(lists, leaf, children, rest)
    BY Zenon DEF Listed, NewList
  <2>3. WellMade(lists')
    BY <1>1, <2>1, <2>2, LeafIsTag, AppendWellMade
  <2>4. decoded = NotYet
    BY <1>3, <2>1
  <2> QED  BY <1>1, <2>1, <2>3, <2>4 DEF CodecInv
<1>6. ASSUME EncodePacket
      PROVE  CodecInv'
  <2>1. /\ body = <<>> /\ caps' \in Forms /\ Encodable(lists, caps') /\ Len(body') \in Integer
        /\ body' = (<<Opcode>> \o CountOfTags(lists[Len(lists)].length, caps'))
                   \o EncodeLists(lists, caps')[Len(lists)]
        /\ lists' = lists /\ decoded' = decoded
    BY <1>6, Zenon DEF EncodePacket
  <2>2. body' = PacketBody(lists, caps')
    BY <2>1, Zenon DEF PacketBody
  <2>3. decoded = NotYet
    BY <1>3, <2>1
  <2> QED  BY <1>1, <2>1, <2>2, <2>3 DEF CodecInv
<1>7. ASSUME NEW limits \in Limits, NEW m \in 0..Len(body), DecodeBody(m, limits)
      PROVE  CodecInv'
  <2>1. /\ body # <<>>
        /\ decoded' = [next |-> 2, whole |-> m = Len(body), limits |-> limits,
                       packet |-> DecodePacket(SubSeq(body, 1, m), limits, caps)]
        /\ lists' = lists /\ caps' = caps /\ body' = body
    BY <1>7, Zenon DEF DecodeBody
  <2>2. \E n \in 0..Len(body'), l \in Limits :
          decoded' = [next |-> 2, whole |-> n = Len(body'), limits |-> l,
                      packet |-> DecodePacket(SubSeq(body', 1, n), l, caps')]
    BY <2>1, Zenon
  <2> QED  BY <1>1, <1>2, <2>1, <2>2, Zenon DEF CodecInv
<1>8. body # <<>> => Len(body) \in Nat
  BY <1>2, SMT DEF Integer
<1>9. ASSUME NEW limits \in Limits, DecodeBody(Len(body), limits)
      PROVE  CodecInv'
  <2>1. body # <<>>
    BY <1>9, Zenon DEF DecodeBody
  <2>2. Len(body) \in 0..Len(body)
    BY <1>8, <2>1
  <2> QED  BY <1>7, <1>9, <2>2
<1>10. ASSUME NEW n \in 0..(Len(body) - 1), DecodeBody(n, Default)
       PROVE  CodecInv'
  <2>1. body # <<>>
    BY <1>10, Zenon DEF DecodeBody
  <2>2. n \in 0..Len(body) /\ Default \in Limits
    <3>1. Default \in Limits
      BY DEF Limits
    <3>2. n \in 0..Len(body)
      BY <1>8, <2>1
    <3> QED  BY <3>1, <3>2
  <2> QED  BY <1>7, <1>10, <2>2
<1> QED  BY <1>4, <1>5, <1>6, <1>9, <1>10, Zenon DEF CodecNext

(* Whatever is encoded is the body of the lists made, by encodings that    *)
(* the code accepts, and what was decoded is a part of it.                 *)
THEOREM CodecInvHolds == CodecSpec => []CodecInv
<1>1. CodecInit => CodecInv
  BY CodecInvInit
<1>2. CodecInv /\ [CodecNext]_codecVars => CodecInv'
  BY CodecInvNext
<1> QED  BY <1>1, <1>2, PTL DEF CodecSpec

(* The limits a caller may set.                                            *)
LEMMA LimitsTypes ==
  ASSUME NEW limits \in Limits
  PROVE  IsLimits(limits) /\ limits.maxDepth > 0
<1>1. MaxDepth \in Nat \ {0} /\ MaxTagCount \in Nat
  BY CodecAssumption, SMT
<1>2. Default.maxDepth = MaxDepth /\ Default.maxTagCount = MaxTagCount
  BY DEF Default
<1>3. CASE limits = Default
  BY <1>1, <1>2, <1>3 DEF IsLimits
<1>4. CASE limits = [Default EXCEPT !.maxDepth = 2]
  <2>1. limits.maxDepth = 2 /\ limits.maxTagCount = MaxTagCount
    BY <1>4 DEF Default
  <2> QED  BY <1>1, <2>1 DEF IsLimits
<1>5. CASE limits = [Default EXCEPT !.maxTagCount = 1]
  <2>1. limits.maxDepth = MaxDepth /\ limits.maxTagCount = 1
    BY <1>5 DEF Default
  <2> QED  BY <1>1, <2>1 DEF IsLimits
<1> QED  BY <1>3, <1>4, <1>5, Zenon DEF Limits

(* What was decoded is therefore what the theorem above says.              *)
LEMMA DecodedIsRight == CodecInv => RoundTrip /\ CutIsNotMistaken
<1> SUFFICES ASSUME CodecInv, decoded # NotYet
             PROVE  /\ decoded.whole =>
                         decoded.packet = IF /\ lists[Len(lists)].depth < decoded.limits.maxDepth
                                             /\ lists[Len(lists)].size <= decoded.limits.maxTagCount
                                          THEN Packet ELSE Failed
                    /\ ~decoded.whole => decoded.packet \in {Failed, [opcode |-> Opcode, tags |-> <<>>]}
  BY Zenon DEF RoundTrip, CutIsNotMistaken
<1>1. WellMade(lists) /\ body # <<>>
  BY DEF CodecInv
<1>2. Encodable(lists, caps) /\ body = PacketBody(lists, caps) /\ Len(PacketBody(lists, caps)) \in Integer
  BY <1>1 DEF CodecInv
<1>3. PICK m \in 0..Len(body), limits \in Limits :
        decoded = [next |-> 2, whole |-> m = Len(body), limits |-> limits,
                   packet |-> DecodePacket(SubSeq(body, 1, m), limits, caps)]
  BY Zenon DEF CodecInv
<1> DEFINE packet == DecodePacket(SubSeq(body, 1, m), limits, caps)
           list == lists[Len(lists)]
           whole == m = Len(body)
<1>4. IsLimits(limits) /\ limits.maxDepth > 0
  BY LimitsTypes
<1>5. /\ whole => packet = IF Allowed(list, limits) THEN [opcode |-> Opcode, tags |-> list.tags] ELSE Failed
      /\ ~whole => packet \in {Failed, [opcode |-> Opcode, tags |-> <<>>]}
  <2>1. m \in 0..Len(PacketBody(lists, caps))
    BY <1>2
  <2>2. /\ m = Len(PacketBody(lists, caps)) =>
             DecodePacket(SubSeq(PacketBody(lists, caps), 1, m), limits, caps)
               = IF Allowed(list, limits) THEN [opcode |-> Opcode, tags |-> list.tags] ELSE Failed
        /\ m # Len(PacketBody(lists, caps)) =>
             DecodePacket(SubSeq(PacketBody(lists, caps), 1, m), limits, caps)
               \in {Failed, [opcode |-> Opcode, tags |-> <<>>]}
    BY <1>1, <1>2, <1>4, <2>1, BodyReadsBack, Zenon
  <2> QED  BY <1>2, <2>2, Zenon
<1> HIDE DEF packet, whole
<1>6. decoded.packet = packet /\ decoded.limits = limits /\ (decoded.whole <=> whole)
  <2>1. decoded = [next |-> 2, whole |-> whole, limits |-> limits, packet |-> packet]
    BY <1>3 DEF packet, whole
  <2>2. decoded.packet = packet /\ decoded.limits = limits
    BY <2>1
  <2>3. decoded.whole = whole
    BY <2>1
  <2> QED  BY <2>2, <2>3
<1>7. Packet = [opcode |-> Opcode, tags |-> list.tags]
  BY DEF Packet
<1> HIDE DEF list
<1>8. lists[Len(lists)] = list
  BY DEF list
<1> QED  BY <1>5, <1>6, <1>7, <1>8, Zenon DEF Allowed

(* Every packet of at most MaxTags tags, encoded in any form, decodes to   *)
(* itself within the limits, and is refused past them (ECPacket.decode).   *)
THEOREM RoundTripHolds == CodecSpec => []RoundTrip
<1>1. CodecInv => RoundTrip
  BY DecodedIsRight
<1> QED  BY <1>1, CodecInvHolds, PTL

(* A packet cut short is refused, or it is read as one without a tag: no   *)
(* other packet is ever made of what is left.                              *)
THEOREM CutIsNotMistakenHolds == CodecSpec => []CutIsNotMistaken
<1>1. CodecInv => CutIsNotMistaken
  BY DecodedIsRight
<1> QED  BY <1>1, CodecInvHolds, PTL
=============================================================================
