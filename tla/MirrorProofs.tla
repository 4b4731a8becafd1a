---------------------------- MODULE MirrorProofs ----------------------------
(***************************************************************************)
(* Proofs about PartFileMirror, for any files and names, buffers and runs  *)
(* of any length, and any number of sockets: the run-length code loses     *)
(* nothing, and the delta caches follow the daemon's encoder.              *)
(***************************************************************************)
EXTENDS PartFileMirror, SequenceTheorems, FiniteSetTheorems, TLAPS
(* Induction.  A set of numbers that is not empty has a least one: 1..n is *)
(* a finite set, and inclusion of those is well-founded.                   *)
LEMMA LeastNumber ==
  ASSUME NEW T, T \subseteq Nat, T # {}
  PROVE  \E n \in T : \A m \in T : n <= m
<1> DEFINE R == StrictSubsetOrdering(Nat)
           S == FiniteSubsetsOf(Nat)
           U == {1..n : n \in T}
<1>1. IsWellFoundedOn(R, S)
  BY FS_StrictSubsetOrderingWellFounded
<1>2. \A n \in Nat : 1..n \in S
  <2> SUFFICES ASSUME NEW n \in Nat PROVE IsFiniteSet(1..n) /\ 1..n \subseteq Nat
    BY DEF FiniteSubsetsOf
  <2> QED  BY FS_Interval
<1>3. \A m, n \in Nat : m < n => <<1..m, 1..n>> \in R
  <2> SUFFICES ASSUME NEW m \in Nat, NEW n \in Nat, m < n
               PROVE  1..m \subseteq 1..n /\ 1..m # 1..n /\ 1..n \subseteq Nat
    BY DEF StrictSubsetOrdering
  <2>1. n \in 1..n /\ n \notin 1..m
    OBVIOUS
  <2> QED  BY <2>1
<1> HIDE DEF R, S
<1>4. U \subseteq S /\ U # {}
  BY <1>2
<1>5. PICK u \in U : \A v \in U : <<v, u>> \notin R
  BY <1>1, <1>4, WFMin
<1>6. PICK n \in T : u = 1..n
  BY <1>5
<1>7. \A m \in T : ~(m < n)
  BY <1>3, <1>5, <1>6
<1> QED  BY <1>7

(* What is made of pieces, from the first to the last: piece[i] is what is *)
(* at i, and next[i] where one goes on from there.                         *)
Unfolds(f, length, piece, next) ==
  f = [i \in 1..(length + 1) |-> IF i > length THEN <<>> ELSE piece[i] \o f[next[i]]]

(* The same, of the last k pieces.                                         *)
LastOnes(length, k) == (length + 1 - k)..(length + 1)
UnfoldsLast(f, length, piece, next, k) ==
  \A i \in LastOnes(length, k) : f[i] = IF i > length THEN <<>> ELSE piece[i] \o f[next[i]]

LEMMA OneMoreUnfolds ==
  ASSUME NEW S, NEW length \in Nat, NEW piece \in [1..length -> Seq(S)],
         NEW next \in [1..length -> 1..(length + 1)],
         \A i \in 1..length : i < next[i],
         NEW k \in 1..length, NEW g \in [LastOnes(length, k - 1) -> Seq(S)],
         UnfoldsLast(g, length, piece, next, k - 1)
  PROVE  \E h \in [LastOnes(length, k) -> Seq(S)] : UnfoldsLast(h, length, piece, next, k)
<1> DEFINE a == length + 1 - k
           Old == LastOnes(length, k - 1)
           New == LastOnes(length, k)
           h == [i \in New |-> IF i = a THEN piece[a] \o g[next[a]] ELSE g[i]]
<1>0. a \in 1..length /\ a \notin Old /\ \A i \in Old : i <= length => i \in 1..length
  BY DEF LastOnes
<1>a. New = {a} \union Old
  BY DEF LastOnes
<1>1. /\ a \in 1..length /\ New = {a} \union Old /\ a \notin Old
      /\ \A i \in Old : i <= length => i \in 1..length
  BY <1>0, <1>a, Zenon
<1>2. \A i \in 1..length : i \in New => next[i] \in Old
  BY DEF LastOnes
<1> HIDE DEF a, Old, New
<1>3. piece[a] \o g[next[a]] \in Seq(S)
  <2>1. piece[a] \in Seq(S) /\ g[next[a]] \in Seq(S)
    BY <1>1, <1>2 DEF Old
  <2> QED  BY <2>1, ConcatProperties
<1>4. h \in [New -> Seq(S)]
  <2>1. \A i \in Old : g[i] \in Seq(S)
    BY DEF Old
  <2> QED  BY <1>1, <1>3, <2>1
<1>5. \A i \in Old : h[i] = g[i]
  BY <1>1
<1>6. h[a] = piece[a] \o g[next[a]]
  BY <1>1
<1> HIDE DEF h
<1>7. ASSUME NEW i \in New
      PROVE  h[i] = IF i > length THEN <<>> ELSE piece[i] \o h[next[i]]
  <2>1. CASE i = a
    <3>1. ~(a > length)
      BY <1>1
    <3>2. h[next[a]] = g[next[a]]
      BY <1>1, <1>2, <1>5
    <3> QED  BY <1>6, <2>1, <3>1, <3>2
  <2>2. CASE i \in Old /\ i > length
    BY <1>5, <2>2 DEF UnfoldsLast, Old
  <2>3. CASE i \in Old /\ i <= length
    <3>1. i \in 1..length /\ ~(i > length)
      BY <1>1, <2>3
    <3>2. h[i] = g[i] /\ h[next[i]] = g[next[i]]
      BY <1>2, <1>5, <1>7, <2>3, <3>1
    <3> QED  BY <2>3, <3>1, <3>2 DEF UnfoldsLast, Old
  <2>4. i = a \/ (i \in Old /\ i > length) \/ (i \in Old /\ i <= length)
    BY <1>1, <1>7 DEF Old, LastOnes
  <2> QED  BY <2>1, <2>2, <2>3, <2>4
<1> QED  BY <1>4, <1>7 DEF UnfoldsLast, New

LEMMA UnfoldingExists ==
  ASSUME NEW S, NEW length \in Nat, NEW piece \in [1..length -> Seq(S)],
         NEW next \in [1..length -> 1..(length + 1)],
         \A i \in 1..length : i < next[i]
  PROVE  \E f \in [1..(length + 1) -> Seq(S)] : Unfolds(f, length, piece, next)
<1> DEFINE Some(k) == \E g \in [LastOnes(length, k) -> Seq(S)] : UnfoldsLast(g, length, piece, next, k)
           Missing == {k \in 0..length : ~Some(k)}
<1>1. Some(0)
  <2> DEFINE g == [i \in LastOnes(length, 0) |-> <<>>]
  <2>1. LastOnes(length, 0) = {length + 1} /\ length + 1 > length
    BY DEF LastOnes
  <2>2. <<>> \in Seq(S)
    BY EmptySeq
  <2>3. g \in [LastOnes(length, 0) -> Seq(S)]
    BY <2>2
  <2>4. UnfoldsLast(g, length, piece, next, 0)
    BY <2>1 DEF UnfoldsLast
  <2> QED  BY <2>3, <2>4
<1>2. \A k \in 1..length : Some(k - 1) => Some(k)
  BY OneMoreUnfolds
<1> HIDE DEF Some
<1>3. Missing = {}
  <2> SUFFICES ASSUME Missing # {} PROVE FALSE
    OBVIOUS
  <2>1. Missing \subseteq Nat
    OBVIOUS
  <2>2. PICK k \in Missing : \A m \in Missing : k <= m
    BY <2>1, LeastNumber
  <2>3. k \in 1..length /\ ~Some(k)
    BY <1>1, <2>2
  <2>4. k - 1 \in 0..length /\ k - 1 \notin Missing
    BY <2>2, <2>3
  <2> QED  BY <1>2, <2>3, <2>4
<1>4. Some(length)
  BY <1>3
<1>5. LastOnes(length, length) = 1..(length + 1)
  BY DEF LastOnes
<1>6. PICK g \in [1..(length + 1) -> Seq(S)] : UnfoldsLast(g, length, piece, next, length)
  BY <1>4, <1>5 DEF Some
<1>7. Unfolds(g, length, piece, next)
  BY <1>5, <1>6 DEF Unfolds, UnfoldsLast
<1> QED  BY <1>7

LEMMA UnfoldingType ==
  ASSUME NEW S, NEW length \in Nat, NEW piece \in [1..length -> Seq(S)],
         NEW next \in [1..length -> 1..(length + 1)],
         \A i \in 1..length : i < next[i],
         NEW f, Unfolds(f, length, piece, next)
  PROVE  f \in [1..(length + 1) -> Seq(S)]
<1> DEFINE Bad == {k \in 0..length : f[length + 1 - k] \notin Seq(S)}
<1>1. \A i \in 1..(length + 1) : f[i] = IF i > length THEN <<>> ELSE piece[i] \o f[next[i]]
  BY DEF Unfolds
<1>2. Bad = {}
  <2> SUFFICES ASSUME Bad # {} PROVE FALSE
    OBVIOUS
  <2>1. Bad \subseteq Nat
    OBVIOUS
  <2>2. PICK k \in Bad : \A m \in Bad : k <= m
    BY <2>1, LeastNumber
  <2> DEFINE i == length + 1 - k
  <2>3. k \in 0..length /\ i \in 1..(length + 1) /\ f[i] \notin Seq(S)
    BY <2>2
  <2>4. CASE i > length
    BY <1>1, <2>3, <2>4, EmptySeq
  <2>5. CASE ~(i > length)
    <3>1. i \in 1..length
      BY <2>3, <2>5
    <3> DEFINE m == length + 1 - next[i]
    <3>2. m \in 0..length /\ m < k /\ length + 1 - m = next[i]
      BY <2>3, <3>1
    <3>3. f[next[i]] \in Seq(S)
      <4> HIDE DEF m
      <4>1. \A j \in Bad : ~(j < k)
        BY <2>1, <2>2
      <4>2. f[length + 1 - m] \in Seq(S)
        <5> HIDE DEF i
        <5> QED  BY <3>2, <4>1
      <4> QED  BY <3>2, <4>2
    <3>4. f[i] = piece[i] \o f[next[i]] /\ piece[i] \in Seq(S)
      BY <1>1, <2>3, <2>5, <3>1
    <3>5. f[i] \in Seq(S)
      BY <3>3, <3>4, ConcatProperties
    <3> QED  BY <2>3, <3>5
  <2> QED  BY <2>4, <2>5
<1>3. ASSUME NEW i \in 1..(length + 1) PROVE f[i] \in Seq(S)
  <2>1. length + 1 - i \in 0..length /\ length + 1 - (length + 1 - i) = i
    BY <1>3
  <2> QED  BY <1>2, <2>1
<1> QED  BY <1>3 DEF Unfolds
-----------------------------------------------------------------------------
(* The run-length code.  The length of a run is one that cannot be longer. *)
Run(bytes, i, n) ==
  /\ i + n - 1 <= Len(bytes)
  /\ \A k \in i..(i + n - 1) : bytes[k] = bytes[i]

LEMMA RunLengthIs ==
  ASSUME NEW bytes \in Seq(Nat), NEW i \in 1..Len(bytes)
  PROVE  LET n == RunLength(bytes, i) IN
         /\ n \in 1..MaxRun /\ Run(bytes, i, n)
         /\ n = MaxRun \/ i + n > Len(bytes) \/ bytes[i + n] # bytes[i]
<1> DEFINE L == Len(bytes)
           Last(n) == n = MaxRun \/ i + n > L \/ bytes[i + n] # bytes[i]
           NoRun == {n \in 1..(MaxRun + 1) : ~Run(bytes, i, n)}
<1>0. L \in Nat /\ i \in 1..L /\ MaxRun \in Nat \ {0, 1}
  BY LenProperties, MirrorAssumption
<1> SUFFICES \E n \in 1..MaxRun : Run(bytes, i, n) /\ Last(n)
  BY DEF RunLength, Run
<1> SUFFICES ASSUME \A n \in 1..MaxRun : Run(bytes, i, n) => ~Last(n) PROVE FALSE
  OBVIOUS
<1>1. Run(bytes, i, 1)
  BY <1>0 DEF Run
<1>2. ASSUME NEW n \in 1..MaxRun, Run(bytes, i, n) PROVE n < MaxRun /\ Run(bytes, i, n + 1)
  <2>1. n # MaxRun /\ i + n <= L /\ bytes[i + n] = bytes[i]
    BY <1>0, <1>2
  <2>2. ASSUME NEW k \in i..(i + n) PROVE bytes[k] = bytes[i]
    <3>1. k = i + n \/ k \in i..(i + n - 1)
      BY <1>0, <2>2
    <3> QED  BY <1>2, <2>1, <3>1 DEF Run
  <2> QED  BY <1>0, <2>1, <2>2 DEF Run
<1> HIDE DEF L, Last
<1>3. NoRun # {}
  <2>1. MaxRun \in 1..MaxRun /\ MaxRun + 1 \in 1..(MaxRun + 1)
    BY <1>0
  <2>2. ~Run(bytes, i, MaxRun)
    BY <1>2, <2>1, <1>0
  <2>3. MaxRun \in 1..(MaxRun + 1)
    BY <1>0
  <2> QED  BY <2>2, <2>3
<1>4. NoRun \subseteq Nat
  BY <1>0
<1>5. PICK n \in NoRun : \A m \in NoRun : n <= m
  BY <1>3, <1>4, LeastNumber
<1>6. n # 1 /\ n \in 1..(MaxRun + 1)
  BY <1>1, <1>5
<1>7. n - 1 \in 1..MaxRun /\ n - 1 \notin NoRun
  BY <1>0, <1>5, <1>6
<1>8. Run(bytes, i, n - 1)
  BY <1>0, <1>7
<1>9. Run(bytes, i, (n - 1) + 1)
  BY <1>2, <1>7, <1>8
<1>10. (n - 1) + 1 = n
  BY <1>0, <1>6
<1> QED  BY <1>5, <1>9, <1>10

PieceOf(byte, n) == IF n = 1 THEN <<byte>> ELSE <<byte, byte, n>>
IsEncoder(f, bytes) ==
  f = [i \in 1..(Len(bytes) + 1) |->
         IF i > Len(bytes) THEN <<>>
         ELSE PieceOf(bytes[i], RunLength(bytes, i)) \o f[i + RunLength(bytes, i)]]

LEMMA PieceIsSeq == ASSUME NEW b \in Nat, NEW n \in Nat \ {0} PROVE PieceOf(b, n) \in Seq(Nat)
BY DEF PieceOf

LEMMA EncoderExists ==
  ASSUME NEW bytes \in Seq(Nat)
  PROVE  \E f \in [1..(Len(bytes) + 1) -> Seq(Nat)] : IsEncoder(f, bytes) /\ RleEncode(bytes) = f[1]
<1> DEFINE L == Len(bytes)
           run == [i \in 1..L |-> RunLength(bytes, i)]
           piece == [i \in 1..L |-> PieceOf(bytes[i], run[i])]
           next == [i \in 1..L |-> i + run[i]]
<1>1. L \in Nat /\ \A i \in 1..L : bytes[i] \in Nat
  BY LenProperties, ElementOfSeq
<1>2. \A i \in 1..L : run[i] \in Nat \ {0} /\ i + run[i] <= L + 1
  <2> SUFFICES ASSUME NEW i \in 1..L
               PROVE  RunLength(bytes, i) \in Nat \ {0} /\ i + RunLength(bytes, i) <= L + 1
    OBVIOUS
  <2> DEFINE n == RunLength(bytes, i)
  <2>1. n \in 1..MaxRun /\ Run(bytes, i, n)
    BY RunLengthIs
  <2> HIDE DEF n
  <2>2. n \in Nat \ {0} /\ i + n - 1 <= L
    BY <2>1, MirrorAssumption DEF Run
  <2>3. i + n <= L + 1
    BY <1>1, <2>2
  <2> QED  BY <2>2, <2>3 DEF n
<1> HIDE DEF run
<1>3. piece \in [1..L -> Seq(Nat)]
  BY <1>1, <1>2, PieceIsSeq
<1>4. next \in [1..L -> 1..(L + 1)] /\ \A i \in 1..L : i < next[i]
  BY <1>1, <1>2
<1> HIDE DEF piece, next, L
<1>5. PICK f \in [1..(L + 1) -> Seq(Nat)] : Unfolds(f, L, piece, next)
  BY <1>1, <1>3, <1>4, UnfoldingExists
<1>6. \A g : Unfolds(g, L, piece, next) <=> IsEncoder(g, bytes)
  <2> SUFFICES ASSUME NEW g
               PROVE  [i \in 1..(L + 1) |-> IF i > L THEN <<>> ELSE piece[i] \o g[next[i]]]
                      = [i \in 1..(L + 1) |-> IF i > L THEN <<>>
                           ELSE PieceOf(bytes[i], RunLength(bytes, i)) \o g[i + RunLength(bytes, i)]]
    BY DEF Unfolds, IsEncoder, L
  <2> SUFFICES ASSUME NEW i \in 1..(L + 1), ~(i > L)
               PROVE  piece[i] \o g[next[i]]
                      = PieceOf(bytes[i], RunLength(bytes, i)) \o g[i + RunLength(bytes, i)]
    OBVIOUS
  <2>1. i \in 1..L
    BY <1>1
  <2> QED  BY <2>1 DEF piece, next, run
<1> DEFINE from == CHOOSE g : IsEncoder(g, bytes)
<1>7. IsEncoder(from, bytes)
  BY <1>5, <1>6
<1>8. RleEncode(bytes) = from[1]
  BY DEF RleEncode, IsEncoder, PieceOf
<1>9. from \in [1..(L + 1) -> Seq(Nat)]
  <2> HIDE DEF from
  <2> QED  BY <1>1, <1>3, <1>4, <1>6, <1>7, UnfoldingType
<1> HIDE DEF from
<1> QED  BY <1>7, <1>8, <1>9 DEF L

IsRepeated(encoded, i) == i < Len(encoded) - 1 /\ encoded[i + 1] = encoded[i]
IsDecoder(f, encoded) ==
  f = [i \in 1..(Len(encoded) + 1) |->
         IF i > Len(encoded) THEN <<>>
         ELSE IF IsRepeated(encoded, i) THEN [k \in 1..encoded[i + 2] |-> encoded[i]] \o f[i + 3]
         ELSE <<encoded[i]>> \o f[i + 1]]

LEMMA DecoderExists ==
  ASSUME NEW encoded \in Seq(Nat)
  PROVE  \E f \in [1..(Len(encoded) + 1) -> Seq(Nat)] :
           IsDecoder(f, encoded) /\ RleDecode(encoded) = f[1]
<1> DEFINE L == Len(encoded)
           piece == [i \in 1..L |-> IF IsRepeated(encoded, i)
                                    THEN [k \in 1..encoded[i + 2] |-> encoded[i]] ELSE <<encoded[i]>>]
           next == [i \in 1..L |-> IF IsRepeated(encoded, i) THEN i + 3 ELSE i + 1]
<1>1. L \in Nat /\ \A i \in 1..L : encoded[i] \in Nat
  BY LenProperties, ElementOfSeq
<1>2. piece \in [1..L -> Seq(Nat)]
  <2>1. ASSUME NEW i \in 1..L PROVE piece[i] \in Seq(Nat)
    <3>1. CASE IsRepeated(encoded, i)
      <4>1. i + 2 \in 1..L
        BY <1>1, <3>1 DEF IsRepeated
      <4>2. encoded[i + 2] \in Nat /\ encoded[i] \in Nat
        BY <1>1, <4>1
      <4>3. [k \in 1..encoded[i + 2] |-> encoded[i]] \in Seq(Nat)
        BY <4>2, IsASeq
      <4> QED  BY <3>1, <4>3
    <3>2. CASE ~IsRepeated(encoded, i)
      BY <1>1, <3>2
    <3> QED  BY <3>1, <3>2
  <2> QED  BY <2>1
<1>3. next \in [1..L -> 1..(L + 1)] /\ \A i \in 1..L : i < next[i]
  BY <1>1, SMTT(20) DEF IsRepeated
<1> HIDE DEF L
<1>4. \A g : Unfolds(g, L, piece, next) <=> IsDecoder(g, encoded)
  <2> SUFFICES ASSUME NEW g
               PROVE  [i \in 1..(L + 1) |-> IF i > L THEN <<>> ELSE piece[i] \o g[next[i]]]
                      = [i \in 1..(L + 1) |-> IF i > L THEN <<>>
                           ELSE IF IsRepeated(encoded, i)
                                THEN [k \in 1..encoded[i + 2] |-> encoded[i]] \o g[i + 3]
                           ELSE <<encoded[i]>> \o g[i + 1]]
    BY DEF Unfolds, IsDecoder, L
  <2>1. ASSUME NEW i \in 1..(L + 1), ~(i > L)
        PROVE  piece[i] \o g[next[i]]
               = IF IsRepeated(encoded, i) THEN [k \in 1..encoded[i + 2] |-> encoded[i]] \o g[i + 3]
                 ELSE <<encoded[i]>> \o g[i + 1]
    <3>1. i \in 1..L
      BY <1>1, <2>1
    <3> QED  BY <3>1
  <2> HIDE DEF piece, next
  <2> QED  BY <2>1
<1> HIDE DEF piece, next
<1>5. PICK f : Unfolds(f, L, piece, next)
  BY <1>1, <1>2, <1>3, UnfoldingExists
<1> DEFINE from == CHOOSE g : IsDecoder(g, encoded)
<1>6. IsDecoder(from, encoded)
  BY <1>4, <1>5
<1>7. RleDecode(encoded) = from[1]
  BY DEF RleDecode, IsDecoder, IsRepeated
<1>8. from \in [1..(L + 1) -> Seq(Nat)]
  <2> HIDE DEF from
  <2> QED  BY <1>1, <1>2, <1>3, <1>4, <1>6, UnfoldingType
<1> HIDE DEF from
<1> QED  BY <1>6, <1>7, <1>8 DEF L

Starts(sequence, with) == sequence[1] = with

(* What the encoder writes of the bytes from i on begins with byte i.      *)
LEMMA BeginsWith ==
  ASSUME NEW bytes \in Seq(Nat), NEW E \in [1..(Len(bytes) + 1) -> Seq(Nat)],
         IsEncoder(E, bytes), NEW i \in 1..Len(bytes)
  PROVE  LET n == RunLength(bytes, i) IN
         /\ n \in Nat \ {0} /\ i + n \in 1..(Len(bytes) + 1) /\ Run(bytes, i, n)
         /\ n # 1 \/ i + n > Len(bytes) \/ bytes[i + n] # bytes[i]
         /\ E[i] = PieceOf(bytes[i], n) \o E[i + n] /\ E[i + n] \in Seq(Nat)
         /\ bytes[i] \in Nat
         /\ Len(E[i]) > 0 /\ Starts(E[i], bytes[i])
<1> DEFINE n == RunLength(bytes, i)
           L == Len(bytes)
<1>1. /\ n \in 1..MaxRun /\ Run(bytes, i, n)
      /\ n = MaxRun \/ i + n > L \/ bytes[i + n] # bytes[i]
  BY RunLengthIs
<1>2. L \in Nat /\ bytes[i] \in Nat /\ MaxRun \in Nat \ {0, 1}
  BY LenProperties, ElementOfSeq, MirrorAssumption
<1> HIDE DEF n
<1>3. n \in Nat \ {0} /\ i + n \in 1..(L + 1)
  BY <1>1, <1>2 DEF Run
<1>4. n # 1 \/ i + n > L \/ bytes[i + n] # bytes[i]
  BY <1>1, <1>2
<1>5. E[i] = PieceOf(bytes[i], n) \o E[i + n]
  <2>1. i \in 1..(L + 1) /\ ~(i > L)
    BY <1>2
  <2> QED  BY <2>1 DEF IsEncoder, n
<1>6. E[i + n] \in Seq(Nat)
  BY <1>3
<1>7. PieceOf(bytes[i], n) \in Seq(Nat) /\ Len(PieceOf(bytes[i], n)) >= 1 /\ PieceOf(bytes[i], n)[1] = bytes[i]
  BY <1>2, <1>3 DEF PieceOf
<1>8. Len(E[i]) > 0 /\ Starts(E[i], bytes[i])
  <2> DEFINE p == PieceOf(bytes[i], n)
             r == E[i + n]
  <2>1. p \in Seq(Nat) /\ r \in Seq(Nat) /\ Len(p) \in Nat /\ Len(r) \in Nat /\ Len(p) >= 1
    BY <1>6, <1>7, LenProperties
  <2>0. E[i] = p \o r /\ p[1] = bytes[i]
    BY <1>5, <1>7
  <2> HIDE DEF p, r
  <2>2. Len(p \o r) = Len(p) + Len(r) /\ (p \o r)[1] = p[1]
    BY <2>1, ConcatProperties
  <2> DEFINE lp == Len(p)
             lr == Len(r)
  <2>3. lp \in Nat /\ lr \in Nat /\ lp >= 1 /\ Len(p \o r) = lp + lr
    BY <2>1, <2>2
  <2> HIDE DEF lp, lr
  <2>4. Len(p \o r) > 0
    BY <2>3
  <2> QED  BY <2>0, <2>2, <2>4 DEF Starts
<1> QED  BY <1>1, <1>2, <1>3, <1>4, <1>5, <1>6, <1>8 DEF n

(* What stands at and after a place of a sequence that is put together.    *)
LEMMA AfterPrefix ==
  ASSUME NEW p \in Seq(Nat), NEW r \in Seq(Nat)
  PROVE  /\ Len(p) \in Nat /\ Len(r) \in Nat /\ Len(p \o r) = Len(p) + Len(r) /\ p \o r \in Seq(Nat)
         /\ \A k \in 1..Len(r) : (p \o r)[Len(p) + k] = r[k]
<1>1. Len(p) \in Nat /\ Len(r) \in Nat
  BY LenProperties
<1>2. /\ Len(p \o r) = Len(p) + Len(r) /\ p \o r \in Seq(Nat)
      /\ \A j \in 1..(Len(p) + Len(r)) : (p \o r)[j] = IF j <= Len(p) THEN p[j] ELSE r[j - Len(p)]
  BY ConcatProperties
<1> DEFINE m == Len(p)
           l == Len(r)
           c == p \o r
<1> HIDE DEF m, l, c
<1>3. ASSUME NEW k \in 1..l PROVE c[m + k] = r[k]
  <2>1. m + k \in 1..(m + l) /\ ~(m + k <= m) /\ (m + k) - m = k
    BY <1>1 DEF m, l
  <2> QED  BY <1>2, <2>1 DEF m, l, c
<1> QED  BY <1>1, <1>2, <1>3 DEF m, l, c

Suffix(bytes, i) == SubSeq(bytes, i, Len(bytes))

LEMMA SuffixSplits ==
  ASSUME NEW bytes \in Seq(Nat), NEW i \in 1..Len(bytes), NEW n \in Nat \ {0}, Run(bytes, i, n)
  PROVE  Suffix(bytes, i) = [k \in 1..n |-> bytes[i]] \o Suffix(bytes, i + n)
<1> DEFINE L == Len(bytes)
           a == SubSeq(bytes, i, i + n - 1)
<1>1. L \in Nat /\ i + n - 1 <= L /\ i + n - 1 \in i..L
  BY LenProperties DEF Run
<1> DEFINE m == i + n - 1
<1>2. Suffix(bytes, i) = a \o SubSeq(bytes, i + n, L)
  <2>1. m \in (i - 1)..L /\ i \in 1..(L + 1) /\ L \in m..L /\ m + 1 = i + n
    BY <1>1
  <2> HIDE DEF m
  <2>2. SubSeq(bytes, i, m) \o SubSeq(bytes, m + 1, L) = SubSeq(bytes, i, L)
    <3> HIDE DEF L
    <3> QED  BY <2>1, ConcatAdjacentSubSeq DEF L
  <2> QED  BY <2>1, <2>2 DEF Suffix, m
<1>3. a = [k \in 1..n |-> bytes[i]]
  <2>1. a = [k \in 1..n |-> bytes[i + k - 1]]
    BY <1>1
  <2>2. \A k \in 1..n : i + k - 1 \in i..(i + n - 1) /\ bytes[i + k - 1] = bytes[i]
    BY <1>1 DEF Run
  <2> QED  BY <2>1, <2>2
<1> QED  BY <1>2, <1>3 DEF Suffix

RegroupsTo(p, q, r) == p \o q \in Seq(Nat) /\ (p \o q) \o r = p \o (q \o r)

LEMMA Regroup ==
  ASSUME NEW p \in Seq(Nat), NEW q \in Seq(Nat), NEW r \in Seq(Nat)
  PROVE  RegroupsTo(p, q, r)
<1>1. p \o q \in Seq(Nat)
  BY ConcatProperties
<1>2. (p \o q) \o r = p \o (q \o r)
  BY ConcatAssociative, SMTT(30)
<1> QED  BY <1>1, <1>2 DEF RegroupsTo

(* Wherever the bytes from i on begin in what was encoded, they are what   *)
(* is decoded from there.                                                  *)
Decodes(D, encoded, E, bytes, i) ==
  \A p \in Seq(Nat) : encoded = p \o E[i] => D[Len(p) + 1] = Suffix(bytes, i)

LEMMA DecodesPiece ==
  ASSUME NEW bytes \in Seq(Nat), NEW E \in [1..(Len(bytes) + 1) -> Seq(Nat)], IsEncoder(E, bytes),
         NEW encoded \in Seq(Nat), NEW D, IsDecoder(D, encoded),
         NEW i \in 1..Len(bytes), Decodes(D, encoded, E, bytes, i + RunLength(bytes, i))
  PROVE  Decodes(D, encoded, E, bytes, i)
<1> SUFFICES ASSUME NEW p \in Seq(Nat), encoded = p \o E[i] PROVE D[Len(p) + 1] = Suffix(bytes, i)
  BY DEF Decodes
<1> DEFINE n == RunLength(bytes, i)
<1>0. /\ n \in Nat \ {0} /\ i + n \in 1..(Len(bytes) + 1) /\ Run(bytes, i, n)
      /\ n # 1 \/ i + n > Len(bytes) \/ bytes[i + n] # bytes[i]
      /\ E[i] = PieceOf(bytes[i], n) \o E[i + n] /\ E[i + n] \in Seq(Nat)
      /\ bytes[i] \in Nat
      /\ Len(E[i]) > 0 /\ Starts(E[i], bytes[i])
  BY BeginsWith
<1>a. \A j \in 1..Len(bytes) : Len(E[j]) > 0 /\ Starts(E[j], bytes[j])
  BY BeginsWith
<1> DEFINE b == bytes[i]
           rest == E[i + n]
           piece == PieceOf(b, n)
           L == Len(encoded)
           l == Len(p)
           r == Len(rest)
           a == l + 1
<1>1. /\ n \in Nat \ {0} /\ i + n \in 1..(Len(bytes) + 1) /\ Run(bytes, i, n)
      /\ n # 1 \/ i + n > Len(bytes) \/ bytes[i + n] # b
      /\ E[i] = piece \o rest /\ rest \in Seq(Nat) /\ b \in Nat
  BY <1>0
<1>2. Suffix(bytes, i) = [k \in 1..n |-> b] \o Suffix(bytes, i + n)
  BY <1>1, SuffixSplits
<1>3. r > 0 => /\ i + n \in 1..Len(bytes) /\ rest[1] = bytes[i + n]
  <2> SUFFICES ASSUME r > 0 PROVE i + n \in 1..Len(bytes) /\ rest[1] = bytes[i + n]
    OBVIOUS
  <2>1. i + n \in 1..Len(bytes)
    <3> SUFFICES ASSUME i + n > Len(bytes) PROVE FALSE
      BY <1>1
    <3>1. rest = <<>>
      BY <1>1 DEF IsEncoder
    <3> QED  BY <3>1, EmptySeq
  <2> QED  BY <1>a, <2>1 DEF Starts
<1>3a. i + n \in 1..Len(bytes) => r > 0
  BY <1>a
<1>4. piece \in Seq(Nat)
  BY <1>1, PieceIsSeq
<1>5. p \o piece \in Seq(Nat) /\ encoded = (p \o piece) \o rest
  <2>1. encoded = p \o (piece \o rest)
    BY <1>1
  <2>2. rest \in Seq(Nat)
    BY <1>1
  <2> HIDE DEF piece, rest
  <2>3. RegroupsTo(p, piece, rest)
    BY <1>4, <2>2, Regroup
  <2> QED  BY <2>1, <2>3, Zenon DEF RegroupsTo
<1>6. D[Len(p \o piece) + 1] = Suffix(bytes, i + n)
  BY <1>5 DEF Decodes
<1>7. /\ l \in Nat /\ r \in Nat /\ L = l + Len(piece \o rest) /\ Len(piece \o rest) = Len(piece) + r
      /\ Len(p \o piece) = l + Len(piece) /\ Len(piece) \in Nat
      /\ \A k \in 1..Len(piece \o rest) : encoded[l + k] = (piece \o rest)[k]
      /\ \A k \in 1..r : (piece \o rest)[Len(piece) + k] = rest[k]
  <2>1. piece \o rest \in Seq(Nat) /\ Len(piece) \in Nat
    BY <1>1, <1>4, ConcatProperties, LenProperties
  <2>2. encoded = p \o (piece \o rest)
    BY <1>1
  <2> DEFINE both == piece \o rest
  <2>a. both \in Seq(Nat) /\ encoded = p \o both
    BY <2>1, <2>2
  <2>3. l \in Nat /\ Len(both) \in Nat /\ L = l + Len(both) /\ \A k \in 1..Len(both) : encoded[l + k] = both[k]
    <3> HIDE DEF both
    <3> QED  BY <2>a, AfterPrefix, SMTT(20)
  <2>4. r \in Nat /\ Len(both) = Len(piece) + r /\ \A k \in 1..r : both[Len(piece) + k] = rest[k]
    <3> HIDE DEF piece, rest
    <3> QED  BY <1>1, <1>4, AfterPrefix
  <2>5. Len(p \o piece) = l + Len(piece)
    <3> HIDE DEF piece, rest
    <3> QED  BY <1>4, AfterPrefix
  <2> QED  BY <2>1, <2>3, <2>4, <2>5
<1>8. a \in 1..(L + 1) => D[a] = IF a > L THEN <<>>
                ELSE IF IsRepeated(encoded, a) THEN [k \in 1..encoded[a + 2] |-> encoded[a]] \o D[a + 3]
                ELSE <<encoded[a]>> \o D[a + 1]
  BY DEF IsDecoder
<1>9. CASE n = 1
  <2>1. piece = <<b>> /\ Len(piece) = 1
    BY <1>9 DEF PieceOf
  <2>2. (piece \o rest)[1] = b
    BY <1>1, <2>1, ConcatProperties
  <2>3. r > 0 => bytes[i + n] # b
    BY <1>1, <1>3, <1>9
  <2> HIDE DEF rest, piece, L, l, r, n, b
  <2>4. L = l + 1 + r
    BY <1>7, <2>1
  <2>5. encoded[a] = b
    <3>1. 1 \in 1..Len(piece \o rest) /\ l + 1 = a
      BY <1>7, <2>1
    <3> QED  BY <1>7, <2>2, <3>1
  <2>6. r > 0 => encoded[a + 1] # encoded[a]
    <3> SUFFICES ASSUME r > 0 PROVE encoded[a + 1] # encoded[a]
      OBVIOUS
    <3>1. 2 \in 1..Len(piece \o rest) /\ 1 \in 1..r /\ Len(piece) + 1 = 2 /\ l + 2 = a + 1
      BY <1>7, <2>1
    <3>2. encoded[a + 1] = rest[1]
      BY <1>7, <3>1
    <3> QED  BY <1>3, <2>3, <2>5, <3>2
  <2>7. a \in 1..(L + 1) /\ ~(a > L) /\ ~IsRepeated(encoded, a)
    <3>0. l \in Nat /\ r \in Nat /\ a = l + 1
      BY <1>7
    <3>1. a \in 1..(L + 1) /\ ~(a > L) /\ (r > 0 \/ ~(a < L - 1))
      BY <2>4, <3>0
    <3> QED  BY <2>6, <3>1 DEF IsRepeated, L
  <2>8. D[a] = <<b>> \o D[a + 1]
    BY <1>8, <2>5, <2>7
  <2>9. D[a + 1] = Suffix(bytes, i + n)
    <3>1. Len(p \o piece) + 1 = a + 1
      BY <1>7, <2>1
    <3> QED  BY <1>6, <3>1
  <2>10. [k \in 1..n |-> b] = <<b>>
    BY <1>9
  <2> QED  BY <1>2, <2>8, <2>9, <2>10 DEF l
<1>10. CASE n # 1
  <2>1. piece = <<b, b, n>> /\ Len(piece) = 3
    BY <1>10 DEF PieceOf
  <2>2. (piece \o rest)[1] = b /\ (piece \o rest)[2] = b /\ (piece \o rest)[3] = n
    <3>1. piece[1] = b /\ piece[2] = b /\ piece[3] = n
      BY <2>1
    <3> QED  BY <1>1, <1>4, <1>7, <2>1, <3>1, ConcatProperties
  <2> HIDE DEF rest, piece, L, l, r, n, b
  <2>3. L = l + 3 + r
    BY <1>7, <2>1
  <2>4. encoded[a] = b /\ encoded[a + 1] = b /\ encoded[a + 2] = n
    <3>1. /\ 1 \in 1..Len(piece \o rest) /\ 2 \in 1..Len(piece \o rest) /\ 3 \in 1..Len(piece \o rest)
          /\ l + 1 = a /\ l + 2 = a + 1 /\ l + 3 = a + 2
      BY <1>7, <2>1
    <3> QED  BY <1>7, <2>2, <3>1
  <2>5. a \in 1..(L + 1) /\ ~(a > L) /\ IsRepeated(encoded, a)
    <3>1. a \in 1..(L + 1) /\ ~(a > L) /\ a < L - 1
      BY <1>7, <2>3
    <3> QED  BY <2>4, <3>1 DEF IsRepeated, L
  <2>6. D[a] = [k \in 1..n |-> b] \o D[a + 3]
    BY <1>8, <2>4, <2>5
  <2>7. D[a + 3] = Suffix(bytes, i + n)
    <3>1. Len(p \o piece) + 1 = a + 3
      BY <1>7, <2>1
    <3> QED  BY <1>6, <3>1
  <2> QED  BY <1>2, <2>6, <2>7 DEF l
<1> QED  BY <1>9, <1>10

(* rleDecodeDiff() takes apart what the daemon's encoder put together: no  *)
(* bytes look like a run that are none, and no run like two.               *)
THEOREM RunLengthCodeIsLossless == \A bytes \in Seq(Nat) : RleDecode(RleEncode(bytes)) = bytes
<1> SUFFICES ASSUME NEW bytes \in Seq(Nat) PROVE RleDecode(RleEncode(bytes)) = bytes
  OBVIOUS
<1> DEFINE L == Len(bytes)
<1>1. PICK E \in [1..(L + 1) -> Seq(Nat)] : IsEncoder(E, bytes) /\ RleEncode(bytes) = E[1]
  BY EncoderExists
<1>2. L \in Nat
  BY LenProperties
<1> DEFINE encoded == E[1]
<1>3. encoded \in Seq(Nat)
  BY <1>2
<1>4. PICK D : IsDecoder(D, encoded) /\ RleDecode(encoded) = D[1]
  BY <1>3, DecoderExists
<1> DEFINE Right(i) == Decodes(D, encoded, E, bytes, i)
           Wrong == {k \in 0..L : ~Right(L + 1 - k)}
<1>5. Right(L + 1)
  <2> SUFFICES ASSUME NEW p \in Seq(Nat), encoded = p \o E[L + 1]
               PROVE  D[Len(p) + 1] = Suffix(bytes, L + 1)
    BY DEF Decodes
  <2>1. E[L + 1] = <<>>
    BY <1>1, <1>2 DEF IsEncoder
  <2>2. encoded = p
    BY <2>1, ConcatEmptySeq
  <2> HIDE DEF encoded
  <2>3. Len(p) \in Nat
    BY LenProperties
  <2>4. D[Len(p) + 1] = <<>>
    BY <1>4, <2>2, <2>3 DEF IsDecoder
  <2>5. Suffix(bytes, L + 1) = <<>>
    BY <1>2, SubSeqEmpty DEF Suffix
  <2> QED  BY <2>4, <2>5
<1>6. ASSUME NEW i \in 1..L, Right(i + RunLength(bytes, i)) PROVE Right(i)
  <2> HIDE DEF encoded
  <2> QED  BY <1>1, <1>3, <1>4, <1>6, DecodesPiece
<1> HIDE DEF Right
<1>7. Wrong = {}
  <2> SUFFICES ASSUME Wrong # {} PROVE FALSE
    OBVIOUS
  <2>1. Wrong \subseteq Nat
    OBVIOUS
  <2>2. PICK k \in Wrong : \A m \in Wrong : k <= m
    BY <2>1, LeastNumber
  <2> DEFINE i == L + 1 - k
             m == L + 1 - (i + RunLength(bytes, i))
  <2>3. k \in 0..L /\ ~Right(i)
    BY <2>2
  <2>4. k # 0
    BY <1>2, <1>5, <2>3
  <2>5. i \in 1..L
    BY <1>2, <2>3, <2>4
  <2>6. RunLength(bytes, i) \in Nat \ {0} /\ i + RunLength(bytes, i) \in 1..(L + 1)
    <3> HIDE DEF i
    <3> QED  BY <1>1, <2>5, BeginsWith
  <2>7. ~Right(i + RunLength(bytes, i))
    BY <1>6, <2>3, <2>5
  <2> DEFINE n == RunLength(bytes, i)
  <2> HIDE DEF n, L
  <2>a. i \in 1..L /\ n \in Nat \ {0} /\ i + n \in 1..(L + 1) /\ m = L + 1 - (i + n)
    BY <2>5, <2>6 DEF n
  <2>8. m \in 0..L /\ L + 1 - m = i + n /\ m < k
    BY <1>2, <2>3, <2>a
  <2> HIDE DEF m
  <2>9. m \in Wrong
    BY <2>7, <2>8 DEF n
  <2>10. \A j \in Wrong : ~(j < k)
    BY <2>1, <2>2
  <2> QED  BY <2>8, <2>9, <2>10
<1>8. Right(1)
  <2>1. CASE L = 0
    BY <1>5, <2>1
  <2>2. CASE L # 0
    <3>1. L \in 0..L /\ L + 1 - L = 1
      BY <1>2
    <3> QED  BY <1>7, <3>1
  <2> QED  BY <2>1, <2>2
<1>9. <<>> \in Seq(Nat) /\ Len(<<>>) + 1 = 1 /\ encoded = <<>> \o E[1]
  BY <1>3, ConcatEmptySeq, EmptySeq
<1>10. Suffix(bytes, 1) = bytes
  BY SubSeqFull DEF Suffix
<1> QED  BY <1>1, <1>4, <1>8, <1>9, <1>10 DEF Right, Decodes
-----------------------------------------------------------------------------
(* Status buffers and what is made of them.                                *)
OrEmpty(bytes) == IF bytes = Unknown THEN <<>> ELSE bytes

LEMMA BufferIsSeq ==
  ASSUME NEW bytes \in Buffer
  PROVE  /\ bytes \in Seq(Nat) /\ bytes # Unknown
         /\ \E n \in 0..MaxParts : DOMAIN bytes = 1..n /\ bytes \in [1..n -> 0..1]
<1>1. PICK n \in 0..MaxParts : bytes \in [1..n -> 0..1]
  BY DEF Buffer
<1>2. bytes \in Seq(Nat)
  <2>1. n \in Nat /\ bytes \in [1..n -> Nat]
    BY <1>1, MirrorAssumption
  <2> QED  BY <2>1, SeqDef
<1> QED  BY <1>1, <1>2, UnknownAssumption

LEMMA EmptyIsBuffer == <<>> \in Buffer
<1>1. <<>> \in [1..0 -> 0..1] /\ 0 \in 0..MaxParts
  BY MirrorAssumption
<1> QED  BY <1>1 DEF Buffer

LEMMA BitAt == ASSUME NEW bytes \in Buffer, NEW i PROVE At(bytes, i) \in 0..1
<1>1. PICK n \in 0..MaxParts : DOMAIN bytes = 1..n /\ bytes \in [1..n -> 0..1]
  BY BufferIsSeq
<1> QED  BY <1>1 DEF At

LEMMA XorOfBits ==
  ASSUME NEW x \in 0..1, NEW y \in 0..1
  PROVE  (x + y) % 2 \in 0..1 /\ (x + ((x + y) % 2)) % 2 = y /\ (0 + y) % 2 = y
<1>1. (x = 0 \/ x = 1) /\ (y = 0 \/ y = 1)
  OBVIOUS
<1> QED  BY <1>1

LEMMA XorBuffers ==
  ASSUME NEW old \in Buffer, NEW new \in Buffer
  PROVE  Xor(old, new) \in Buffer /\ Xor(old, Xor(old, new)) = new /\ Xor(<<>>, new) = new
<1>1. PICK n \in 0..MaxParts : DOMAIN new = 1..n /\ new \in [1..n -> 0..1]
  BY BufferIsSeq
<1>2. \A i \in 1..n : At(old, i) \in 0..1 /\ new[i] \in 0..1
  BY <1>1, BitAt
<1> DEFINE x == Xor(old, new)
<1>3. DOMAIN x = 1..n /\ \A i \in 1..n : x[i] = (At(old, i) + new[i]) % 2
  BY <1>1 DEF Xor
<1>4. \A i \in 1..n : x[i] \in 0..1
  BY <1>2, <1>3, XorOfBits
<1>5. x \in [1..n -> 0..1]
  <2>1. x = [i \in 1..n |-> x[i]]
    BY <1>3 DEF Xor
  <2> HIDE DEF x
  <2> QED  BY <1>4, <2>1
<1>6. x \in Buffer
  BY <1>5 DEF Buffer
<1>7. Xor(old, x) = new
  <2>1. Xor(old, x) = [i \in 1..n |-> (At(old, i) + x[i]) % 2]
    BY <1>3 DEF Xor
  <2>2. \A i \in 1..n : (At(old, i) + x[i]) % 2 = new[i]
    BY <1>2, <1>3, XorOfBits
  <2> HIDE DEF x
  <2> QED  BY <1>1, <2>1, <2>2
<1>8. Xor(<<>>, new) = new
  <2>1. Xor(<<>>, new) = [i \in 1..n |-> (0 + new[i]) % 2]
    BY <1>1 DEF Xor, At
  <2>2. \A i \in 1..n : (0 + new[i]) % 2 = new[i]
    BY <1>2, XorOfBits
  <2> QED  BY <1>1, <2>1, <2>2
<1> QED  BY <1>6, <1>7, <1>8

LEMMA Encoded ==
  ASSUME NEW bytes \in Buffer
  PROVE  RleEncode(bytes) # Unknown /\ RleDecode(RleEncode(bytes)) = bytes
<1>1. bytes \in Seq(Nat)
  BY BufferIsSeq
<1>2. PICK E \in [1..(Len(bytes) + 1) -> Seq(Nat)] : RleEncode(bytes) = E[1]
  BY <1>1, EncoderExists
<1>3. RleEncode(bytes) \in Seq(Nat)
  <2>1. 1 \in 1..(Len(bytes) + 1)
    BY <1>1, LenProperties
  <2> QED  BY <1>2, <2>1
<1> QED  BY <1>1, <1>3, RunLengthCodeIsLossless, UnknownAssumption

(* What StatusSent() makes of the value told last and the present one.     *)
DiffOf(told, now, resetsEncoder) ==
  IF resetsEncoder THEN RleEncode(now)
  ELSE IF now = told THEN Unknown
  ELSE RleEncode(Xor(told, now))

(* Whatever was cached, a buffer results; the right one if the daemon      *)
(* started afresh or if what was cached is what it told last.              *)
LEMMA StatusResolved ==
  ASSUME NEW cached \in Buffer \union {Unknown}, NEW told \in Buffer, NEW now \in Buffer,
         NEW resets \in BOOLEAN
  PROVE  LET held == ResolveBytes(cached, DiffOf(told, now, resets), resets) IN
         /\ held \in Buffer \union {Unknown}
         /\ resets => held = now
         /\ OrEmpty(cached) = told => OrEmpty(held) = now
<1> DEFINE held == ResolveBytes(cached, DiffOf(told, now, resets), resets)
<1>1. now # Unknown /\ told # Unknown
  BY BufferIsSeq
<1>2. OrEmpty(cached) \in Buffer
  BY EmptyIsBuffer DEF OrEmpty
<1>3. CASE resets
  <2>1. held = Xor(<<>>, now)
    BY <1>3, Encoded DEF ResolveBytes, DiffOf, BaseOf, Reconstruct
  <2>2. held = now
    BY <2>1, XorBuffers
  <2> QED  BY <1>1, <2>2 DEF OrEmpty
<1>4. CASE ~resets /\ now = told
  BY <1>4 DEF ResolveBytes, DiffOf, BaseOf
<1>5. CASE ~resets /\ now # told
  <2> DEFINE x == Xor(told, now)
  <2>1. x \in Buffer
    BY XorBuffers
  <2>2. RleEncode(x) # Unknown /\ RleDecode(RleEncode(x)) = x
    <3> HIDE DEF x
    <3> QED  BY <2>1, Encoded
  <2>3. held = Xor(OrEmpty(cached), x)
    BY <1>5, <2>2 DEF ResolveBytes, DiffOf, BaseOf, Reconstruct, OrEmpty
  <2>4. held \in Buffer
    <3> HIDE DEF x, held
    <3> QED  BY <1>2, <2>1, <2>3, XorBuffers
  <2>5. OrEmpty(cached) = told => OrEmpty(held) = now
    <3>1. OrEmpty(cached) = told => held = now
      BY <2>3, XorBuffers
    <3> HIDE DEF held
    <3> QED  BY <1>1, <3>1 DEF OrEmpty
  <2> QED  BY <1>5, <2>4, <2>5
<1> QED  BY <1>3, <1>4, <1>5

(* Maps of names and the changes that are sent of them.                    *)
LEMMA NamesAre ==
  \A names : names \in Names <=> /\ DOMAIN names \subseteq NameId
                                 /\ names \in [DOMAIN names -> 1..MaxCount]
BY DEF Names

LEMMA CountIs ==
  ASSUME NEW names \in Names, NEW n
  PROVE  Count(names, n) \in 0..MaxCount /\ (Count(names, n) # 0 <=> n \in DOMAIN names)
BY NamesAre, MirrorAssumption DEF Count

Deltas == UNION {[N -> [named : BOOLEAN, count : 0..MaxCount]] : N \in SUBSET NameId}

LEMMA DeltaRecord ==
  \A named \in BOOLEAN, count \in 0..MaxCount :
    [named |-> named, count |-> count] \in [named : BOOLEAN, count : 0..MaxCount]
OBVIOUS

LEMMA DeltasAre ==
  \A delta : delta \in Deltas <=> /\ DOMAIN delta \subseteq NameId
                                  /\ delta \in [DOMAIN delta -> [named : BOOLEAN, count : 0..MaxCount]]
BY DEF Deltas

(* Merging gives what a change says of a name it is about, if the change   *)
(* says the name or the name is known, and leaves the others alone.        *)
LEMMA NamesMerged ==
  ASSUME NEW base \in Names \union {Unknown}, NEW delta \in Deltas
  PROVE  LET merged == MergeNames(base, delta) IN
         /\ merged \in Names
         /\ \A n \in DOMAIN delta : delta[n].named \/ Told(base, n) # 0
              => Count(merged, n) = delta[n].count
         /\ \A n : n \notin DOMAIN delta => Count(merged, n) = Told(base, n)
         /\ \A n \in DOMAIN delta : delta[n].count = 0 => Count(merged, n) = 0
<1> DEFINE known == IF base = Unknown THEN {} ELSE DOMAIN base
           forgotten == {n \in DOMAIN delta : delta[n].count = 0}
           learnt == {n \in DOMAIN delta \ forgotten : delta[n].named \/ n \in known}
           all == (known \ forgotten) \union learnt
           merged == MergeNames(base, delta)
<1>1. merged = [n \in all |-> IF n \in DOMAIN delta THEN delta[n].count ELSE base[n]]
  BY DEF MergeNames
<1>2. \A n \in DOMAIN delta : n \in NameId /\ delta[n].count \in 0..MaxCount /\ delta[n].named \in BOOLEAN
  BY DeltasAre
<1>3. known \subseteq NameId /\ \A n \in known : base[n] \in 1..MaxCount /\ Told(base, n) = base[n]
  BY NamesAre DEF Told, Count
<1>4. \A n : Told(base, n) # 0 <=> n \in known
  BY <1>3, CountIs DEF Told, Count
<1>5. all \subseteq NameId
  BY <1>2, <1>3
<1> HIDE DEF merged
<1>6. DOMAIN merged = all
  BY <1>1
<1>7. \A n \in all : merged[n] = IF n \in DOMAIN delta THEN delta[n].count ELSE base[n]
  BY <1>1
<1>8. ASSUME NEW n \in all PROVE merged[n] \in 1..MaxCount
  <2>1. CASE n \in DOMAIN delta
    <3>1. n \notin forgotten
      BY <1>8
    <3>2. delta[n].count # 0
      BY <2>1, <3>1
    <3> HIDE DEF all
    <3> QED  BY <1>2, <1>7, <1>8, <2>1, <3>2, MirrorAssumption
  <2>2. CASE n \notin DOMAIN delta
    <3>1. n \in known
      BY <1>8, <2>2
    <3> QED  BY <1>3, <1>7, <1>8, <2>2, <3>1
  <2> QED  BY <2>1, <2>2
<1>9. merged \in Names
  <2>1. merged = [n \in all |-> merged[n]]
    BY <1>1
  <2> HIDE DEF all
  <2> QED  BY <1>5, <1>6, <1>8, <2>1, NamesAre
<1>10. \A n \in forgotten : Count(merged, n) = 0
  BY <1>6 DEF Count
<1>11. ASSUME NEW n \in DOMAIN delta, delta[n].named \/ n \in known
       PROVE  Count(merged, n) = delta[n].count
  <2>1. CASE n \in forgotten
    BY <1>10, <2>1
  <2>2. CASE n \notin forgotten
    <3>1. n \in all
      BY <1>11, <2>2
    <3> HIDE DEF all
    <3> QED  BY <1>6, <1>7, <1>11, <3>1 DEF Count
  <2> QED  BY <2>1, <2>2
<1>12. ASSUME NEW n, n \notin DOMAIN delta PROVE Count(merged, n) = Told(base, n)
  <2>1. n \in all <=> n \in known
    BY <1>12
  <2>2. n \notin known => Told(base, n) = 0
    BY <1>4
  <2>3. n \in all => merged[n] = base[n]
    BY <1>7, <1>12
  <2> HIDE DEF all, known
  <2> QED  BY <1>3, <1>6, <2>1, <2>2, <2>3 DEF Count
<1>13. \A n \in DOMAIN delta : delta[n].count = 0 => n \in forgotten
  OBVIOUS
<1> HIDE DEF all, known, forgotten
<1> QED  BY <1>4, <1>9, <1>10, <1>11, <1>12, <1>13 DEF merged

(* What NamesSent() makes of the names told last and the present ones.     *)
Changed(told, now) == {n \in NameId : Count(told, n) # Count(now, n)}
DeltaOf(told, now) ==
  [n \in Changed(told, now) |-> [named |-> n \notin DOMAIN told, count |-> Count(now, n)]]

LEMMA NamesResolved ==
  ASSUME NEW cached \in Names \union {Unknown}, NEW told \in Names, NEW now \in Names
  PROVE  LET held == ResolveNames(cached, DeltaOf(told, now)) IN
         /\ held \in Names \union {Unknown}
         /\ (\A n \in NameId : Told(cached, n) = Count(told, n))
              => \A n \in NameId : Told(held, n) = Count(now, n)
<1> DEFINE delta == DeltaOf(told, now)
           held == ResolveNames(cached, delta)
           merged == MergeNames(cached, delta)
<1>1. /\ DOMAIN delta = Changed(told, now)
      /\ \A n \in Changed(told, now) : delta[n] = [named |-> n \notin DOMAIN told, count |-> Count(now, n)]
  BY DEF DeltaOf
<1>1a. \A n \in DOMAIN delta : delta[n].named = (n \notin DOMAIN told) /\ delta[n].count = Count(now, n)
  BY <1>1
<1>2. delta \in Deltas
  <2>1. DOMAIN delta \subseteq NameId
    BY <1>1 DEF Changed
  <2>2. ASSUME NEW n \in DOMAIN delta PROVE delta[n] \in [named : BOOLEAN, count : 0..MaxCount]
    <3>1. Count(now, n) \in 0..MaxCount
      BY CountIs
    <3>2. delta[n] = [named |-> n \notin DOMAIN told, count |-> Count(now, n)]
      BY <1>1, <2>2
    <3> HIDE DEF delta
    <3> QED  BY <3>1, <3>2, DeltaRecord
  <2>3. delta = [n \in DOMAIN delta |-> delta[n]]
    BY DEF DeltaOf
  <2> HIDE DEF delta
  <2> QED  BY <2>1, <2>2, <2>3, DeltasAre
<1> HIDE DEF delta
<1>3. /\ merged \in Names
      /\ \A n \in DOMAIN delta : delta[n].named \/ Told(cached, n) # 0
              => Count(merged, n) = delta[n].count
      /\ \A n : n \notin DOMAIN delta => Count(merged, n) = Told(cached, n)
  BY <1>2, NamesMerged
<1>4. held = IF DOMAIN delta = {} THEN cached ELSE merged
  BY DEF ResolveNames
<1> HIDE DEF held, merged
<1>5. held \in Names \union {Unknown}
  BY <1>3, <1>4
<1>6. ASSUME \A n \in NameId : Told(cached, n) = Count(told, n), NEW n \in NameId
      PROVE  Told(held, n) = Count(now, n)
  <2>1. CASE DOMAIN delta = {}
    <3>1. Count(told, n) = Count(now, n)
      BY <1>1, <2>1 DEF Changed
    <3> QED  BY <1>4, <1>6, <2>1, <3>1
  <2>2. CASE DOMAIN delta # {}
    <3>1. Told(held, n) = Count(merged, n)
      BY <1>3, <1>4, <2>2, UnknownAssumption DEF Told
    <3>2. CASE n \in DOMAIN delta
      <4>1. delta[n].named \/ Told(cached, n) # 0
        BY <1>1a, <1>6, <3>2, CountIs
      <4> QED  BY <1>1a, <1>3, <3>1, <3>2, <4>1
    <3>3. CASE n \notin DOMAIN delta
      <4>1. Count(told, n) = Count(now, n)
        BY <1>1, <3>3 DEF Changed
      <4> QED  BY <1>3, <1>6, <3>1, <3>3, <4>1
    <3> QED  BY <3>2, <3>3
  <2> QED  BY <2>1, <2>2
<1> QED  BY <1>5, <1>6 DEF held, delta

LEMMA AsUpdateIsDelta == ASSUME NEW names \in Names PROVE AsUpdate(names) \in Deltas
<1> DEFINE delta == AsUpdate(names)
<1>1. DOMAIN delta = DOMAIN names /\ \A n \in DOMAIN names : delta[n] = [named |-> TRUE, count |-> names[n]]
  BY DEF AsUpdate
<1>2. DOMAIN names \subseteq NameId /\ \A n \in DOMAIN names : names[n] \in 0..MaxCount
  BY NamesAre
<1>3. delta = [n \in DOMAIN delta |-> delta[n]]
  BY DEF AsUpdate
<1> HIDE DEF delta
<1>4. ASSUME NEW n \in DOMAIN delta PROVE delta[n] \in [named : BOOLEAN, count : 0..MaxCount]
  <2>1. names[n] \in 0..MaxCount /\ delta[n] = [named |-> TRUE, count |-> names[n]]
    BY <1>1, <1>2, <1>4
  <2>2. TRUE \in BOOLEAN
    OBVIOUS
  <2> QED  BY <2>1, <2>2, DeltaRecord
<1>5. delta \in Deltas
  BY <1>1, <1>2, <1>3, <1>4, DeltasAre
<1> QED  BY <1>5 DEF delta
-----------------------------------------------------------------------------
(* The inductive invariant.  Ids are never given again: what the client    *)
(* keeps was given, and of an id not given yet nothing is kept.  On the    *)
(* first socket the caches hold what the daemon told, and it still has to  *)
(* tell of the files that are shown and left.                              *)
GivenIds ==
  /\ Queue \subseteq used /\ listed \subseteq used /\ tracked \subseteq used
  /\ Queue \intersect tracked \subseteq listed
  /\ \A e \in Ecid \ used :
       encoder[e] = NothingTold /\ statusCache[e] = Unknown /\ namesCache[e] = Unknown

Matches(bytes, names, told) ==
  /\ OrEmpty(bytes) = told.status
  /\ \A n \in NameId : Told(names, n) = Count(told.names, n)

CachesMatch == socket = 1 => \A e \in Queue : Matches(statusCache[e], namesCache[e], encoder[e])

RemovalsToTell ==
  socket = 1 => \A e \in Ecid : mirror[e] # Unknown => e \in Queue \/ e \in removed

LiveInv == MirrorTypeOK /\ GivenIds /\ CachesMatch /\ RemovalsToTell

LEMMA NothingToldIsFile ==
  /\ NothingTold \in File /\ NothingTold.status = <<>> /\ \A n : Count(NothingTold.names, n) = 0
  /\ \A n : Told(Unknown, n) = 0
  /\ OrEmpty(Unknown) = <<>>
<1>1. [n \in {} |-> 0] \in Names /\ \A n : Count([k \in {} |-> 0], n) = 0
  BY NamesAre DEF Count
<1>2. NothingTold.status = <<>> /\ NothingTold.names = [n \in {} |-> 0]
  BY DEF NothingTold
<1>3. NothingTold \in File
  <2> DEFINE none == [n \in {} |-> 0]
  <2>1. none \in Names /\ NothingTold = [status |-> <<>>, names |-> none]
    BY <1>1 DEF NothingTold
  <2> HIDE DEF none
  <2> QED  BY <2>1, EmptyIsBuffer DEF File
<1> QED  BY <1>1, <1>2, <1>3 DEF Told, OrEmpty

LEMMA FileFields ==
  /\ \A f \in File : f.status \in Buffer /\ f.names \in Names /\ f # Unknown
  /\ \A e \in Queue : file \in [Ecid -> File \union {Unknown}] => file[e] \in File
BY UnknownAssumption DEF File, Queue

LEMMA LiveInit == MirrorInit => LiveInv
<1> SUFFICES ASSUME MirrorInit PROVE LiveInv
  OBVIOUS
<1>1. MirrorTypeOK
  BY NothingToldIsFile, MirrorAssumption DEF MirrorInit, MirrorTypeOK
<1>2. Queue = {}
  BY DEF MirrorInit, Queue
<1> QED  BY <1>1, <1>2 DEF MirrorInit, LiveInv, GivenIds, CachesMatch, RemovalsToTell

LEMMA FileAddedLive == ASSUME LiveInv, NEW e \in Ecid, AddFile(e) PROVE LiveInv'
<1>1. PICK f \in File : file' = [file EXCEPT ![e] = f]
  BY DEF AddFile
<1>2. /\ e \notin used /\ used' = used \union {e}
      /\ UNCHANGED <<socket, encoder, removed, statusCache, namesCache, mirror, listed, tracked>>
  BY DEF AddFile, clientVars
<1>3. MirrorTypeOK'
  BY <1>1, <1>2 DEF LiveInv, MirrorTypeOK
<1>4. Queue' = Queue \union {e}
  <2>1. f # Unknown /\ file'[e] = f /\ \A g \in Ecid : g # e => file'[g] = file[g]
    BY <1>1, FileFields DEF LiveInv, MirrorTypeOK
  <2> QED  BY <2>1 DEF Queue
<1>5. GivenIds'
  BY <1>2, <1>4 DEF LiveInv, GivenIds
<1>6. CachesMatch'
  <2>1. Matches(statusCache[e], namesCache[e], encoder[e])
    BY <1>2, NothingToldIsFile DEF LiveInv, GivenIds, Matches
  <2> QED  BY <1>2, <1>4, <2>1 DEF LiveInv, CachesMatch
<1>7. RemovalsToTell'
  BY <1>2, <1>4 DEF LiveInv, RemovalsToTell
<1> QED  BY <1>3, <1>5, <1>6, <1>7 DEF LiveInv

LEMMA FileChangedLive == ASSUME LiveInv, NEW e \in Ecid, ChangeFile(e) PROVE LiveInv'
<1>1. e \in Queue /\ UNCHANGED <<socket, encoder, removed, used, statusCache, namesCache, mirror, listed, tracked>>
  BY DEF ChangeFile, clientVars
<1>2. file[e] \in File /\ file \in [Ecid -> File \union {Unknown}]
  BY <1>1, FileFields DEF LiveInv, MirrorTypeOK
<1>3. \E f \in File : file' = [file EXCEPT ![e] = f]
  <2>1. CASE \E status \in Buffer : file' = [file EXCEPT ![e].status = status]
    <3>1. PICK status \in Buffer : file' = [file EXCEPT ![e].status = status]
      BY <2>1
    <3>2. [file[e] EXCEPT !.status = status] \in File
      BY <1>2 DEF File
    <3> QED  BY <3>1, <3>2
  <2>2. CASE \E names \in Names : file' = [file EXCEPT ![e].names = names]
    <3>1. PICK names \in Names : file' = [file EXCEPT ![e].names = names]
      BY <2>2
    <3>2. [file[e] EXCEPT !.names = names] \in File
      BY <1>2 DEF File
    <3> QED  BY <3>1, <3>2
  <2> QED  BY <2>1, <2>2 DEF ChangeFile
<1>4. file' \in [Ecid -> File \union {Unknown}] /\ Queue' = Queue
  <2>1. PICK f \in File : file' = [file EXCEPT ![e] = f]
    BY <1>3
  <2>2. f # Unknown /\ file'[e] = f /\ \A g \in Ecid : g # e => file'[g] = file[g]
    BY <1>2, <2>1, FileFields
  <2> QED  BY <1>1, <1>2, <2>1, <2>2 DEF Queue
<1>5. MirrorTypeOK'
  BY <1>1, <1>4 DEF LiveInv, MirrorTypeOK
<1> QED  BY <1>1, <1>4, <1>5 DEF LiveInv, GivenIds, CachesMatch, RemovalsToTell

LEMMA FileRemovedLive == ASSUME LiveInv, NEW e \in Ecid, RemoveFile(e) PROVE LiveInv'
<1>1. /\ e \in Queue /\ file' = [file EXCEPT ![e] = Unknown]
      /\ encoder' = [encoder EXCEPT ![e] = NothingTold] /\ removed' = removed \union {e}
      /\ UNCHANGED <<socket, used, statusCache, namesCache, mirror, listed, tracked>>
  BY DEF RemoveFile, clientVars
<1>2. MirrorTypeOK'
  BY <1>1, NothingToldIsFile DEF LiveInv, MirrorTypeOK
<1>3. Queue' = Queue \ {e} /\ \A g \in Queue' : encoder'[g] = encoder[g]
  BY <1>1 DEF LiveInv, MirrorTypeOK, Queue
<1>4. GivenIds'
  <2>1. \A g \in Ecid \ used : encoder'[g] = NothingTold
    BY <1>1 DEF LiveInv, GivenIds, MirrorTypeOK
  <2> QED  BY <1>1, <1>3, <2>1 DEF LiveInv, GivenIds
<1>5. CachesMatch'
  BY <1>1, <1>3 DEF LiveInv, CachesMatch
<1>6. RemovalsToTell'
  BY <1>1, <1>3 DEF LiveInv, RemovalsToTell
<1> QED  BY <1>2, <1>4, <1>5, <1>6 DEF LiveInv

(* A reply, whichever service asked: what the caches hold of a file that   *)
(* matched what the daemon told of it matches what it has.                 *)
LEMMA Decoded ==
  ASSUME MirrorTypeOK, NEW resets \in BOOLEAN, Decode(resets)
  PROVE  /\ encoder' \in [Ecid -> File]
         /\ statusCache' \in [Ecid -> Buffer \union {Unknown}]
         /\ namesCache' \in [Ecid -> Names \union {Unknown}]
         /\ \A e \in Queue :
              /\ encoder'[e] = file[e]
              /\ resets => statusCache'[e] = file[e].status
              /\ Matches(statusCache[e], namesCache[e], encoder[e])
                   => Matches(statusCache'[e], namesCache'[e], file[e])
         /\ \A e \in Ecid \ Queue :
              /\ encoder'[e] = encoder[e]
              /\ statusCache'[e] = statusCache[e] /\ namesCache'[e] = namesCache[e]
<1>1. /\ encoder' = [e \in Ecid |-> IF e \in Queue THEN file[e] ELSE encoder[e]]
      /\ statusCache' = [e \in Ecid |->
           IF e \in Queue THEN ResolveBytes(statusCache[e], StatusSent(e, resets), resets)
           ELSE statusCache[e]]
      /\ namesCache' = [e \in Ecid |->
           IF e \in Queue THEN ResolveNames(namesCache[e], NamesSent(e)) ELSE namesCache[e]]
  BY DEF Decode
<1>2. \A e \in Ecid \ Queue : /\ encoder'[e] = encoder[e]
                              /\ statusCache'[e] = statusCache[e] /\ namesCache'[e] = namesCache[e]
  BY <1>1
<1>3. ASSUME NEW e \in Queue
      PROVE  /\ e \in Ecid /\ file[e] \in File /\ encoder'[e] = file[e]
             /\ statusCache'[e] \in Buffer \union {Unknown}
             /\ namesCache'[e] \in Names \union {Unknown}
             /\ resets => statusCache'[e] = file[e].status
             /\ Matches(statusCache[e], namesCache[e], encoder[e])
                  => Matches(statusCache'[e], namesCache'[e], file[e])
  <2>1. e \in Ecid /\ file[e] \in File /\ encoder[e] \in File
    BY FileFields DEF MirrorTypeOK, Queue
  <2>2. /\ file[e].status \in Buffer /\ file[e].names \in Names
        /\ encoder[e].status \in Buffer /\ encoder[e].names \in Names
    BY <2>1, FileFields
  <2>3. statusCache[e] \in Buffer \union {Unknown} /\ namesCache[e] \in Names \union {Unknown}
    BY <2>1 DEF MirrorTypeOK
  <2>4. StatusSent(e, resets) = DiffOf(encoder[e].status, file[e].status, resets)
    BY DEF StatusSent, DiffOf
  <2>5. NamesSent(e) = DeltaOf(encoder[e].names, file[e].names)
    BY DEF NamesSent, DeltaOf, Changed
  <2>6. /\ encoder'[e] = file[e]
        /\ statusCache'[e] = ResolveBytes(statusCache[e], DiffOf(encoder[e].status, file[e].status, resets), resets)
        /\ namesCache'[e] = ResolveNames(namesCache[e], DeltaOf(encoder[e].names, file[e].names))
    BY <1>1, <2>1, <2>4, <2>5
  <2>7. /\ statusCache'[e] \in Buffer \union {Unknown}
        /\ resets => statusCache'[e] = file[e].status
        /\ OrEmpty(statusCache[e]) = encoder[e].status => OrEmpty(statusCache'[e]) = file[e].status
    BY <2>2, <2>3, <2>6, StatusResolved
  <2>8. /\ namesCache'[e] \in Names \union {Unknown}
        /\ (\A n \in NameId : Told(namesCache[e], n) = Count(encoder[e].names, n))
             => \A n \in NameId : Told(namesCache'[e], n) = Count(file[e].names, n)
    BY <2>2, <2>3, <2>6, NamesResolved
  <2> QED  BY <2>1, <2>6, <2>7, <2>8 DEF Matches
<1>4. encoder' \in [Ecid -> File]
  BY <1>1, <1>3 DEF MirrorTypeOK
<1>5. statusCache' \in [Ecid -> Buffer \union {Unknown}]
  <2>1. \A e \in Ecid : statusCache'[e] \in Buffer \union {Unknown}
    BY <1>2, <1>3 DEF MirrorTypeOK
  <2>2. statusCache' = [e \in Ecid |-> statusCache'[e]]
    BY <1>1
  <2> QED  BY <2>1, <2>2
<1>6. namesCache' \in [Ecid -> Names \union {Unknown}]
  <2>1. \A e \in Ecid : namesCache'[e] \in Names \union {Unknown}
    BY <1>2, <1>3 DEF MirrorTypeOK
  <2>2. namesCache' = [e \in Ecid |-> namesCache'[e]]
    BY <1>1
  <2> QED  BY <2>1, <2>2
<1> QED  BY <1>2, <1>3, <1>4, <1>5, <1>6

LEMMA DecodedLive ==
  ASSUME LiveInv, NEW resets \in BOOLEAN, Decode(resets), UNCHANGED <<socket, file, used>>
  PROVE  /\ CachesMatch' /\ Queue' = Queue
         /\ \A e \in Ecid \ used' :
              encoder'[e] = NothingTold /\ statusCache'[e] = Unknown /\ namesCache'[e] = Unknown
<1>1. MirrorTypeOK
  BY DEF LiveInv
<1>2. Queue' = Queue
  BY DEF Queue
<1>3. \A e \in Queue : encoder'[e] = file[e]
  BY <1>1, Decoded
<1>4. \A e \in Queue : Matches(statusCache[e], namesCache[e], encoder[e])
                   => Matches(statusCache'[e], namesCache'[e], file[e])
  BY <1>1, Decoded
<1>5. CachesMatch'
  BY <1>2, <1>3, <1>4 DEF LiveInv, CachesMatch
<1>6. \A e \in Ecid \ used : e \notin Queue
  BY DEF LiveInv, GivenIds
<1>7. \A e \in Ecid \ Queue :
              /\ encoder'[e] = encoder[e]
              /\ statusCache'[e] = statusCache[e] /\ namesCache'[e] = namesCache[e]
  BY <1>1, Decoded
<1> QED  BY <1>2, <1>5, <1>6, <1>7 DEF LiveInv, GivenIds

LEMMA MergedIsShown ==
  ASSUME MirrorTypeOK, NEW e \in Ecid,
         statusCache'[e] \in Buffer \union {Unknown}, namesCache'[e] \in Names \union {Unknown}
  PROVE  /\ Merged(e) \in Shown \union {Unknown}
         /\ e \notin Queue => Merged(e) = IF e \in removed THEN Unknown ELSE mirror[e]
         /\ e \in Queue => /\ Merged(e) # Unknown
                           /\ statusCache'[e] # Unknown => Merged(e).gaps = statusCache'[e]
<1> DEFINE shown == IF e \in removed THEN Unknown ELSE mirror[e]
           status == statusCache'[e]
           names == namesCache'[e]
<1>1. shown \in Shown \union {Unknown}
  BY DEF MirrorTypeOK
<1>2. status \in Buffer \union {Unknown} /\ names \in Names \union {Unknown}
  OBVIOUS
<1>3. Merged(e) = IF e \notin Queue THEN shown
                  ELSE IF shown = Unknown THEN [gaps |-> status, names |-> names]
                  ELSE [gaps |-> IF status = Unknown THEN shown.gaps ELSE status,
                        names |-> IF names = Unknown THEN shown.names
                                  ELSE MergeNames(shown.names, AsUpdate(names))]
  BY DEF Merged
<1> HIDE DEF shown, status, names
<1>4. CASE e \notin Queue
  BY <1>1, <1>3, <1>4 DEF shown
<1>5. CASE e \in Queue /\ shown = Unknown
  <2>1. Merged(e) = [gaps |-> status, names |-> names]
    BY <1>3, <1>5
  <2>2. Merged(e) \in Shown /\ Merged(e).gaps = status
    BY <1>2, <2>1 DEF Shown
  <2> QED  BY <1>5, <2>2, UnknownAssumption DEF status
<1>6. CASE e \in Queue /\ shown # Unknown
  <2> DEFINE gaps == IF status = Unknown THEN shown.gaps ELSE status
             all == IF names = Unknown THEN shown.names ELSE MergeNames(shown.names, AsUpdate(names))
  <2>1. Merged(e) = [gaps |-> gaps, names |-> all]
    BY <1>3, <1>6
  <2>2. shown.gaps \in Buffer \union {Unknown} /\ shown.names \in Names \union {Unknown}
    BY <1>1, <1>6 DEF Shown
  <2>3. gaps \in Buffer \union {Unknown}
    BY <1>2, <2>2
  <2>4. all \in Names \union {Unknown}
    BY <1>2, <2>2, NamesMerged, AsUpdateIsDelta
  <2>5. status # Unknown => gaps = status
    OBVIOUS
  <2> HIDE DEF gaps, all
  <2>6. Merged(e) \in Shown /\ Merged(e).gaps = gaps
    BY <2>1, <2>3, <2>4 DEF Shown
  <2> QED  BY <1>6, <2>5, <2>6, UnknownAssumption DEF status
<1> QED  BY <1>4, <1>5, <1>6

LEMMA FetchedIsShown ==
  ASSUME LiveInv, UpdateFetch
  PROVE  mirror' \in [Ecid -> Shown \union {Unknown}] /\ (socket = 1 => ShowsQueue)
<1>1. /\ Decode(FALSE) /\ mirror' = [e \in Ecid |-> Merged(e)] /\ MirrorTypeOK
  BY DEF UpdateFetch, LiveInv
<1>2. /\ statusCache' \in [Ecid -> Buffer \union {Unknown}]
      /\ namesCache' \in [Ecid -> Names \union {Unknown}]
  BY <1>1, Decoded
<1>3. ASSUME NEW e \in Ecid
      PROVE  /\ mirror'[e] \in Shown \union {Unknown}
             /\ e \notin Queue => mirror'[e] = IF e \in removed THEN Unknown ELSE mirror[e]
             /\ e \in Queue => /\ mirror'[e] # Unknown
                               /\ statusCache'[e] # Unknown => mirror'[e].gaps = statusCache'[e]
  <2>1. mirror'[e] = Merged(e)
    BY <1>1
  <2>2. statusCache'[e] \in Buffer \union {Unknown} /\ namesCache'[e] \in Names \union {Unknown}
    BY <1>2
  <2> QED  BY <1>1, <2>1, <2>2, MergedIsShown
<1>4. mirror' \in [Ecid -> Shown \union {Unknown}]
  <2>1. mirror' = [e \in Ecid |-> mirror'[e]]
    BY <1>1
  <2> QED  BY <1>3, <2>1
<1>5. ASSUME socket = 1, NEW e \in Ecid
      PROVE  /\ mirror'[e] = Unknown <=> e \notin Queue
             /\ e \in Queue /\ file[e].status # <<>> => mirror'[e].gaps = file[e].status
  <2>1. CASE e \notin Queue
    <3>1. mirror[e] # Unknown => e \in removed
      BY <1>5, <2>1 DEF LiveInv, RemovalsToTell
    <3> QED  BY <1>3, <2>1, <3>1
  <2>2. CASE e \in Queue
    <3>1. Matches(statusCache[e], namesCache[e], encoder[e])
      BY <1>5, <2>2 DEF LiveInv, CachesMatch
    <3>2. Matches(statusCache'[e], namesCache'[e], file[e])
      BY <1>1, <2>2, <3>1, Decoded
    <3>3. file[e].status # <<>> => statusCache'[e] # Unknown /\ statusCache'[e] = file[e].status
      BY <3>2 DEF Matches, OrEmpty
    <3> QED  BY <1>3, <2>2, <3>3
  <2> QED  BY <2>1, <2>2
<1> QED  BY <1>4, <1>5 DEF ShowsQueue

LEMMA UpdateFetchLive == LiveInv /\ UpdateFetch => LiveInv'
<1> SUFFICES ASSUME LiveInv, UpdateFetch PROVE LiveInv'
  OBVIOUS
<1>1. /\ Decode(FALSE) /\ removed' = {} /\ UNCHANGED <<socket, file, used, listed, tracked>>
  BY DEF UpdateFetch
<1>2. /\ CachesMatch' /\ Queue' = Queue
      /\ \A e \in Ecid \ used' :
              encoder'[e] = NothingTold /\ statusCache'[e] = Unknown /\ namesCache'[e] = Unknown
  BY <1>1, DecodedLive
<1>3. mirror' \in [Ecid -> Shown \union {Unknown}] /\ (socket = 1 => ShowsQueue)
  BY FetchedIsShown
<1>4. /\ encoder' \in [Ecid -> File] /\ statusCache' \in [Ecid -> Buffer \union {Unknown}]
      /\ namesCache' \in [Ecid -> Names \union {Unknown}]
  BY <1>1, Decoded DEF LiveInv
<1>5. MirrorTypeOK'
  BY <1>1, <1>3, <1>4 DEF LiveInv, MirrorTypeOK
<1>6. GivenIds'
  BY <1>1, <1>2 DEF LiveInv, GivenIds
<1>7. RemovalsToTell'
  BY <1>1, <1>2, <1>3 DEF RemovalsToTell, ShowsQueue
<1> QED  BY <1>2, <1>5, <1>6, <1>7 DEF LiveInv

LEMMA DownloadsFetchLive == LiveInv /\ DownloadsFetch => LiveInv'
<1> SUFFICES ASSUME LiveInv, DownloadsFetch PROVE LiveInv'
  OBVIOUS
<1>1. Decode(TRUE) /\ listed' = Queue /\ UNCHANGED <<socket, file, removed, used, mirror, tracked>>
  BY DEF DownloadsFetch
<1>2. /\ CachesMatch' /\ Queue' = Queue
      /\ \A e \in Ecid \ used' :
              encoder'[e] = NothingTold /\ statusCache'[e] = Unknown /\ namesCache'[e] = Unknown
  BY <1>1, DecodedLive
<1>3. /\ encoder' \in [Ecid -> File] /\ statusCache' \in [Ecid -> Buffer \union {Unknown}]
      /\ namesCache' \in [Ecid -> Names \union {Unknown}]
  BY <1>1, Decoded DEF LiveInv
<1>4. MirrorTypeOK'
  BY <1>1, <1>3 DEF LiveInv, MirrorTypeOK, Queue
<1>5. GivenIds'
  BY <1>1, <1>2 DEF LiveInv, GivenIds
<1>6. RemovalsToTell'
  BY <1>1, <1>2 DEF LiveInv, RemovalsToTell
<1> QED  BY <1>2, <1>4, <1>5, <1>6 DEF LiveInv

LEMMA SeedLive == LiveInv /\ Seed => LiveInv'
<1> SUFFICES ASSUME LiveInv, Seed PROVE LiveInv'
  OBVIOUS
<1>1. /\ tracked' = listed
      /\ statusCache' = [e \in Ecid |-> IF e \in tracked \ listed THEN Unknown ELSE statusCache[e]]
      /\ namesCache' = [e \in Ecid |-> IF e \in tracked \ listed THEN Unknown ELSE namesCache[e]]
      /\ UNCHANGED <<socket, file, encoder, removed, used, mirror, listed>>
  BY DEF Seed, daemonVars
<1>2. MirrorTypeOK'
  BY <1>1 DEF LiveInv, MirrorTypeOK
<1>3. Queue' = Queue
  BY <1>1 DEF Queue
<1>4. GivenIds'
  <2>1. \A e \in Ecid \ used : statusCache'[e] = Unknown /\ namesCache'[e] = Unknown
    BY <1>1 DEF LiveInv, GivenIds
  <2> QED  BY <1>1, <1>3, <2>1 DEF LiveInv, GivenIds
<1>5. \A e \in Queue : statusCache'[e] = statusCache[e] /\ namesCache'[e] = namesCache[e]
  <2>1. \A e \in Queue : e \in Ecid /\ e \notin tracked \ listed
    BY DEF LiveInv, GivenIds, Queue
  <2> QED  BY <1>1, <2>1
<1>6. CachesMatch'
  BY <1>1, <1>3, <1>5 DEF LiveInv, CachesMatch
<1>7. RemovalsToTell'
  BY <1>1, <1>3 DEF LiveInv, RemovalsToTell
<1> QED  BY <1>2, <1>4, <1>6, <1>7 DEF LiveInv

LEMMA NewSocketLive == LiveInv /\ NewSocket => LiveInv'
<1> SUFFICES ASSUME LiveInv, NewSocket PROVE LiveInv'
  OBVIOUS
<1>1. /\ socket < MaxSockets /\ socket' = socket + 1
      /\ encoder' = [e \in Ecid |-> NothingTold] /\ removed' = {}
      /\ UNCHANGED <<file, used, statusCache, namesCache, mirror, listed, tracked>>
  BY DEF NewSocket, clientVars
<1>2. socket' \in 1..MaxSockets /\ socket' # 1
  BY <1>1, MirrorAssumption DEF LiveInv, MirrorTypeOK
<1>3. MirrorTypeOK'
  BY <1>1, <1>2, NothingToldIsFile DEF LiveInv, MirrorTypeOK
<1>4. Queue' = Queue
  BY <1>1 DEF Queue
<1>5. GivenIds'
  BY <1>1, <1>4 DEF LiveInv, GivenIds
<1> QED  BY <1>2, <1>3, <1>5 DEF LiveInv, CachesMatch, RemovalsToTell

LEMMA LiveStep == LiveInv /\ [MirrorNext]_mirrorVars => LiveInv'
<1> SUFFICES ASSUME LiveInv, [MirrorNext]_mirrorVars PROVE LiveInv'
  OBVIOUS
<1>1. CASE \E e \in Ecid : AddFile(e) \/ ChangeFile(e) \/ RemoveFile(e)
  BY <1>1, FileAddedLive, FileChangedLive, FileRemovedLive
<1>2. CASE UpdateFetch
  BY <1>2, UpdateFetchLive
<1>3. CASE DownloadsFetch
  BY <1>3, DownloadsFetchLive
<1>4. CASE Seed
  BY <1>4, SeedLive
<1>5. CASE NewSocket
  BY <1>5, NewSocketLive
<1>6. CASE UNCHANGED mirrorVars
  <2>1. UNCHANGED <<socket, file, encoder, removed, used, statusCache, namesCache, mirror, listed, tracked>>
    BY <1>6 DEF mirrorVars, daemonVars, clientVars
  <2>2. Queue' = Queue
    BY <2>1 DEF Queue
  <2>3. MirrorTypeOK'
    BY <2>1 DEF LiveInv, MirrorTypeOK
  <2> QED  BY <2>1, <2>2, <2>3 DEF LiveInv, GivenIds, CachesMatch, RemovalsToTell
<1> QED  BY <1>1, <1>2, <1>3, <1>4, <1>5, <1>6 DEF MirrorNext

LEMMA MirrorInvariant == MirrorSpec => []LiveInv
<1>1. LiveInv /\ [MirrorNext]_mirrorVars => LiveInv'
  BY LiveStep
<1> QED  BY <1>1, LiveInit, PTL DEF MirrorSpec

-----------------------------------------------------------------------------
(* The types of the caches, the mirror and the daemon's encoder, for any   *)
(* files, names, lengths of buffers and runs: what a decoded difference    *)
(* makes of a cached buffer is a buffer, on every socket.                  *)
THEOREM MirrorTypeCorrect == MirrorSpec => []MirrorTypeOK
BY MirrorInvariant, PTL DEF LiveInv

(* Whichever services ask, in whatever order, with files that come and go  *)
(* and trackers that forget: on a first socket the caches hold what the    *)
(* daemon believes it told, so that each difference meets its base.        *)
THEOREM CachesNeverDrift == MirrorSpec => []CachesFollowEncoder
<1>1. LiveInv => CachesFollowEncoder
  <2> SUFFICES ASSUME LiveInv, socket = 1, NEW e \in Queue
               PROVE  /\ encoder[e].status # <<>> => statusCache[e] = encoder[e].status
                      /\ \A n \in NameId : Told(namesCache[e], n) = Told(encoder[e].names, n)
    BY DEF CachesFollowEncoder
  <2>1. Matches(statusCache[e], namesCache[e], encoder[e])
    BY DEF LiveInv, CachesMatch
  <2>2. encoder[e].names # Unknown
    BY FileFields, UnknownAssumption DEF LiveInv, MirrorTypeOK, Queue
  <2> QED  BY <2>1, <2>2 DEF Matches, OrEmpty, Told
<1> QED  BY <1>1, MirrorInvariant, PTL

(* On a first socket, Update.fetch() leaves a mirror of the queue: the     *)
(* files that are in it, those only, and their gaps as they are.           *)
THEOREM MirrorStaysLive == MirrorSpec => MirrorIsLive
<1>1. LiveInv /\ [MirrorNext]_mirrorVars => [UpdateFetch /\ socket = 1 => ShowsQueue]_mirrorVars
  BY FetchedIsShown
<1> QED  BY <1>1, MirrorInvariant, PTL DEF MirrorSpec, MirrorIsLive

(* What Downloads.fetch() shows of the gaps is what the daemon has, on any *)
(* socket and whatever the caches hold of earlier ones.                    *)
THEOREM FetchStandsAlone == MirrorSpec => FetchIsSelfContained
<1>1. LiveInv /\ [MirrorNext]_mirrorVars
        => [DownloadsFetch => \A e \in Queue : statusCache'[e] = file[e].status]_mirrorVars
  <2> SUFFICES ASSUME LiveInv, DownloadsFetch, NEW e \in Queue PROVE statusCache'[e] = file[e].status
    OBVIOUS
  <2>1. MirrorTypeOK /\ Decode(TRUE)
    BY DEF LiveInv, DownloadsFetch
  <2> QED  BY <2>1, Decoded
<1> QED  BY <1>1, MirrorInvariant, PTL DEF MirrorSpec, FetchIsSelfContained

-----------------------------------------------------------------------------
(* How a drift begins.  On any socket, a file that comes new to the queue  *)
(* has matching caches, and of a file whose caches match what the daemon   *)
(* told, no step undoes that but a reconnection: it resets the daemon's    *)
(* encoder, and the caches of PartFileStatus.ts and PartFileSourceNames.ts *)
(* stay.                                                                   *)
Matched(e) == Matches(statusCache[e], namesCache[e], encoder[e])

THEOREM OnlyReconnectionDrifts ==
  MirrorSpec
    => [][~NewSocket => \A e \in Queue' : (e \in Queue => Matched(e)) => Matched(e)']_mirrorVars
<1>1. ASSUME LiveInv, MirrorNext, ~NewSocket, NEW e \in Queue', e \in Queue => Matched(e)
      PROVE  Matched(e)'
  <2>1. ASSUME NEW g \in Ecid, AddFile(g) PROVE Matched(e)'
    <3>1. PICK f \in File : file' = [file EXCEPT ![g] = f]
      BY <2>1 DEF AddFile
    <3>2. g \notin used /\ UNCHANGED <<encoder, statusCache, namesCache>>
      BY <2>1 DEF AddFile, clientVars
    <3>3. CASE e = g
      <4>1. encoder[g] = NothingTold /\ statusCache[g] = Unknown /\ namesCache[g] = Unknown
        BY <3>2, <1>1 DEF LiveInv, GivenIds
      <4> QED  BY <3>2, <3>3, <4>1, NothingToldIsFile DEF Matched, Matches
    <3>4. CASE e # g
      <4>1. e \in Queue
        BY <1>1, <3>1, <3>4 DEF Queue, LiveInv, MirrorTypeOK
      <4> QED  BY <1>1, <3>2, <4>1 DEF Matched
    <3> QED  BY <3>3, <3>4
  <2>2. ASSUME NEW g \in Ecid, ChangeFile(g) PROVE Matched(e)'
    <3>1. g \in Queue /\ UNCHANGED <<encoder, statusCache, namesCache>>
      BY <2>2 DEF ChangeFile, clientVars
    <3>2. \A h \in Ecid : h # g => file'[h] = file[h]
      BY <2>2, <1>1 DEF ChangeFile, LiveInv, MirrorTypeOK
    <3>3. e \in Queue
      BY <1>1, <3>1, <3>2 DEF Queue
    <3> QED  BY <1>1, <3>1, <3>3 DEF Matched
  <2>3. ASSUME NEW g \in Ecid, RemoveFile(g) PROVE Matched(e)'
    <3>1. /\ file' = [file EXCEPT ![g] = Unknown] /\ encoder' = [encoder EXCEPT ![g] = NothingTold]
          /\ UNCHANGED <<statusCache, namesCache>>
      BY <2>3 DEF RemoveFile, clientVars
    <3>2. e \in Queue /\ e # g /\ encoder'[e] = encoder[e]
      BY <1>1, <3>1 DEF Queue, LiveInv, MirrorTypeOK
    <3> QED  BY <1>1, <3>1, <3>2 DEF Matched
  <2>4. ASSUME NEW resets \in BOOLEAN, Decode(resets), UNCHANGED file PROVE Matched(e)'
    <3>1. e \in Queue
      BY <1>1, <2>4 DEF Queue
    <3>2. MirrorTypeOK
      BY <1>1 DEF LiveInv
    <3>3. /\ encoder'[e] = file[e]
          /\ Matches(statusCache[e], namesCache[e], encoder[e])
               => Matches(statusCache'[e], namesCache'[e], file[e])
      BY <2>4, <3>1, <3>2, Decoded
    <3> QED  BY <1>1, <3>1, <3>3 DEF Matched
  <2>5. CASE Seed
    <3>1. e \in Queue /\ UNCHANGED encoder
      BY <1>1, <2>5 DEF Seed, daemonVars, Queue
    <3>2. e \in Ecid /\ e \notin tracked \ listed
      BY <1>1, <3>1 DEF LiveInv, GivenIds, Queue
    <3>3. statusCache'[e] = statusCache[e] /\ namesCache'[e] = namesCache[e]
      BY <2>5, <3>2 DEF Seed
    <3> QED  BY <1>1, <3>1, <3>3 DEF Matched
  <2>6. CASE UpdateFetch
    <3>1. Decode(FALSE) /\ UNCHANGED file
      BY <2>6 DEF UpdateFetch
    <3> QED  BY <2>4, <3>1
  <2>7. CASE DownloadsFetch
    <3>1. Decode(TRUE) /\ UNCHANGED file
      BY <2>7 DEF DownloadsFetch
    <3> QED  BY <2>4, <3>1
  <2> QED  BY <1>1, <2>1, <2>2, <2>3, <2>5, <2>6, <2>7 DEF MirrorNext
<1>2. LiveInv /\ [MirrorNext]_mirrorVars
        => [~NewSocket => \A e \in Queue' : (e \in Queue => Matched(e)) => Matched(e)']_mirrorVars
  BY <1>1
<1> QED  BY <1>2, MirrorInvariant, PTL DEF MirrorSpec
=============================================================================
