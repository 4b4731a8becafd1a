------------------------------- MODULE ECTags -------------------------------
(***************************************************************************)
(* The codec of packets: an opcode, a count and a tree of tags as bytes    *)
(* and back (ECPacket.ts, ECTags.ts).  Integers are big-endian of a fixed  *)
(* width or, with utf8Numbers, as long as they need; counts may be         *)
(* extended past a sentinel, with largeTagCount.  The flags of a packet    *)
(* say which forms it uses.  A body may be cut anywhere.                   *)
(*                                                                         *)
(* Integers are below 2^31, so none is written with the escape of the      *)
(* numbers past 2^36.  The type DOUBLE, a string, is left out.             *)
(***************************************************************************)
EXTENDS Integers, Sequences

Byte == {b \in Nat : b < 256}
Integer == {n \in Nat : n <= 2147483647}   \* bound: the integers written

IntegerType == {"UINT8", "UINT16", "UINT32", "UINT64", "UINT128"}
DataType == {"STRING", "CUSTOM", "HASH16", "IPV4"}

CONSTANTS
  TagNames,     \* bound: the names tried
  Numbers,      \* bound: the integers tried
  Data,         \* bound: the own data tried, of each other type
  MaxTags,      \* bound: tags of a packet
  Sentinel,     \* the count from which the extended form is used (0xffff)
  MaxDepth, MaxTagCount   \* DEFAULT_MAX_DEPTH, DEFAULT_MAX_TAG_COUNT

(* A name and the bit beside it make two bytes, and so does the sentinel.  *)
ASSUME CodecAssumption ==
  /\ \A name \in TagNames : name \in Nat /\ name < 32768
  /\ Numbers \subseteq Integer
  /\ \A type \in DataType : Data[type] \subseteq Seq(Byte)
  /\ MaxTags \in Integer
  /\ Sentinel \in Nat \ {0} /\ Sentinel < 65536
  /\ MaxDepth \in Nat \ {0} /\ MaxTagCount \in Nat

VARIABLES
  lists,        \* the lists of tags made so far: the empty one, and any tag before another
  caps,         \* the capabilities the last of them is encoded with
  body,         \* its bytes, cut or not; or not encoded yet
  decoded       \* what they decode to; or not decoded yet

codecVars == <<lists, caps, body, decoded>>

(* What a throw leaves: no offset, no value. *)
Failed == [next |-> 0]
NotYet == [next |-> 1]

Forms == [utf8Numbers : BOOLEAN, largeTagCount : BOOLEAN]

(* fixedWidthFor() *)
Width(type) ==
  CASE type = "UINT8" -> 1 [] type = "UINT16" -> 2 [] type = "UINT32" -> 4
    [] type = "UINT64" -> 8 [] type = "UINT128" -> 16

TypeCode(type) ==
  CASE type = "CUSTOM" -> 1 [] type = "UINT8" -> 2 [] type = "UINT16" -> 3
    [] type = "UINT32" -> 4 [] type = "UINT64" -> 5 [] type = "STRING" -> 6
    [] type = "IPV4" -> 8 [] type = "HASH16" -> 9 [] type = "UINT128" -> 10

(* The range checks of the constructors. *)
Fits(type, value) ==
  CASE type = "UINT8" -> value < 256
    [] type = "UINT16" -> value < 65536
    [] type = "HASH16" -> Len(value) = 16
    [] type = "IPV4" -> Len(value) = 6
    [] OTHER -> TRUE

(* What a tag is beside its children. *)
Leaf ==
  {tag \in [name : TagNames, type : IntegerType, value : Numbers] : Fits(tag.type, tag.value)}
  \union {tag \in [name : TagNames, type : DataType, value : UNION {Data[type] : type \in DataType}] :
            tag.value \in Data[tag.type] /\ Fits(tag.type, tag.value)}

-----------------------------------------------------------------------------
(* Buffer.subarray(): what there is of the bytes of a range. *)
Subarray(bytes, from, to) == SubSeq(bytes, from, IF to > Len(bytes) THEN Len(bytes) ELSE to)

(* Numbers.  The digits of one, from the highest.                          *)
Digits(base, first, digits) ==
  LET value[i \in 0..Len(digits)] ==
        IF i = 0 THEN first ELSE (base * value[i - 1]) + (digits[i] % base)
  IN value[Len(digits)]

(* writeBigUIntBE(), readBigUIntBE() *)
Weight == <<1, 256, 65536, 16777216>>
BigEndian(value, width) ==
  [i \in 1..width |-> IF width - i < 4 THEN (value \div Weight[width - i + 1]) % 256 ELSE 0]
FromBigEndian(bytes) == Digits(256, 0, bytes)

(* utf8EncodeNumber(): n leading ones say how many bytes there are, of     *)
(* which each but the first holds six bits.                                *)
Lead == <<128, 192, 224, 240, 248, 252, 254, 255>>
Capacity == <<128, 2048, 65536, 2097152, 67108864>>
Above == <<1, 64, 4096, 262144, 16777216, 1073741824>>

Utf8Length(value) ==
  CHOOSE n \in 1..6 : (n = 1 \/ value >= Capacity[n - 1]) /\ (n = 6 \/ value < Capacity[n])

Utf8(value) ==
  IF value < 128 THEN <<value>>
  ELSE LET n == Utf8Length(value)
       IN <<Lead[n] + (value \div Above[n])>>
          \o [i \in 1..(n - 1) |-> 128 + ((value \div Above[n - i]) % 64)]

(* utf8DecodeNumber().  Past the lead byte 0xff comes a number of bytes,   *)
(* which are not checked to be there.                                      *)
FromUtf8(bytes, at) ==
  IF at > Len(bytes) THEN Failed
  ELSE IF bytes[at] < 128 THEN [next |-> at + 1, value |-> bytes[at]]
  ELSE IF bytes[at] = 255
  THEN IF at + 1 > Len(bytes) THEN Failed
       ELSE [next |-> at + 2 + bytes[at + 1],
             value |-> FromBigEndian(Subarray(bytes, at + 2, at + 1 + bytes[at + 1]))]
  ELSE LET n == CHOOSE n \in 1..7 : Lead[n] <= bytes[at] /\ bytes[at] < Lead[n + 1]
       IN IF at + n - 1 > Len(bytes) THEN Failed
          ELSE [next |-> at + n,
                value |-> Digits(64, bytes[at] - Lead[n], SubSeq(bytes, at + 1, at + n - 1))]

(* encodeUint() *)
Uint(value, width, c) == IF c.utf8Numbers THEN Utf8(value) ELSE BigEndian(value, width)

(* decodeUint(): a fixed width past the end reads what there is. *)
FromUint(bytes, at, width, c) ==
  IF c.utf8Numbers THEN FromUtf8(bytes, at)
  ELSE [next |-> at + width, value |-> FromBigEndian(Subarray(bytes, at, at + width - 1))]

(* encodeCount(), decodeCount() *)
CountOfTags(n, c) ==
  IF n < Sentinel THEN Uint(n, 2, c) ELSE Uint(Sentinel, 2, c) \o Uint(n, 4, c)

FromCount(bytes, at, c) ==
  LET short == FromUint(bytes, at, 2, c) IN
  IF short # Failed /\ c.largeTagCount /\ short.value = Sentinel
  THEN FromUint(bytes, short.next, 4, c) ELSE short

-----------------------------------------------------------------------------
(* Encoding. *)

(* encodeOwnData() *)
OwnData(tag, c) ==
  CASE tag.type \in IntegerType -> Uint(tag.value, Width(tag.type), c)
    [] tag.type = "STRING" -> Append(tag.value, 0)
    [] OTHER -> tag.value

(* Mutant: the length counts the bytes of the number of children. *)
LengthWithCount(children, childCount, data) == Len(children) + Len(childCount) + Len(data)

TagLength(children, childCount, data) == Len(children) + Len(data)

(* ECTag.encode(), of a tag with n children that encode to children. *)
EncodeTag(tag, n, children, c) ==
  LET data == OwnData(tag, c)
      childCount == IF n > 0 THEN CountOfTags(n, c) ELSE <<>>
  IN Uint(2 * tag.name + (IF n > 0 THEN 1 ELSE 0), 2, c) \o <<TypeCode(tag.type)>>
     \o Uint(TagLength(children, childCount, data), 4, c) \o childCount \o children \o data

(* The bytes of each list: those of its first tag, then those of the rest. *)
EncodeLists(made, c) ==
  LET bytes[i \in 1..Len(made)] ==
        IF i = 1 THEN <<>>
        ELSE EncodeTag(made[i].tag, made[made[i].children].length, bytes[made[i].children], c)
             \o bytes[made[i].rest]
  IN bytes

(* A string with a NUL in it is refused, and so are too many children.     *)
Encodable(made, c) ==
  \A i \in 1..Len(made) :
    /\ made[i].length < Sentinel \/ c.largeTagCount
    /\ i > 1 /\ made[i].tag.type = "STRING" => \A k \in 1..Len(made[i].tag.value) : made[i].tag.value[k] # 0

-----------------------------------------------------------------------------
(* Decoding. *)

(* tagFactory(): own data as a value of the type. *)
Value(type, data, c) ==
  CASE type \in IntegerType -> IF c.utf8Numbers THEN FromUtf8(data, 1)
                               ELSE [next |-> 1, value |-> FromBigEndian(data)]
    [] type = "STRING" /\ data # <<>> /\ data[Len(data)] = 0 ->
         [next |-> 1, value |-> SubSeq(data, 1, Len(data) - 1)]
    [] type = "IPV4" -> [next |-> 1, value |-> Subarray(data, 1, 6)]
    [] OTHER -> [next |-> 1, value |-> data]

(* Mutant: own data may run past the end. *)
AnyEnd(bytes, at, length) == TRUE

WithinEnd(bytes, at, length) == at + length - 1 <= Len(bytes)

(* What is left of the length of a tag, after its children, is its own.    *)
OwnValue(bytes, at, length, code, c) ==
  IF length < 0 \/ ~WithinEnd(bytes, at, length) THEN Failed
  ELSE IF \A t \in IntegerType \union DataType : TypeCode(t) # code THEN Failed
  ELSE LET type == CHOOSE t \in IntegerType \union DataType : TypeCode(t) = code
           read == Value(type, Subarray(bytes, at, at + length - 1), c)
       IN IF read = Failed THEN Failed
          ELSE IF Fits(type, read.value) THEN [next |-> at + length, type |-> type, value |-> read.value]
          ELSE Failed

Default == [maxDepth |-> MaxDepth, maxTagCount |-> MaxTagCount]
(* A caller may set tighter limits, which a packet may exceed. *)
Limits == {Default, [Default EXCEPT !.maxDepth = 2], [Default EXCEPT !.maxTagCount = 1]}

(* Where n tags are to be read: at a byte, below depth names, after count  *)
(* tags of the packet.                                                     *)
Place == [at : Nat \ {0}, n : Nat, depth : Nat, count : Nat]

(* readTag(), up to the children: the limits and the fields of a tag.      *)
Header(bytes, place, limits, c) ==
  IF place.count + 1 > limits.maxTagCount \/ place.depth >= limits.maxDepth \/ place.at > Len(bytes)
  THEN Failed
  ELSE LET name == FromUint(bytes, place.at, 2, c) IN
       IF name = Failed \/ name.next > Len(bytes) THEN Failed
       ELSE LET length == FromUint(bytes, name.next + 1, 4, c) IN
            IF length = Failed THEN Failed
            ELSE LET n == IF name.value % 2 = 1 THEN FromCount(bytes, length.next, c)
                          ELSE [next |-> length.next, value |-> 0] IN
                 IF n = Failed THEN Failed
                 ELSE [next |-> n.next, n |-> n.value, name |-> name.value \div 2,
                       code |-> bytes[name.next], length |-> length.value]

Inside(place, head) ==
  [at |-> head.next, n |-> head.n, depth |-> place.depth + 1, count |-> place.count + 1]
After(place, own, inner) ==
  [at |-> own.next, n |-> place.n - 1, depth |-> place.depth, count |-> inner.count]

(* readTag(), n times: the children, the own data and the tags after it.   *)
OwnOf(bytes, head, inner, c) ==
  OwnValue(bytes, inner.next, head.length - (inner.next - head.next), head.code, c)

TagRead(head, inner, own, others) ==
  IF head = Failed THEN Failed
  ELSE IF inner = Failed THEN Failed
  ELSE IF own = Failed THEN Failed
  ELSE IF others = Failed THEN Failed
  ELSE LET tag == [name |-> head.name, children |-> inner.tags, type |-> own.type, value |-> own.value]
       IN [next |-> others.next, count |-> others.count, tags |-> <<tag>> \o others.tags]

Reading(read, bytes, place, limits, c) ==
  IF place.n = 0 THEN [next |-> place.at, count |-> place.count, tags |-> <<>>]
  ELSE LET head == Header(bytes, place, limits, c)
           inner == read[Inside(place, head)]
           own == OwnOf(bytes, head, inner, c)
           others == read[After(place, own, inner)]
       IN TagRead(head, inner, own, others)

ReadTags(bytes, limits, c) ==
  LET read[place \in Place] == Reading(read, bytes, place, limits, c) IN read

(* ECPacket.decode() *)
PacketOf(opcode, all) ==
  IF all = Failed THEN Failed ELSE [opcode |-> opcode, tags |-> all.tags]

DecodePacket(bytes, limits, c) ==
  IF bytes = <<>> THEN Failed
  ELSE LET n == FromCount(bytes, 2, c)
           all == ReadTags(bytes, limits, c)[[at |-> n.next, n |-> n.value, depth |-> 1, count |-> 0]]
       IN IF n = Failed THEN Failed ELSE PacketOf(bytes[1], all)

-----------------------------------------------------------------------------
NoTags == [length |-> 0, tags |-> <<>>, size |-> 0, depth |-> 0]

Opcode == 1

(* A packet is the last list made. *)
Packet == [opcode |-> Opcode, tags |-> lists[Len(lists)].tags]

CodecInit ==
  /\ lists = <<NoTags>>
  /\ caps = [utf8Numbers |-> FALSE, largeTagCount |-> FALSE]
  /\ body = <<>> /\ decoded = NotYet

(* A tag with the list children as children, before the list rest.         *)
Listed(leaf, children, rest) ==
  LET inner == lists[children]
      others == lists[rest]
      tag == [name |-> leaf.name, children |-> inner.tags, type |-> leaf.type, value |-> leaf.value]
  IN [tag |-> leaf, children |-> children, rest |-> rest,
      length |-> 1 + others.length,
      tags |-> <<tag>> \o others.tags,
      size |-> 1 + inner.size + others.size,
      depth |-> IF 1 + inner.depth > others.depth THEN 1 + inner.depth ELSE others.depth]

(* The constructor of a tag, and ECPacket.add(). *)
AddTag(leaf, children, rest) ==
  /\ body = <<>>
  /\ Len(lists) <= MaxTags /\ Listed(leaf, children, rest).size <= MaxTags
  /\ lists' = Append(lists, Listed(leaf, children, rest))
  /\ UNCHANGED <<caps, body, decoded>>

(* Every list made is a part of the packet. *)
NothingLeftOver ==
  \A i \in 2..(Len(lists) - 1) :
    \E j \in (i + 1)..Len(lists) : i \in {lists[j].children, lists[j].rest}

(* ECPacket.encode(), with the capabilities of the connection. *)
EncodePacket ==
  /\ body = <<>> /\ NothingLeftOver
  /\ caps' \in Forms
  /\ Encodable(lists, caps')
  /\ body' = <<Opcode>> \o CountOfTags(lists[Len(lists)].length, caps')
             \o EncodeLists(lists, caps')[Len(lists)]
  /\ Len(body') \in Integer
  /\ UNCHANGED <<lists, decoded>>

DecodeBody(n, limits) ==
  /\ body # <<>> /\ decoded = NotYet
  /\ decoded' = [next |-> 2, whole |-> n = Len(body), limits |-> limits,
                 packet |-> DecodePacket(SubSeq(body, 1, n), limits, caps)]
  /\ UNCHANGED <<lists, caps, body>>

CodecNext ==
  \/ \E leaf \in Leaf, children, rest \in 1..Len(lists) : AddTag(leaf, children, rest)
  \/ EncodePacket
  \/ \E limits \in Limits : DecodeBody(Len(body), limits)
  \/ \E n \in 0..(Len(body) - 1) : DecodeBody(n, Default)

CodecSpec == CodecInit /\ [][CodecNext]_codecVars

-----------------------------------------------------------------------------
(* What was encoded decodes to itself in every form of numbers and counts, *)
(* at every boundary of their lengths and at any depth within the limits;  *)
(* past a limit it is refused (ECTagDecoder).                              *)
RoundTrip ==
  decoded # NotYet /\ decoded.whole
    => decoded.packet = IF /\ lists[Len(lists)].depth < decoded.limits.maxDepth
                           /\ lists[Len(lists)].size <= decoded.limits.maxTagCount
                          THEN Packet ELSE Failed

(* A body cut short is never taken for another packet: it is refused, or,  *)
(* cut within the count, it is a packet without a tag (readCount() does    *)
(* not check that its bytes are there).                                    *)
CutIsNotMistaken ==
  decoded # NotYet /\ ~decoded.whole
    => decoded.packet \in {Failed, [opcode |-> Opcode, tags |-> <<>>]}
=============================================================================
