----------------------------- MODULE WireProofs -----------------------------
(***************************************************************************)
(* Theorems about Wire and the two serializers, for messages of any length *)
(* and with any values.                                                    *)
(***************************************************************************)
EXTENDS Wire, SequenceLemmas

(* The server's serializer.                                                *)

\* What a uint32_t and a uint8_t hold, and an int that is no less than zero.
Word == {n \in Nat : n < 4294967296}
Byte == 0..255
Positive == {n \in Nat : n < 2147483648}

\* The number four bytes make up.
Number(a, b, c, d) == (a * 16777216) + (b * 65536) + (c * 256) + d

\* Dividing by a byte's worth leaves a byte.
LEMMA ByteOff ==
  ASSUME NEW n \in Nat
  PROVE  /\ n \div 256 \in Nat
         /\ n % 256 \in Byte /\ n % 256 \in Nat /\ n % 256 < 256
         /\ n = ((n \div 256) * 256) + (n % 256)
<1>1. n % 256 \in Nat /\ n % 256 < 256
  BY SMT
<1> QED BY <1>1, SMT DEF Byte

\* A number takes four bytes, the highest first.
LEMMA Copy32Bytes ==
  ASSUME NEW n \in Word
  PROVE  \E a, b, c, d \in Byte :
           Copy32(n) = <<a, b, c, d>> /\ n = Number(a, b, c, d)
<1> DEFINE p == n \div 256
           q == p \div 256
           r == q \div 256
<1>1. n \in Nat /\ n < 4294967296
  BY DEF Word
<1>2. p \in Nat /\ p < 16777216 /\ n = (p * 256) + (n % 256) /\ n % 256 \in Byte
  BY <1>1, ByteOff, SMT
<1>3. q \in Nat /\ q < 65536 /\ p = (q * 256) + (p % 256) /\ p % 256 \in Byte
  BY <1>2, ByteOff, SMT
<1>4. r \in Nat /\ r < 256 /\ q = (r * 256) + (q % 256) /\ q % 256 \in Byte
  BY <1>3, ByteOff, SMT
<1>5. q = n \div 65536
  BY <1>1, SMT
<1>6. r = n \div 16777216
  BY <1>1, SMT
<1>7. r % 256 = r
  BY <1>4, SMT
<1>8. Copy32(n) = << r, q % 256, p % 256, n % 256 >>
  BY <1>5, <1>6, <1>7, SMT DEF Copy32
<1>9. n = Number(r, q % 256, p % 256, n % 256)
  <2> HIDE DEF p, q, r
  <2> QED BY <1>1, <1>2, <1>3, <1>4, SMT DEF Byte, Number
<1>10. r \in Byte
  BY <1>4, SMT DEF Byte
<1>11. n % 256 \in Byte /\ p % 256 \in Byte /\ q % 256 \in Byte
  BY <1>2, <1>3, <1>4, SMT
<1> HIDE DEF p, q, r
<1> QED BY <1>8, <1>9, <1>10, <1>11

\* What stands between two parts of a packet is found at its place.
LEMMA Middle ==
  ASSUME NEW before \in Seq(Int), NEW w \in Seq(Int), NEW after \in Seq(Int)
  PROVE  /\ Len(before) \in Nat /\ Len(w) \in Nat /\ Len(after) \in Nat
         /\ (before \o w) \o after \in Seq(Int)
         /\ Len((before \o w) \o after) = Len(before) + Len(w) + Len(after)
         /\ \A k \in 1..Len(w) : ((before \o w) \o after)[Len(before) + k] = w[k]
<1>1. Len(before) \in Nat /\ Len(w) \in Nat /\ Len(after) \in Nat
  BY LenProperties
<1>2. /\ before \o w \in Seq(Int) /\ Len(before \o w) = Len(before) + Len(w)
      /\ \A i \in 1..(Len(before) + Len(w)) :
           (before \o w)[i] = IF i <= Len(before) THEN before[i] ELSE w[i - Len(before)]
  BY ConcatProperties
<1>3. /\ (before \o w) \o after \in Seq(Int)
      /\ Len((before \o w) \o after) = Len(before \o w) + Len(after)
      /\ \A i \in 1..(Len(before \o w) + Len(after)) :
           ((before \o w) \o after)[i] =
              IF i <= Len(before \o w) THEN (before \o w)[i] ELSE after[i - Len(before \o w)]
  BY <1>2, ConcatProperties
<1>4. ASSUME NEW k \in 1..Len(w)
      PROVE  ((before \o w) \o after)[Len(before) + k] = w[k]
  <2>1. Len(before) + k \in 1..(Len(before) + Len(w)) /\ ~ (Len(before) + k <= Len(before))
        /\ Len(before) + k \in 1..(Len(before \o w) + Len(after))
        /\ Len(before) + k <= Len(before \o w)
        /\ (Len(before) + k) - Len(before) = k
    BY <1>1, <1>2
  <2>2. ((before \o w) \o after)[Len(before) + k] = (before \o w)[Len(before) + k]
    BY <1>3, <2>1
  <2>3. (before \o w)[Len(before) + k] = w[k]
    BY <1>2, <2>1
  <2> QED BY <2>2, <2>3
<1> QED BY <1>1, <1>2, <1>3, <1>4

\* So is all of it.
LEMMA MiddleWhole ==
  ASSUME NEW before \in Seq(Int), NEW w \in Seq(Int), NEW after \in Seq(Int)
  PROVE  SubSeq((before \o w) \o after, Len(before) + 1, Len(before) + Len(w)) = w
<1> DEFINE b == (before \o w) \o after
           m == Len(before) + 1
           n == Len(before) + Len(w)
<1>1. /\ Len(before) \in Nat /\ Len(w) \in Nat /\ Len(after) \in Nat
      /\ b \in Seq(Int) /\ Len(b) = Len(before) + Len(w) + Len(after)
      /\ \A k \in 1..Len(w) : b[Len(before) + k] = w[k]
  BY Middle
<1> HIDE DEF b
<1>2. \A i \in m..n : b[i] \in Int
  BY <1>1, ElementOfSeq
<1>3. /\ SubSeq(b, m, n) \in Seq(Int)
      /\ Len(SubSeq(b, m, n)) = IF m <= n THEN n - m + 1 ELSE 0
      /\ \A i \in 1..(n - m + 1) : SubSeq(b, m, n)[i] = b[m + i - 1]
  BY <1>1, <1>2, SubSeqProperties
<1>4. Len(SubSeq(b, m, n)) = Len(w)
  BY <1>1, <1>3
<1>5. ASSUME NEW i \in 1..Len(w) PROVE SubSeq(b, m, n)[i] = w[i]
  <2>1. i \in 1..(n - m + 1) /\ m + i - 1 = Len(before) + i
    BY <1>1
  <2>2. SubSeq(b, m, n)[i] = b[Len(before) + i]
    <3> HIDE DEF m, n
    <3> QED BY <1>3, <2>1
  <2> QED BY <1>1, <2>2
<1>6. SubSeq(b, m, n) = w
  BY <1>3, <1>4, <1>5, SeqEqual
<1> QED BY <1>6 DEF b

\* parse32intFromArray reads back what copy32intToPlace wrote, whatever
\* stands before and behind it.
LEMMA Parse32Copy32 ==
  ASSUME NEW n \in Word, NEW b, NEW i \in Nat,
         \A k \in 1..4 : b[i + k] = Copy32(n)[k]
  PROVE  Parse32(b, i + 1) = n
<1>1. PICK w, x, y, z \in Byte :
        Copy32(n) = <<w, x, y, z>> /\ n = Number(w, x, y, z)
  BY Copy32Bytes
<1>2. b[i + 1] = w /\ b[i + 2] = x /\ b[i + 3] = y /\ b[i + 4] = z
  BY <1>1
<1>3. (i + 1) + 1 = i + 2 /\ (i + 1) + 2 = i + 3 /\ (i + 1) + 3 = i + 4
  OBVIOUS
<1> QED BY <1>1, <1>2, <1>3, SMT DEF Parse32, Number

-----------------------------------------------------------------------------

\* The bytes of a number, as a sequence.
LEMMA Copy32Seq ==
  ASSUME NEW n \in Word
  PROVE  Copy32(n) \in Seq(Int) /\ Len(Copy32(n)) = 4
<1>1. PICK a, b, c, d \in Byte : Copy32(n) = <<a, b, c, d>>
  BY Copy32Bytes
<1>2. a \in Int /\ b \in Int /\ c \in Int /\ d \in Int
  BY DEF Byte
<1> QED BY <1>1, <1>2

\* A length that fits an int fits a uint32_t.
LEMMA Words == Word \subseteq Nat /\ Positive \subseteq Word
BY SMT DEF Word, Positive

\* Where deserialize stands behind the bytes before.
Place(before, payload) == [index |-> Len(before) + 1, payload |-> payload, inside |-> TRUE]

\* How long a part of a packet makes it.
LEMMA Longer ==
  ASSUME NEW before \in Seq(Int), NEW w \in Seq(Int), NEW n \in Nat, Len(w) = n
  PROVE  /\ before \o w \in Seq(Int) /\ Len(before) \in Nat
         /\ Len(before \o w) = Len(before) + n
<1>1. before \o w \in Seq(Int) /\ Len(before \o w) = Len(before) + Len(w)
  BY ConcatProperties
<1>2. Len(before) \in Nat
  BY LenProperties
<1> QED BY <1>1, <1>2

\* Where the parts of a packet are put together first does not matter.
LEMMA Associative ==
  ASSUME NEW x \in Seq(Int), NEW y \in Seq(Int), NEW z \in Seq(Int)
  PROVE  (x \o y) \o z = x \o (y \o z)
BY ConcatAssociative, SMTT(30)

\* A number is read back.
LEMMA NumberReadsBack ==
  ASSUME NEW n \in Word, NEW before \in Seq(Int), NEW after \in Seq(Int), NEW payload
  PROVE  Item((before \o Copy32(n)) \o after, "i", Place(before, payload))
           = Place(before \o Copy32(n), Append(payload, n))
<1> DEFINE w == Copy32(n)
           b == (before \o w) \o after
           l == Len(before)
<1>1. w \in Seq(Int) /\ Len(w) = 4
  BY Copy32Seq
<1> HIDE DEF w
<1>2. /\ l \in Nat /\ Len(w) \in Nat /\ Len(after) \in Nat
      /\ Len(b) = l + Len(w) + Len(after)
      /\ \A k \in 1..Len(w) : b[l + k] = w[k]
  BY <1>1, Middle, ZenonT(30)
<1>3. Len(before \o w) = l + 4
  BY <1>1, Longer
<1> HIDE DEF b, l
<1>4. Parse32(b, l + 1) = n
  <2>1. \A k \in 1..4 : b[l + k] = w[k]
    BY <1>1, <1>2
  <2> QED BY <1>2, <2>1, Parse32Copy32 DEF w
<1>5. ~ ((l + 1 + 4) - 1 > Len(b)) /\ (l + 4) + 1 = l + 1 + 4
  BY <1>1, <1>2
<1>6. Item(b, "i", [index |-> l + 1, payload |-> payload, inside |-> TRUE])
        = [index |-> l + 1 + 4, payload |-> Append(payload, n), inside |-> TRUE]
  BY <1>4, <1>5 DEF Item
<1>7. Item(b, "i", Place(before, payload)) = Place(before \o w, Append(payload, n))
  BY <1>3, <1>5, <1>6 DEF Place, l
<1> QED BY <1>7 DEF b, w

\* A string is read back, of whatever bytes it is.
LEMMA StringReadsBack ==
  ASSUME NEW text \in Seq(Int), Len(text) \in Positive,
         NEW before \in Seq(Int), NEW after \in Seq(Int), NEW payload
  PROVE  Item((before \o (Copy32(Len(text)) \o text)) \o after, "s", Place(before, payload))
           = Place(before \o (Copy32(Len(text)) \o text), Append(payload, text))
<1> DEFINE n == Len(text)
           w == Copy32(n)
           b == (before \o (w \o text)) \o after
           l == Len(before)
<1>1. n \in Word /\ n \in Nat
  BY Words
<1>2. w \in Seq(Int) /\ Len(w) = 4
  BY <1>1, Copy32Seq
<1> HIDE DEF w
<1>3. /\ before \o w \in Seq(Int) /\ Len(before \o w) = l + 4
      /\ w \o text \in Seq(Int) /\ text \o after \in Seq(Int)
      /\ l \in Nat
  <2>1. w \o text \in Seq(Int) /\ text \o after \in Seq(Int)
    BY <1>2, ConcatProperties
  <2>2. before \o w \in Seq(Int) /\ Len(before) \in Nat /\ Len(before \o w) = Len(before) + 4
    BY <1>2, Longer
  <2> QED BY <2>1, <2>2
<1>4. /\ before \o (w \o text) \in Seq(Int)
      /\ Len(before \o (w \o text)) = (l + 4) + n
      /\ before \o (w \o text) = (before \o w) \o text
  <2>1. (before \o w) \o text = before \o (w \o text)
    BY <1>2, Associative, ZenonT(30)
  <2>2. (before \o w) \o text \in Seq(Int) /\ Len((before \o w) \o text) = Len(before \o w) + n
    BY <1>1, <1>3, Longer
  <2> QED BY <1>3, <2>1, <2>2
<1>5. /\ b = (before \o w) \o (text \o after)
      /\ b = ((before \o w) \o text) \o after
  <2>1. ((before \o w) \o text) \o after = (before \o w) \o (text \o after)
    <3>1. before \o w \in Seq(Int) /\ text \in Seq(Int) /\ after \in Seq(Int)
      BY <1>3
    <3> QED BY <3>1, Associative, ZenonT(30)
  <2> QED BY <1>4, <2>1
<1>6. \A k \in 1..Len(w) : b[l + k] = w[k]
  <2>1. \A k \in 1..Len(w) : ((before \o w) \o (text \o after))[Len(before) + k] = w[k]
    BY <1>2, <1>3, Middle
  <2> QED BY <1>5, <2>1
<1>7. /\ Len(b) = Len(before \o w) + Len(text) + Len(after)
      /\ Len(after) \in Nat
  <2>1. /\ Len(before \o w) \in Nat /\ Len(text) \in Nat /\ Len(after) \in Nat
        /\ ((before \o w) \o text) \o after \in Seq(Int)
        /\ Len(((before \o w) \o text) \o after) = Len(before \o w) + Len(text) + Len(after)
        /\ \A k \in 1..Len(text) :
             (((before \o w) \o text) \o after)[Len(before \o w) + k] = text[k]
    <3>1. before \o w \in Seq(Int) /\ text \in Seq(Int) /\ after \in Seq(Int)
      BY <1>3
    <3> HIDE DEF n, l, b
    <3> QED BY <3>1, Middle, SMTT(30)
  <2> QED BY <1>5, <2>1
<1>8. SubSeq(b, Len(before \o w) + 1, Len(before \o w) + Len(text)) = text
  <2>1. SubSeq(((before \o w) \o text) \o after,
               Len(before \o w) + 1, Len(before \o w) + Len(text)) = text
    BY <1>3, MiddleWhole
  <2> QED BY <1>5, <2>1
<1> HIDE DEF b, l
<1>9. Parse32(b, l + 1) = n
  <2>1. \A k \in 1..4 : b[l + k] = w[k]
    BY <1>2, <1>6
  <2> HIDE DEF n
  <2> QED BY <1>1, <1>3, <2>1, Parse32Copy32 DEF w
<1>10. SubSeq(b, (l + 4) + 1, (l + 4) + n) = text
  BY <1>3, <1>8
<1>11. Len(b) = (l + 4) + n + Len(after)
  BY <1>3, <1>7
<1> HIDE DEF n
<1>12. /\ ~ ((l + 1 + 4) - 1 > Len(b))
       /\ ~ ((l + 1 + 4) + n - 1 > Len(b))
       /\ (l + 1 + 4) + n - 1 = (l + 4) + n
       /\ l + 1 + 4 = (l + 4) + 1
       /\ ((l + 4) + n) + 1 = (l + 1 + 4) + n
  BY <1>1, <1>3, <1>7, <1>11
<1>13. Item(b, "s", [index |-> l + 1, payload |-> payload, inside |-> TRUE])
         = [index |-> (l + 1 + 4) + n, payload |-> Append(payload, text), inside |-> TRUE]
  <2>1. SubSeq(b, l + 1 + 4, (l + 1 + 4) + n - 1) = text
    BY <1>10, <1>12
  <2> QED BY <1>9, <1>12, <2>1 DEF Item
<1>14. Item(b, "s", Place(before, payload))
         = Place(before \o (w \o text), Append(payload, text))
  BY <1>4, <1>12, <1>13 DEF Place, l
<1> QED BY <1>14 DEF b, w, n

\* An item putDataToMessage wrote is read back by deserialize, which is then
\* at the place behind it, whatever stands before and behind the item: a
\* string may hold any bytes.  The length of a string is read into an int.
THEOREM ItemReadsBack ==
  ASSUME NEW f \in {"i", "s"}, NEW item,
         f = "i" => item \in Word,
         f = "s" => item \in Seq(Int) /\ Len(item) \in Positive,
         NEW before \in Seq(Int), NEW after \in Seq(Int), NEW payload
  PROVE  Item((before \o Field(f, item)) \o after, f, Place(before, payload))
           = Place(before \o Field(f, item), Append(payload, item))
<1>1. CASE f = "i"
  <2>1. item \in Word /\ Field(f, item) = Copy32(item)
    BY <1>1 DEF Field
  <2> QED BY <1>1, <2>1, NumberReadsBack
<1>2. CASE f = "s"
  <2>1. /\ item \in Seq(Int) /\ Len(item) \in Positive
        /\ Field(f, item) = Copy32(Len(item)) \o item
    BY <1>2 DEF Field
  <2>2. Item((before \o (Copy32(Len(item)) \o item)) \o after, "s", Place(before, payload))
          = Place(before \o (Copy32(Len(item)) \o item), Append(payload, item))
    BY <2>1, StringReadsBack
  <2> QED BY <1>2, <2>1, <2>2
<1> QED BY <1>1, <1>2

-----------------------------------------------------------------------------
(* The serializer of the Java client.                                      *)

\* An int the client writes is read back if, and only if, it fits in a byte.
THEOREM IntReadsBack == \A n \in Int : bytesToInt(intToBytes(n)) = n <=> n \in -128..127
<1> SUFFICES ASSUME NEW n \in Int PROVE bytesToInt(intToBytes(n)) = n <=> n \in -128..127
  OBVIOUS
<1>1. bytesToInt(intToBytes(n)) = ToByte(n)
  BY DEF bytesToInt, intToBytes
<1>2. ToByte(n) = n <=> n \in -128..127
  BY SMT DEF ToByte
<1> QED BY <1>1, <1>2

\* Nothing longer than 127 bytes is accepted: its size does not fit in the
\* byte it is read from.
THEOREM LongIsRefused ==
  ASSUME NEW b \in Seq(-128..127), Len(b) > 127
  PROVE  Parsed(b) = Throws("BadLength")
<1> DEFINE B == -128..127
<1>1. \A x \in B : x <= 127
  BY SMT
<1>2. SubSeq(b, 5, 8)[4] = b[8] /\ b[8] \in B
  <2> HIDE DEF B
  <2>1. b \in Seq(B)
    BY DEF B
  <2> QED BY <2>1
<1>3. WrongSize(b)
  <2> HIDE DEF B
  <2> QED BY <1>1, <1>2 DEF WrongSize, bytesToInt
<1> QED BY <1>3 DEF Parsed

-----------------------------------------------------------------------------

\* What a message may hold.

\* The formats of the server are lists of ints and strings.
LEMMA FormatIs ==
  \A h \in DOMAIN Format : h \in Nat /\ h < 65556 /\ Format[h] \in Seq({"i", "s"})
<1> DEFINE S == Seq({"i", "s"})
<1>1. /\ <<>> \in S /\ <<"s">> \in S /\ <<"i","i","i">> \in S /\ <<"i", "s">> \in S /\ <<"s", "s">> \in S
      /\ <<"s", "i", "i", "i">> \in S /\ <<"s", "s", "s">> \in S
  OBVIOUS
<1> HIDE DEF S
<1>2. \A h \in DOMAIN Format : h \in Nat /\ h < 65556 
  BY DEF Format
<1>3. \A h \in DOMAIN Format : Format[h] \in S
  BY <1>1 DEF Format
<1> QED BY <1>2, <1>3 DEF S

\* The types of the client are lists of Integer and String; a header is a byte.
LEMMA PayloadTypesIs ==
  \A h \in DOMAIN PayloadTypes : h \in 1..127 /\ PayloadTypes[h] \in Seq({"Integer", "String"})
<1> DEFINE S == Seq({"Integer", "String"})
<1>1. /\ <<>> \in S /\ <<"Integer">> \in S /\ <<"Integer", "Integer">> \in S /\ <<"String">> \in S /\ <<"String", "String">> \in S
      /\ <<"String", "Integer">> \in S
  OBVIOUS
<1> HIDE DEF S
<1>2. \A h \in DOMAIN PayloadTypes : h \in 1..127
  BY DEF PayloadTypes
<1>3. \A h \in DOMAIN PayloadTypes : PayloadTypes[h] \in S
  BY <1>1 DEF PayloadTypes
<1> QED BY <1>2, <1>3 DEF S

-----------------------------------------------------------------------------

\* Checksums.  The one of the server is a sum modulo 128; that of the client a
\* sum of signed bytes with the remainder of Java.

\* What is taken modulo 128 is less.
LEMMA Mod128 == \A k \in Int : k % 128 \in 0..127
BY SMT

\* The sums that countChecksum of the server goes through.
LEMMA ChecksumIs ==
  ASSUME NEW b \in Seq(Int)
  PROVE  \E sum \in [0..Len(b) -> 0..127] :
           /\ sum[0] = 0
           /\ \A i \in 1..Len(b) : sum[i] = (sum[i - 1] + b[i]) % 128
           /\ Checksum(b) = sum[Len(b)]
<1> DEFINE n == Len(b)
           V == 0..127
           step == [i \in 1..n |-> [x \in V |-> (x + b[i]) % 128]]
           Is(s) == s = [i \in 0..n |-> IF i = 0 THEN 0 ELSE (s[i - 1] + b[i]) % 128]
<1>1. n \in Nat /\ \A i \in 1..n : b[i] \in Int
  BY LenProperties, ElementOfSeq
<1> HIDE DEF n
<1>2. step \in [1..n -> [V -> V]]
  <2>1. ASSUME NEW i \in 1..n, NEW x \in V PROVE (x + b[i]) % 128 \in V
    <3>1. x + b[i] \in Int
      BY <1>1
    <3> HIDE DEF n
    <3> QED BY <3>1, Mod128
  <2> HIDE DEF V
  <2> QED BY <2>1
<1>3. PICK f \in [0..n -> V] : Runs(f, n, 0, step)
  <2>1. 0 \in V
    OBVIOUS
  <2> HIDE DEF V, step
  <2> QED BY <1>1, <1>2, <2>1, Recursion
<1>4. \A i \in 1..n : i \in 0..n /\ i - 1 \in 0..n /\ i # 0
  BY <1>1
<1>5. \A i \in 1..n : f[i] = (f[i - 1] + b[i]) % 128
  BY <1>3, <1>4 DEF Runs
<1>6. Is(f)
  <2> HIDE DEF step, V
  <2> QED BY <1>3, <1>5 DEF Runs
<1> DEFINE s == CHOOSE t : Is(t)
<1>7. Is(s)
  <2> HIDE DEF Is
  <2> QED BY <1>6
<1>8. Checksum(b) = s[n]
  BY DEF Checksum, n
<1> HIDE DEF s
<1>9. s[0] = 0 /\ \A i \in 1..n : s[i] = (s[i - 1] + b[i]) % 128
  BY <1>1, <1>4, <1>7
<1>10. \A i \in 0..n : s[i] = f[i]
  <2>1. InStep(s, f, n)
    BY <1>3, <1>5, <1>9 DEF Runs, InStep
  <2> HIDE DEF Is, step, V
  <2> QED BY <1>1, <2>1, OneRecursion
<1>11. s[n] = f[n]
  BY <1>1, <1>10
<1> QED BY <1>3, <1>5, <1>8, <1>11 DEF n, Runs

\* A byte of Java.
SByte == -128..127

\* The remainder of Java is 0 when, and congruent to, that of TLA+.
LEMMA RemIs ==
  \A k \in -255..255 :
    Rem[k] \in -127..127 /\ Rem[k] % 128 = k % 128 /\ (Rem[k] = 0 <=> k % 128 = 0)
<1> SUFFICES ASSUME NEW k \in -255..255
             PROVE  Rem[k] \in -127..127 /\ Rem[k] % 128 = k % 128 /\ (Rem[k] = 0 <=> k % 128 = 0)
  OBVIOUS
<1> DEFINE r == IF k < 0 THEN -((-k) % 128) ELSE k % 128
<1>1. Rem[k] = r
  BY DEF Rem
<1>2. r \in -127..127 /\ r % 128 = k % 128 /\ (r = 0 <=> k % 128 = 0)
  BY SMT
<1> QED BY <1>1, <1>2

\* u is the sum x and one byte more.
Adds(u, x, b) == u = Rem[x + b]

\* It is a sum modulo 128, of less than 128 either way.
LEMMA RemStep ==
  ASSUME NEW x \in -127..127, NEW b \in -128..127, NEW u, Adds(u, x, b)
  PROVE  u \in -127..127 /\ u % 128 = (x + b) % 128
<1> DEFINE k == x + b
<1>1. k \in -255..255 /\ u = Rem[k]
  BY SMT DEF Adds
<1> HIDE DEF k
<1>2. Rem[k] \in -127..127 /\ Rem[k] % 128 = k % 128
  BY <1>1, RemIs
<1> QED BY <1>1, <1>2 DEF k

\* A sum modulo 128 is that of the remainders.
LEMMA ModSum ==
  ASSUME NEW a \in Int, NEW b \in Int
  PROVE  (a + b) % 128 = ((a % 128) + (b % 128)) % 128
BY SMT

\* So is a difference.
LEMMA ModDifference ==
  ASSUME NEW a \in Int, NEW b \in Int, NEW c \in Int, NEW d \in Int,
         a % 128 = c % 128, b % 128 = d % 128
  PROVE  (a - b) % 128 = (c - d) % 128
BY SMT

\* y is more than x by d.
Off(y, x, d) == (y - x) % 128 = d

\* A difference of d, in the sums before or in the bytes, is one after.
LEMMA DifferenceStep ==
  ASSUME NEW x \in -127..127, NEW y \in -127..127,
         NEW b \in -128..127, NEW c \in -128..127, NEW d \in 0..127,
         NEW u, NEW v, Adds(u, x, b), Adds(v, y, c),
         \/ Off(y, x, d) /\ Off(c, b, 0)
         \/ Off(y, x, 0) /\ Off(c, b, d)
  PROVE  Off(v, u, d)
<1>1. (v - u) % 128 = ((y + c) - (x + b)) % 128
  <2>1. /\ u \in -127..127 /\ u % 128 = (x + b) % 128
        /\ v \in -127..127 /\ v % 128 = (y + c) % 128
    <3>1. u \in -127..127 /\ u % 128 = (x + b) % 128
      BY RemStep, ZenonT(30)
    <3>2. v \in -127..127 /\ v % 128 = (y + c) % 128
      BY RemStep, ZenonT(30)
    <3> QED BY <3>1, <3>2
  <2>2. u \in Int /\ v \in Int /\ x + b \in Int /\ y + c \in Int
    BY <2>1
  <2> QED BY <2>1, <2>2, ModDifference
<1> DEFINE p == y - x
           q == c - b
<1>2. p \in Int /\ q \in Int /\ (y + c) - (x + b) = p + q
  OBVIOUS
<1>3. \/ p % 128 = d /\ q % 128 = 0
      \/ p % 128 = 0 /\ q % 128 = d
  BY DEF Off
<1> HIDE DEF p, q
<1>4. (p + q) % 128 = ((p % 128) + (q % 128)) % 128
  BY <1>2, ModSum
<1>5. (p % 128) + (q % 128) = d
  BY <1>3
<1>6. d % 128 = d
  BY SMT
<1> QED BY <1>1, <1>2, <1>4, <1>5, <1>6, ZenonT(30) DEF Off

\* The sums that the client goes through.
LEMMA SumIs ==
  ASSUME NEW b \in Seq(SByte)
  PROVE  \E sum \in [0..Len(b) -> -127..127] :
           /\ sum[0] = 0
           /\ \A i \in 1..Len(b) : sum[i] = Rem[sum[i - 1] + b[i]]
           /\ Sum(b) = sum[Len(b)]
<1> DEFINE n == Len(b)
           V == -127..127
           step == [i \in 1..n |-> [x \in V |-> Rem[x + b[i]]]]
           Is(s) == s = [i \in 0..n |-> IF i = 0 THEN 0 ELSE Rem[s[i - 1] + b[i]]]
<1>1. n \in Nat /\ \A i \in 1..n : b[i] \in -128..127
  BY LenProperties, ElementOfSeq DEF SByte
<1> HIDE DEF n
<1>2. step \in [1..n -> [V -> V]]
  <2>1. ASSUME NEW i \in 1..n, NEW x \in V PROVE Rem[x + b[i]] \in V
    <3>1. x \in -127..127 /\ b[i] \in -128..127
      BY <1>1
    <3> HIDE DEF V
    <3>2. Rem[x + b[i]] \in -127..127
      BY <3>1, RemStep, ZenonT(30) DEF Adds
    <3> QED BY <3>2 DEF V
  <2> HIDE DEF V
  <2> QED BY <2>1
<1>3. PICK f \in [0..n -> V] : Runs(f, n, 0, step)
  <2>1. 0 \in V
    OBVIOUS
  <2> HIDE DEF V, step
  <2> QED BY <1>1, <1>2, <2>1, Recursion
<1>4. \A i \in 1..n : i \in 0..n /\ i - 1 \in 0..n /\ i # 0
  BY <1>1
<1>5. \A i \in 1..n : f[i] = Rem[f[i - 1] + b[i]]
  BY <1>3, <1>4 DEF Runs
<1>6. Is(f)
  <2> HIDE DEF step, V
  <2> QED BY <1>3, <1>5 DEF Runs
<1> DEFINE s == CHOOSE t : Is(t)
<1>7. Is(s)
  <2> HIDE DEF Is
  <2> QED BY <1>6
<1>8. Sum(b) = s[n]
  BY DEF Sum, n
<1> HIDE DEF s
<1>9. s[0] = 0 /\ \A i \in 1..n : s[i] = Rem[s[i - 1] + b[i]]
  BY <1>1, <1>4, <1>7
<1>10. \A i \in 0..n : s[i] = f[i]
  <2>1. InStep(s, f, n)
    BY <1>3, <1>5, <1>9 DEF Runs, InStep
  <2> HIDE DEF Is, step, V
  <2> QED BY <1>1, <2>1, OneRecursion
<1>11. s[n] = f[n]
  BY <1>1, <1>10
<1> QED BY <1>3, <1>5, <1>8, <1>11 DEF n, Runs

\* One byte more.
LEMMA SumAppend ==
  ASSUME NEW b \in Seq(SByte), NEW x \in SByte
  PROVE  Append(b, x) \in Seq(SByte) /\ Sum(b) \in -127..127
         /\ Sum(Append(b, x)) = Rem[Sum(b) + x]
<1> DEFINE c == Append(b, x)
           n == Len(b)
<1>1. c \in Seq(SByte) /\ n \in Nat /\ Len(c) = n + 1
      /\ c[n + 1] = x /\ \A i \in 1..n : c[i] = b[i]
  BY AppendProperties
<1>2. PICK s \in [0..n -> -127..127] :
        s[0] = 0 /\ (\A i \in 1..n : s[i] = Rem[s[i - 1] + b[i]]) /\ Sum(b) = s[n]
  BY SumIs
<1> HIDE DEF c, n
<1>3. PICK t \in [0..(n + 1) -> -127..127] :
        t[0] = 0 /\ (\A i \in 1..(n + 1) : t[i] = Rem[t[i - 1] + c[i]]) /\ Sum(c) = t[n + 1]
  BY <1>1, SumIs
<1>4. InStep(t, s, n)
  <2>1. \A i \in 1..n : i \in 1..(n + 1)
    BY <1>1
  <2> QED BY <1>1, <1>2, <1>3, <2>1 DEF InStep
<1>5. t[n] = s[n]
  <2>1. \A i \in 0..n : t[i] = s[i]
    BY <1>1, <1>4, OneRecursion
  <2> QED BY <1>1, <2>1
<1>6. t[n + 1] = Rem[t[n] + x]
  <2>1. n + 1 \in 1..(n + 1) /\ (n + 1) - 1 = n
    BY <1>1
  <2> QED BY <1>1, <1>3, <2>1
<1>7. Sum(b) \in -127..127
  <2>1. n \in 0..n
    BY <1>1
  <2> QED BY <1>2, <2>1
<1> QED BY <1>1, <1>2, <1>3, <1>5, <1>6, <1>7 DEF c

\* A checksum the client wrote brings the sum to zero.
LEMMA SumOfChecked ==
  ASSUME NEW b \in Seq(SByte)
  PROVE  countCheckSum(b) \in SByte /\ Sum(Append(b, countCheckSum(b))) = 0
<1> DEFINE s == Sum(b)
           x == ((128 - s + 128) % 256) - 128
<1>1. s \in -127..127
  <2>1. 0 \in SByte
    BY DEF SByte
  <2> QED BY <2>1, SumAppend
<1>2. countCheckSum(b) = x
  BY DEF countCheckSum, ToByte
<1> HIDE DEF s
<1>3. x \in -128..127 /\ (s + x) % 128 = 0 /\ s + x \in -255..255
  BY <1>1, SMT
<1> HIDE DEF x
<1>4. Sum(Append(b, x)) = Rem[s + x]
  BY <1>3, SumAppend DEF SByte, s
<1>5. Rem[s + x] = 0
  BY <1>3, RemIs
<1> QED BY <1>2, <1>3, <1>4, <1>5 DEF SByte

\* What altering one byte does to the sum.
LEMMA SumOfAltered ==
  ASSUME NEW b \in Seq(SByte), NEW c \in Seq(SByte), Len(c) = Len(b),
         NEW i \in 1..Len(b), NEW d \in Nat,
         \A k \in 1..Len(b) : k # i => c[k] = b[k],
         (c[i] - b[i]) % 128 = d % 128
  PROVE  (Sum(c) - Sum(b)) % 128 = d % 128
<1> DEFINE n == Len(b)
           V == -127..127
<1>1. n \in Nat
  BY LenProperties
<1>2. \A k \in 1..n : b[k] \in -128..127 /\ c[k] \in -128..127
  BY ElementOfSeq DEF SByte
<1>3. PICK s \in [0..n -> V] :
        s[0] = 0 /\ (\A k \in 1..n : s[k] = Rem[s[k - 1] + b[k]]) /\ Sum(b) = s[n]
  BY SumIs
<1>4. PICK t \in [0..n -> V] :
        t[0] = 0 /\ (\A k \in 1..n : t[k] = Rem[t[k - 1] + c[k]]) /\ Sum(c) = t[n]
  BY SumIs
<1> HIDE DEF n
<1> DEFINE e(k) == IF k < i THEN 0 ELSE d % 128
           P == {k \in 0..n : Off(t[k], s[k], e(k))}
<1>5. 0 \in P
  BY <1>1, <1>3, <1>4 DEF n, Off
<1>6. ASSUME NEW k \in 1..n, k - 1 \in P PROVE k \in P
  <2>1. /\ k \in 0..n /\ k - 1 \in 0..n /\ Off(t[k - 1], s[k - 1], e(k - 1))
        /\ s[k - 1] \in -127..127 /\ t[k - 1] \in -127..127
    BY <1>1, <1>6
  <2>2. Adds(s[k], s[k - 1], b[k]) /\ Adds(t[k], t[k - 1], c[k])
    BY <1>3, <1>4 DEF Adds
  <2>3. b[k] \in -128..127 /\ c[k] \in -128..127
    BY <1>2
  <2>4. k \in Int /\ i \in Int /\ d % 128 \in 0..127 /\ 0 \in 0..127
    BY Mod128 DEF n
  <2>5. CASE k = i
    <3>1. e(k - 1) = 0 /\ e(k) = d % 128 /\ Off(c[k], b[k], d % 128)
      BY <2>4, <2>5 DEF Off
    <3> HIDE DEF e
    <3> DEFINE r == d % 128
    <3>2. r \in 0..127 /\ Off(c[k], b[k], r) /\ Off(t[k - 1], s[k - 1], 0)
      BY <2>1, <2>4, <3>1
    <3> HIDE DEF r
    <3>3. Off(t[k], s[k], r)
      <4> HIDE DEF P, V
      <4> QED BY <2>1, <2>2, <2>3, <3>2, DifferenceStep, ZenonT(30)
    <3> QED BY <2>1, <3>1, <3>3 DEF r
  <2>6. CASE k # i
    <3>1. Off(c[k], b[k], 0)
      <4>1. c[k] = b[k]
        BY <2>6 DEF n
      <4>2. \A z \in -128..127 : (z - z) % 128 = 0
        BY SMT
      <4> QED BY <2>3, <4>1, <4>2 DEF Off
    <3>2. e(k - 1) = e(k) /\ e(k) \in 0..127
      BY <2>4, <2>6
    <3> HIDE DEF e
    <3>3. Off(t[k], s[k], e(k))
      <4> HIDE DEF P, V
      <4> QED BY <2>1, <2>2, <2>3, <3>1, <3>2, DifferenceStep, ZenonT(30)
    <3> QED BY <2>1, <3>3
  <2> QED BY <2>5, <2>6
<1>7. n \in P
  <2>1. 0..n \subseteq P
    <3> HIDE DEF P
    <3> QED BY <1>1, <1>5, <1>6, Along
  <2> QED BY <1>1, <2>1
<1>8. e(n) = d % 128
  BY <1>1 DEF n
<1> QED BY <1>3, <1>4, <1>7, <1>8 DEF Off

\* The sum the client keeps of bytes of the server is their checksum.
LEMMA SumOfSigned ==
  ASSUME NEW b \in Seq(0..255)
  PROVE  Signed(b) \in Seq(SByte) /\ Len(Signed(b)) = Len(b)
         /\ Sum(Signed(b)) \in -127..127 /\ Sum(Signed(b)) % 128 = Checksum(b)
<1> DEFINE n == Len(b)
           c == Signed(b)
<1>1. n \in Nat /\ b \in [1..n -> 0..255] /\ DOMAIN b = 1..n
  BY LenProperties, ZenonT(30)
<1>2. \A k \in 0..255 : ToByte(k) \in -128..127 /\ ToByte(k) % 128 = k % 128
  BY SMT DEF ToByte
<1>3. c = [k \in 1..n |-> ToByte(b[k])]
  BY <1>1 DEF Signed
<1>4. c \in Seq(SByte) /\ Len(c) = n
  <2>1. ASSUME NEW k \in 1..n PROVE ToByte(b[k]) \in SByte
    <3>1. b[k] \in 0..255
      <4> HIDE DEF n
      <4> QED BY <1>1
    <3> QED BY <3>1, <1>2 DEF SByte
  <2>2. c \in [1..n -> SByte]
    <3> HIDE DEF c, n
    <3> QED BY <1>3, <2>1
  <2>3. c \in Seq(SByte)
    <3> HIDE DEF n, c
    <3> QED BY <1>1, <2>2, SeqDef
  <2> HIDE DEF n, c
  <2> QED BY <1>1, <2>2, <2>3, LenProperties
<1>5. \A k \in 1..n : b[k] \in 0..255 /\ c[k] = ToByte(b[k])
  <2> HIDE DEF n, c
  <2> QED BY <1>1, <1>3
<1>6. PICK s \in [0..n -> 0..127] :
        s[0] = 0 /\ (\A k \in 1..n : s[k] = (s[k - 1] + b[k]) % 128) /\ Checksum(b) = s[n]
  <2>1. ASSUME NEW k \in 1..n PROVE b[k] \in Int
    <3>1. b[k] \in 0..255
      <4> HIDE DEF n
      <4> QED BY <1>1
    <3> DEFINE y == b[k]
    <3>2. y \in 0..255
      BY <3>1
    <3> HIDE DEF y
    <3>3. y \in Int
      BY <3>2
    <3> QED BY <3>3 DEF y
  <2>2. b \in [1..n -> Int]
    <3> HIDE DEF n
    <3> QED BY <1>1, <2>1
  <2>3. b \in Seq(Int)
    BY <1>1, <2>2, SeqDef
  <2> QED BY <2>3, ChecksumIs
<1> HIDE DEF n, c
<1>7. PICK t \in [0..n -> -127..127] :
        t[0] = 0 /\ (\A k \in 1..n : t[k] = Rem[t[k - 1] + c[k]]) /\ Sum(c) = t[n]
  BY <1>4, SumIs
<1> DEFINE P == {k \in 0..n : t[k] % 128 = s[k]}
<1>8. 0 \in P
  BY <1>1, <1>6, <1>7
<1>9. ASSUME NEW k \in 1..n, k - 1 \in P PROVE k \in P
  <2> DEFINE x == t[k - 1]
             y == b[k]
             z == ToByte(y)
  <2>1. x \in -127..127 /\ x % 128 = s[k - 1] /\ k \in 0..n
    BY <1>1, <1>9
  <2>2. y \in 0..255 /\ z \in -128..127 /\ z % 128 = y % 128
    BY <1>2, <1>5
  <2>3. t[k] = Rem[x + z] /\ s[k] = ((x % 128) + y) % 128
    BY <1>5, <1>6, <1>7, <2>1
  <2> HIDE DEF x, y, z, P
  <2>4. t[k] % 128 = (x + z) % 128
    <3> DEFINE u == t[k]
    <3>1. Adds(u, x, z)
      BY <2>3 DEF Adds
    <3> HIDE DEF u
    <3>2. u % 128 = (x + z) % 128
      BY <2>1, <2>2, <3>1, RemStep, ZenonT(30)
    <3> QED BY <3>2 DEF u
  <2>5. (x + z) % 128 = ((x % 128) + y) % 128
    <3>1. x \in Int /\ z \in Int /\ y \in Int /\ x % 128 \in Int
      BY <2>1, <2>2, Mod128
    <3>2. (x + z) % 128 = ((x % 128) + (z % 128)) % 128
      BY <3>1, ModSum
    <3>3. ((x % 128) + y) % 128 = (((x % 128) % 128) + (y % 128)) % 128
      BY <3>1, ModSum
    <3>4. (x % 128) % 128 = x % 128
      BY <3>1, SMT
    <3> QED BY <2>2, <3>2, <3>3, <3>4
  <2> QED BY <2>1, <2>3, <2>4, <2>5 DEF P
<1>10. n \in P
  <2>1. 0..n \subseteq P
    <3> HIDE DEF P
    <3> QED BY <1>1, <1>8, <1>9, Along
  <2> QED BY <1>1, <2>1
<1>11. Sum(c) \in -127..127
  <2>1. n \in 0..n
    BY <1>1
  <2> QED BY <1>7, <2>1
<1> QED BY <1>4, <1>6, <1>7, <1>10, <1>11 DEF c, n

-----------------------------------------------------------------------------

\* What the server writes: the header, the size, the fields, the checksum.

\* The bytes of a packet before the checksum.
Head8(h, size) == Copy32(h) \o Copy32(size)

\* The fields of a message of the server, and all it writes but the checksum.
Fields(m) == [i \in DOMAIN Format[m.header] |-> Field(Format[m.header][i], m.payload[i])]

ServerBody(m) ==
  Head8(m.header, 9 + Len(FlattenSeq(Fields(m)))) \o FlattenSeq(Fields(m))

\* serialize adds the checksum.
LEMMA Serialized == \A m : serialize(m) = Append(ServerBody(m), Checksum(ServerBody(m)))
BY DEF serialize, ServerBody, Head8, Fields

\* Any number is written as four bytes.
LEMMA Copy32Any ==
  ASSUME NEW n \in Nat
  PROVE  Copy32(n) \in Seq(Byte) /\ Len(Copy32(n)) = 4
<1>1. \A k \in Nat : k % 256 \in Byte
  BY ByteOff
<1>2. n \div 16777216 \in Nat /\ n \div 65536 \in Nat /\ n \div 256 \in Nat
  BY SMT
<1> DEFINE a == (n \div 16777216) % 256
           b == (n \div 65536) % 256
           c == (n \div 256) % 256
           d == n % 256
<1>3. a \in Byte /\ b \in Byte /\ c \in Byte /\ d \in Byte
  BY <1>1, <1>2
<1>4. Copy32(n) = <<a, b, c, d>>
  BY DEF Copy32
<1> HIDE DEF a, b, c, d
<1>5. <<a, b, c, d>> \in Seq(Byte) /\ Len(<<a, b, c, d>>) = 4
  BY <1>3
<1> QED BY <1>4, <1>5

\* What fits in 32 bits, or in an int, is less than the power of two.
LEMMA Shorter == \A n \in Nat : /\ n \div 65536 < 65536 => n \in Word
                                /\ n \div 65536 < 32768 => n \in Positive
<1> SUFFICES ASSUME NEW n \in Nat
             PROVE  /\ n \div 65536 < 65536 => n \in Word
                    /\ n \div 65536 < 32768 => n \in Positive
  OBVIOUS
<1>1. n < 65536 * (n \div 65536) + 65536
  BY SMT
<1> DEFINE q == n \div 65536
<1>2. q \in Nat
  BY SMT
<1> HIDE DEF q
<1>3. q < 65536 => n < 4294967296
  BY <1>1, <1>2 DEF q
<1>4. q < 32768 => n < 2147483648
  BY <1>1, <1>2 DEF q
<1> QED BY <1>3, <1>4 DEF Word, Positive, q

\* Bytes are numbers.
LEMMA ByteInt == Seq(Byte) \subseteq Seq(Int)
<1>1. Byte \subseteq Int
  BY DEF Byte
<1> QED BY <1>1, SeqMonotonic

\* What an item of the server is.
LEMMA ServerItem ==
  ASSUME NEW f \in {"i", "s"}, NEW item, IsServerItem(f, item)
  PROVE  /\ f = "i" => item \in Word
         /\ f = "s" => item \in Seq(Byte) /\ Len(item) \in Positive
         /\ Field(f, item) \in Seq(Byte)
<1>1. CASE f = "i"
  <2>1. item \in Nat /\ item \div 65536 < 65536
    BY <1>1 DEF IsServerItem
  <2>2. item \in Word
    BY <2>1, Shorter
  <2>3. Copy32(item) \in Seq(Byte)
    BY <2>1, Copy32Any
  <2> QED BY <1>1, <2>2, <2>3 DEF Field
<1>2. CASE f = "s"
  <2>1. item \in Seq(Byte) /\ Len(item) \div 65536 < 32768
    BY <1>2 DEF IsServerItem, Byte
  <2>2. Len(item) \in Nat
    BY <2>1, LenProperties
  <2>3. Len(item) \in Positive
    BY <2>1, <2>2, Shorter
  <2>4. Copy32(Len(item)) \in Seq(Byte)
    BY <2>2, Copy32Any
  <2>5. Copy32(Len(item)) \o item \in Seq(Byte)
    BY <2>1, <2>4, Behind
  <2>6. Field(f, item) = Copy32(Len(item)) \o item
    BY <1>2 DEF Field
  <2>7. f # "i"
    BY <1>2
  <2>8. Field(f, item) \in Seq(Byte)
    BY <2>5, <2>6, Zenon
  <2>9. f = "i" => item \in Word
    BY <2>7
  <2>10. f = "s" => item \in Seq(Byte) /\ Len(item) \in Positive
    BY <2>1, <2>3
  <2> QED BY <2>8, <2>9, <2>10
<1> QED BY <1>1, <1>2

\* The header and the format of a message of the server.
LEMMA ServerHeader ==
  ASSUME NEW m, IsServerMessage(m)
  PROVE  /\ m.header \in DOMAIN Format /\ m.header \in Word /\ m.header \in Nat
         /\ Format[m.header] \in Seq({"i", "s"})
         /\ Len(Format[m.header]) \in Nat
         /\ DOMAIN Format[m.header] = 1..Len(Format[m.header])
         /\ \A i \in 1..Len(Format[m.header]) : Format[m.header][i] \in {"i", "s"}
         /\ m.payload = [i \in 1..Len(Format[m.header]) |-> m.payload[i]]
<1> DEFINE format == Format[m.header]
<1>1. m.header \in DOMAIN Format /\ m.payload = [i \in DOMAIN format |-> m.payload[i]]
  BY DEF IsServerMessage
<1>2. m.header \in Nat /\ m.header < 65556 /\ format \in Seq({"i", "s"})
  BY <1>1, FormatIs
<1>3. m.header \in Word
  BY <1>2 DEF Word
<1> HIDE DEF format
<1>4. Len(format) \in Nat /\ DOMAIN format = 1..Len(format)
  BY <1>2, LenProperties
<1>5. \A i \in 1..Len(format) : format[i] \in {"i", "s"}
  BY <1>2, ElementOfSeq
<1> QED BY <1>1, <1>2, <1>3, <1>4, <1>5 DEF format

\* Its items, and how they are written.
LEMMA ServerFields ==
  ASSUME NEW m, IsServerMessage(m)
  PROVE  /\ Fields(m) \in Seq(Seq(Byte)) /\ Len(Fields(m)) = Len(Format[m.header])
         /\ \A i \in 1..Len(Format[m.header]) :
              /\ Fields(m)[i] = Field(Format[m.header][i], m.payload[i])
              /\ Format[m.header][i] = "i" => m.payload[i] \in Word
              /\ Format[m.header][i] = "s" =>
                   m.payload[i] \in Seq(Byte) /\ Len(m.payload[i]) \in Positive
<1> DEFINE format == Format[m.header]
           n == Len(format)
           p == m.payload
<1>1. n \in Nat /\ DOMAIN format = 1..n /\ \A i \in 1..n : format[i] \in {"i", "s"}
  BY ServerHeader
<1>2. \A i \in 1..n : IsServerItem(format[i], p[i])
  <2>1. \A i \in DOMAIN format : IsServerItem(format[i], p[i])
    BY Zenon DEF IsServerMessage
  <2> QED BY <1>1, <2>1
<1>3. Fields(m) = [i \in 1..n |-> Field(format[i], p[i])]
  BY <1>1 DEF Fields
<1> HIDE DEF format, n, p
<1>4. ASSUME NEW i \in 1..n
      PROVE  /\ format[i] = "i" => p[i] \in Word
             /\ format[i] = "s" => p[i] \in Seq(Byte) /\ Len(p[i]) \in Positive
             /\ Field(format[i], p[i]) \in Seq(Byte)
  BY <1>1, <1>2, ServerItem, Zenon
<1>5. Fields(m) \in [1..n -> Seq(Byte)]
  BY <1>3, <1>4
<1>6. Fields(m) \in Seq(Seq(Byte)) /\ Len(Fields(m)) = n
  <2>1. Fields(m) \in Seq(Seq(Byte))
    BY <1>1, <1>5, SeqDef
  <2>2. DOMAIN Fields(m) = 1..n /\ DOMAIN Fields(m) = 1..Len(Fields(m)) /\ Len(Fields(m)) \in Nat
    BY <1>5, <2>1, LenProperties
  <2> QED BY <1>1, <2>1, <2>2
<1>7. \A i \in 1..n : Fields(m)[i] = Field(format[i], p[i])
  BY <1>3
<1> QED BY <1>4, <1>6, <1>7 DEF format, n, p

\* The first eight bytes.
LEMMA Head8Is ==
  ASSUME NEW h \in Nat, NEW s \in Nat
  PROVE  /\ Head8(h, s) \in Seq(Byte) /\ Len(Head8(h, s)) = 8
         /\ \A k \in 1..4 : /\ Head8(h, s)[k] = Copy32(h)[k]
                            /\ Head8(h, s)[4 + k] = Copy32(s)[k]
<1> DEFINE x == Copy32(h)
           y == Copy32(s)
<1>1. x \in Seq(Byte) /\ y \in Seq(Byte)
  BY Copy32Any
<1>3. Len(x) = 4 /\ Len(y) = 4
  BY Copy32Any
<1> HIDE DEF x, y
<1>2. x \o y \in Seq(Byte) /\ Len(x \o y) = Len(x) + Len(y)
  BY <1>1, Behind
<1>4. \A k \in 1..Len(x) : (x \o y)[k] = x[k]
  BY <1>1, Behind
<1>5. \A k \in 1..Len(y) : (x \o y)[Len(x) + k] = y[k]
  BY <1>1, Behind
<1>6. Head8(h, s) = x \o y
  BY DEF Head8, x, y
<1> QED BY <1>2, <1>3, <1>4, <1>5, <1>6 DEF x, y

\* The payload is a sequence of bytes.
LEMMA FlatBytes ==
  ASSUME NEW X, NEW s \in Seq(Seq(X))
  PROVE  FlattenSeq(s) \in Seq(X) /\ Len(FlattenSeq(s)) \in Nat
<1>1. PICK flat \in [0..Len(s) -> Seq(X)] : FlattenSeq(s) = flat[Len(s)]
  BY Flattening
<1>2. Len(s) \in 0..Len(s)
  BY LenProperties
<1>3. FlattenSeq(s) \in Seq(X)
  BY <1>1, <1>2
<1> QED BY <1>3, LenProperties

\* All bytes of a message of the server, but the checksum.
LEMMA ServerBodyIs ==
  ASSUME NEW m, IsServerMessage(m), NEW f, f = FlattenSeq(Fields(m)),
         NEW e, e = Head8(m.header, 9 + Len(f))
  PROVE  /\ f \in Seq(Byte) /\ Len(f) \in Nat
         /\ e \in Seq(Byte) /\ Len(e) = 8
         /\ \A k \in 1..4 : e[k] = Copy32(m.header)[k] /\ e[4 + k] = Copy32(9 + Len(f))[k]
         /\ ServerBody(m) = e \o f
         /\ ServerBody(m) \in Seq(Byte) /\ Len(ServerBody(m)) = 8 + Len(f)
<1>1. f \in Seq(Byte) /\ Len(f) \in Nat
  BY ServerFields, FlatBytes
<1>2. m.header \in Nat /\ 9 + Len(f) \in Nat
  <2>1. m.header \in Nat
    BY ServerHeader, Zenon
  <2> QED BY <1>1, <2>1
<1>3. /\ e \in Seq(Byte) /\ Len(e) = 8
      /\ \A k \in 1..4 : e[k] = Copy32(m.header)[k] /\ e[4 + k] = Copy32(9 + Len(f))[k]
  BY <1>2, Head8Is
<1>4. ServerBody(m) = e \o f
  BY DEF ServerBody
<1>5. e \o f \in Seq(Byte) /\ Len(e \o f) = Len(e) + Len(f)
  BY <1>1, <1>3, Behind
<1> QED BY <1>1, <1>3, <1>4, <1>5

\* With the checksum.
LEMMA ServerBytes ==
  ASSUME NEW m, IsServerMessage(m), NEW b, b = ServerBody(m)
  PROVE  /\ serialize(m) = Append(b, Checksum(b))
         /\ b \in Seq(Byte) /\ Len(b) \in Nat /\ Checksum(b) \in 0..127 /\ Checksum(b) \in Byte
         /\ serialize(m) \in Seq(Byte) /\ Len(serialize(m)) = Len(b) + 1
<1>1. b \in Seq(Byte) /\ b \in Seq(Int) /\ Len(b) \in Nat
  BY ServerBodyIs, ByteInt, LenProperties
<1>2. Checksum(b) \in 0..127
  <2>1. PICK sum \in [0..Len(b) -> 0..127] : Checksum(b) = sum[Len(b)]
    BY <1>1, ChecksumIs
  <2>2. Len(b) \in 0..Len(b)
    BY <1>1
  <2> QED BY <2>1, <2>2, ZenonT(30)
<1> DEFINE c == Checksum(b)
<1>3. c \in Byte
  BY <1>2 DEF Byte
<1>4. serialize(m) = Append(b, c)
  BY Serialized
<1> HIDE DEF c
<1>5. Append(b, c) \in Seq(Byte) /\ Len(Append(b, c)) = Len(b) + 1
  BY <1>1, <1>3, AppendProperties
<1> QED BY <1>1, <1>2, <1>3, <1>4, <1>5 DEF c

-----------------------------------------------------------------------------

\* What the instance may be in.

\* What arrived is the message, or what its fault made of it; what was read is
\* what the parsers make of what arrived.
Made ==
  \/ maker = "client" /\ IsClientMessage(message)
  \/ maker = "server" /\ IsServerMessage(message)

\* Nothing happened to it.
Unharmed == fault = "none" => bytes = Whole

\* One byte of a message of the client was altered.
Altered ==
  fault = "altered" =>
    /\ maker = "client" /\ change \in Changes
    /\ \E i \in DOMAIN Whole : bytes = [Whole EXCEPT ![i] = (@ + change) % 256]

\* It is a piece of the message.
Shortened ==
  fault = "cut" => \E n \in 1..(Len(Whole) - 1) : bytes = SubSeq(Whole, 1, n)

\* It is the message and a beginning of it, or all of it, again.
Joined ==
  fault = "joined" =>
    \E n \in 1..Min({Len(Whole), MaxJoined}) : bytes = Whole \o SubSeq(Whole, 1, n)

\* The parsers read what arrived, if anything.
WhatIsRead ==
  /\ client # Throws("unread") => client = Parsed(Signed(bytes))
  /\ server # Unread => fault # "altered" /\ server = deserialize(bytes)

\* The inductive invariant.
Sound == Made /\ Unharmed /\ Altered /\ Shortened /\ Joined /\ WhatIsRead

\* All of that is invariant.
LEMMA SoundHolds == Spec => []Sound
<1> USE DEF Made, Unharmed, Altered, Shortened, Joined, WhatIsRead
<1>1. Init => Sound
  BY MessagesAssumption, Zenon DEF Init, Sound
<1>2. Sound /\ [Next]_vars => Sound'
  <2> SUFFICES ASSUME Sound, [Next]_vars PROVE Sound'
    OBVIOUS
  <2>1. CASE Alter
    <3>1. /\ fault = "none" /\ fault' = "altered" /\ maker = "client"
          /\ client = Throws("unread") /\ server = Unread
          /\ UNCHANGED <<maker, message, client, server>>
          /\ \E i \in DOMAIN bytes, d \in Changes :
               bytes' = [bytes EXCEPT ![i] = (@ + d) % 256] /\ change' = d
      BY <2>1 DEF Alter, Fails
    <3>2. bytes = Whole /\ Whole' = Whole
      BY <3>1 DEF Sound, Whole
    <3>3. Altered'
      <4>1. PICK i \in DOMAIN bytes, d \in Changes :
               bytes' = [bytes EXCEPT ![i] = (@ + d) % 256] /\ change' = d
        BY <3>1
      <4>2. bytes' = [Whole' EXCEPT ![i] = (@ + change') % 256] /\ i \in DOMAIN Whole'
        BY <3>2, <4>1
      <4> QED BY <3>1, <4>1, <4>2, ZenonT(30)
    <3>4. Made' /\ Unharmed' /\ Shortened' /\ Joined' /\ WhatIsRead'
      BY <3>1 DEF Sound
    <3> QED BY <3>3, <3>4 DEF Sound
  <2>2. CASE Cut
    <3>1. /\ fault = "none" /\ fault' = "cut"
          /\ client = Throws("unread") /\ server = Unread
          /\ UNCHANGED <<maker, message, client, server>>
          /\ \E n \in 1..(Len(bytes) - 1) : bytes' = SubSeq(bytes, 1, n)
      BY <2>2 DEF Cut, Fails
    <3>2. bytes = Whole /\ Whole' = Whole
      BY <3>1 DEF Sound, Whole
    <3>3. Made' /\ Unharmed' /\ Altered' /\ Joined' /\ WhatIsRead'
      BY <3>1 DEF Sound
    <3>4. Shortened'
      BY <3>1, <3>2
    <3> QED BY <3>3, <3>4 DEF Sound
  <2>3. CASE Join
    <3>1. /\ fault = "none" /\ fault' = "joined"
          /\ client = Throws("unread") /\ server = Unread
          /\ UNCHANGED <<maker, message, client, server>>
          /\ \E n \in 1..Min({Len(bytes), MaxJoined}) : bytes' = bytes \o SubSeq(bytes, 1, n)
      BY <2>3 DEF Join, Fails
    <3>2. bytes = Whole /\ Whole' = Whole
      BY <3>1 DEF Sound, Whole
    <3>3. Made' /\ Unharmed' /\ Altered' /\ Shortened' /\ WhatIsRead'
      BY <3>1 DEF Sound
    <3>4. Joined'
      BY <3>1, <3>2
    <3> QED BY <3>3, <3>4 DEF Sound
  <2>4. CASE Read
    <3>1. /\ client' = Parsed(Signed(bytes))
          /\ server' = IF fault = "altered" THEN Unread ELSE deserialize(bytes)
          /\ UNCHANGED <<maker, message, bytes, fault, change>>
      BY <2>4 DEF Read
    <3>2. Whole' = Whole
      BY <3>1 DEF Whole
    <3>3. Made' /\ Unharmed' /\ Altered' /\ Shortened' /\ Joined'
      BY <3>1, <3>2, ZenonT(30) DEF Sound
    <3>4. WhatIsRead'
      <4>1. Parsed(Signed(bytes))' = Parsed(Signed(bytes)) /\ deserialize(bytes)' = deserialize(bytes)
        BY <3>1
      <4> QED BY <3>1, <4>1
    <3> QED BY <3>3, <3>4 DEF Sound
  <2>5. CASE UNCHANGED vars
    <3>1. UNCHANGED <<maker, message, bytes, fault, change, client, server>>
      BY <2>5 DEF vars
    <3>2. Whole' = Whole
      BY <3>1 DEF Whole
    <3> QED BY <3>1, <3>2, ZenonT(30) DEF Sound
  <2> QED BY <2>1, <2>2, <2>3, <2>4, <2>5 DEF Next
<1> QED BY <1>1, <1>2, PTL DEF Spec

\* An int of the client is four bytes, the last of which counts.
LEMMA IntBytes ==
  ASSUME NEW n \in Int
  PROVE  /\ intToBytes(n) \in Seq(SByte) /\ Len(intToBytes(n)) = 4
         /\ intToBytes(n)[4] = ToByte(n) /\ ToByte(n) \in SByte
<1>1. ToByte(n) \in SByte
  BY SMT DEF ToByte, SByte
<1>2. 0 \in SByte
  BY DEF SByte
<1> DEFINE b == ToByte(n)
<1> HIDE DEF b
<1>3. intToBytes(n) = <<0, 0, 0, b>>
  BY DEF intToBytes, b
<1> QED BY <1>1, <1>2, <1>3 DEF b

\* The fields of a message of the client, and all it writes but the checksum.
ClientFields(m) ==
  [i \in DOMAIN PayloadTypes[m.header] |-> Written(PayloadTypes[m.header][i], m.payload[i])]

ClientHead(h, size) == intToBytes(h) \o intToBytes(size)

ClientBody(m) ==
  ClientHead(m.header, 9 + Len(FlattenSeq(ClientFields(m)))) \o FlattenSeq(ClientFields(m))

\* serializeMessage adds the checksum.
LEMMA Checked ==
  \A m : serializeMessage(m) = Append(ClientBody(m), countCheckSum(ClientBody(m)))
BY DEF serializeMessage, ClientBody, ClientHead, ClientFields

\* A character of no more than two bytes.
Char == 0..2047

\* Bytes and characters are numbers.
LEMMA Numbers == SByte \subseteq Int /\ Char \subseteq Int /\ Byte \subseteq Int
BY DEF SByte, Char, Byte

\* A character is one byte, or two of which the first is negative.
LEMMA CharBytesAre ==
  ASSUME NEW c \in Char
  PROVE  /\ CharBytes(c) \in Seq(SByte)
         /\ c < 128 => CharBytes(c) = <<c>>
         /\ c >= 128 => Len(CharBytes(c)) = 2 /\ CharBytes(c)[1] < 0
<1> DEFINE x == ToByte(192 + (c \div 64))
           y == ToByte(128 + (c % 64))
<1>1. x \in SByte /\ y \in SByte /\ (c >= 128 => x < 0)
  BY SMT DEF ToByte, SByte, Char
<1>2. CharBytes(c) = IF c < 128 THEN <<c>> ELSE <<x, y>>
  BY DEF CharBytes
<1> HIDE DEF x, y
<1>3. c \in Nat /\ (c < 128 => c \in SByte)
  BY DEF SByte, Char
<1>4. c < 128 => <<c>> \in Seq(SByte)
  BY <1>3
<1>5. <<x, y>> \in Seq(SByte) /\ Len(<<x, y>>) = 2 /\ <<x, y>>[1] = x
  BY <1>1
<1> QED BY <1>1, <1>2, <1>3, <1>4, <1>5

-----------------------------------------------------------------------------

\* Strings of the client.

\* The bytes of the characters of a string.
Chars(t) == [i \in DOMAIN t |-> CharBytes(t[i])]

\* They are sequences of bytes.
LEMMA CharsAre ==
  ASSUME NEW t \in Seq(Char)
  PROVE  /\ Chars(t) \in Seq(Seq(SByte)) /\ Len(Chars(t)) = Len(t) /\ Len(t) \in Nat
         /\ \A i \in 1..Len(t) : t[i] \in Char /\ Chars(t)[i] = CharBytes(t[i])
         /\ stringToBytes(t) = FlattenSeq(Chars(t))
<1> DEFINE n == Len(t)
<1>1. n \in Nat /\ DOMAIN t = 1..n /\ \A i \in 1..n : t[i] \in Char
  BY LenProperties, ElementOfSeq
<1>2. \A c \in Char : CharBytes(c) \in Seq(SByte)
  BY CharBytesAre
<1> HIDE DEF n
<1>3. Chars(t) = [i \in 1..n |-> CharBytes(t[i])]
  BY <1>1 DEF Chars
<1>4. \A i \in 1..n : CharBytes(t[i]) \in Seq(SByte)
  BY <1>1, <1>2
<1>5. Chars(t) \in [1..n -> Seq(SByte)]
  BY <1>3, <1>4
<1>6. Chars(t) \in Seq(Seq(SByte))
  BY <1>1, <1>5, SeqDef
<1>7. Len(Chars(t)) = n
  <2>1. DOMAIN Chars(t) = 1..n /\ DOMAIN Chars(t) = 1..Len(Chars(t)) /\ Len(Chars(t)) \in Nat
    BY <1>5, <1>6, LenProperties
  <2> QED BY <1>1, <2>1
<1>8. stringToBytes(t) = FlattenSeq(Chars(t))
  BY DEF stringToBytes, Chars
<1> QED BY <1>1, <1>3, <1>6, <1>7, <1>8 DEF n

\* A string is no shorter in bytes, and as long only if it is ASCII.
LEMMA LengthOfText ==
  ASSUME NEW t \in Seq(Char)
  PROVE  /\ stringToBytes(t) \in Seq(SByte) /\ Len(stringToBytes(t)) \in Nat
         /\ Len(t) \in Nat /\ Len(t) <= Len(stringToBytes(t))
         /\ Len(stringToBytes(t)) = Len(t) => \A k \in 1..Len(t) : t[k] < 128
<1> DEFINE n == Len(t)
           s == Chars(t)
<1>1. /\ s \in Seq(Seq(SByte)) /\ Len(s) = n /\ n \in Nat
      /\ \A i \in 1..n : t[i] \in Char /\ s[i] = CharBytes(t[i])
      /\ stringToBytes(t) = FlattenSeq(s)
  BY CharsAre
<1> HIDE DEF n, s
<1>2. PICK flat \in [0..n -> Seq(SByte)] : Joins(flat, s, n) /\ FlattenSeq(s) = flat[n]
  BY <1>1, Flattening
<1> DEFINE l(i) == Len(flat[i])
           P == {i \in 0..n : i <= l(i) /\ (l(i) = i => \A k \in 1..i : t[k] < 128)}
<1>3. 0 \in P
  <2>1. flat[0] = <<>>
    BY <1>2 DEF Joins
  <2> QED BY <1>1, <2>1
<1>4. ASSUME NEW i \in 1..n, i - 1 \in P PROVE i \in P
  <2>1. i \in 0..n /\ i - 1 \in 0..n /\ t[i] \in Char /\ s[i] = CharBytes(t[i])
    BY <1>1
  <2>2. flat[i] = flat[i - 1] \o s[i]
    BY <1>2, Zenon DEF Joins
  <2>3. flat[i - 1] \in Seq(SByte) /\ CharBytes(t[i]) \in Seq(SByte)
    BY <2>1, CharBytesAre
  <2>4. l(i) = l(i - 1) + Len(CharBytes(t[i])) /\ l(i - 1) \in Nat
    BY <2>1, <2>2, <2>3, Behind
  <2>5. Len(CharBytes(t[i])) = IF t[i] < 128 THEN 1 ELSE 2
    <3> DEFINE c == t[i]
    <3>1. c \in Char
      BY <2>1
    <3> HIDE DEF c
    <3>2. /\ c < 128 => CharBytes(c) = <<c>>
          /\ c >= 128 => Len(CharBytes(c)) = 2
      BY <3>1, CharBytesAre
    <3>3. Len(<<c>>) = 1
      OBVIOUS
    <3>4. Len(CharBytes(c)) = IF c < 128 THEN 1 ELSE 2
      BY <3>1, <3>2, <3>3 DEF Char
    <3> QED BY <3>4 DEF c
  <2> HIDE DEF l
  <2>6. i - 1 <= l(i - 1) /\ (l(i - 1) = i - 1 => \A k \in 1..(i - 1) : t[k] < 128)
    BY <1>4
  <2>7. i <= l(i)
    BY <2>4, <2>5, <2>6
  <2>8. ASSUME l(i) = i, NEW k \in 1..i PROVE t[k] < 128
    <3>1. l(i - 1) = i - 1 /\ t[i] < 128
      BY <2>4, <2>5, <2>6, <2>8
    <3>2. k = i \/ k \in 1..(i - 1)
      OBVIOUS
    <3> QED BY <2>6, <3>1, <3>2
  <2> QED BY <2>1, <2>7, <2>8
<1>5. n \in P
  <2>1. 0..n \subseteq P
    <3> HIDE DEF P
    <3> QED BY <1>1, <1>3, <1>4, Along
  <2> QED BY <1>1, <2>1
<1>6. stringToBytes(t) = flat[n] /\ flat[n] \in Seq(SByte)
  BY <1>1, <1>2
<1>7. Len(flat[n]) \in Nat
  BY <1>6, LenProperties
<1> QED BY <1>1, <1>5, <1>6, <1>7 DEF n

\* A string whose bytes are not negative is ASCII.
LEMMA PositiveBytes ==
  ASSUME NEW t \in Seq(Char),
         \A k \in 1..Len(stringToBytes(t)) : stringToBytes(t)[k] >= 0
  PROVE  \A k \in 1..Len(t) : t[k] < 128
<1> DEFINE n == Len(t)
           s == Chars(t)
           b == stringToBytes(t)
<1>1. /\ s \in Seq(Seq(SByte)) /\ Len(s) = n /\ n \in Nat
      /\ \A i \in 1..n : t[i] \in Char /\ s[i] = CharBytes(t[i])
      /\ b = FlattenSeq(s)
  BY CharsAre
<1>0. \A k \in 1..Len(b) : b[k] >= 0
  OBVIOUS
<1> HIDE DEF n, s, b
<1>2. PICK flat \in [0..n -> Seq(SByte)] : Joins(flat, s, n) /\ FlattenSeq(s) = flat[n]
  BY <1>1, Flattening
<1>3. ASSUME NEW k \in 1..n, t[k] >= 128 PROVE FALSE
  <2> DEFINE c == CharBytes(t[k])
             x == flat[k - 1]
  <2>1. k \in 0..n /\ k - 1 \in 0..n /\ n \in 0..n /\ t[k] \in Char /\ s[k] = c
    BY <1>1
  <2>2. c \in Seq(SByte) /\ Len(c) = 2 /\ c[1] < 0
    BY <1>3, <2>1, CharBytesAre
  <2>3. x \in Seq(SByte) /\ flat[k] = x \o c
    <3>1. flat[k] = x \o s[k]
      BY <1>2, Zenon DEF Joins
    <3> QED BY <2>1, <3>1
  <2> HIDE DEF c, x
  <2>4. Len(flat[k]) = Len(x) + 2 /\ Len(x) \in Nat /\ flat[k][Len(x) + 1] = c[1]
    <3>0. x \in Seq(SByte) /\ c \in Seq(SByte)
      BY <2>2, <2>3
    <3>1. Len(x \o c) = Len(x) + Len(c) /\ Len(x) \in Nat
      BY <3>0, Behind
    <3>2. \A i \in 1..Len(c) : (x \o c)[Len(x) + i] = c[i]
      BY <3>0, Behind
    <3>3. 1 \in 1..Len(c)
      BY <2>2
    <3> QED BY <2>2, <2>3, <3>1, <3>2, <3>3
  <2>5. BeginsWith(b, flat[k])
    <3>1. \A i \in 1..n : s[i] \in Seq(SByte)
      BY <1>1, ElementOfSeq
    <3>2. \A i \in 0..n : BeginsWith(flat[n], flat[i])
      BY <1>1, <1>2, <3>1, FlatStarts
    <3> QED BY <1>1, <1>2, <2>1, <3>2
  <2>6. Len(x) + 1 \in 1..Len(flat[k])
    BY <2>4
  <2>7. Len(b) \in Nat
    <3>1. b \in Seq(SByte)
      BY <1>1, <1>2, <2>1
    <3> QED BY <3>1, LenProperties
  <2>8. Len(x) + 1 \in 1..Len(b) /\ b[Len(x) + 1] = flat[k][Len(x) + 1]
    BY <2>4, <2>5, <2>6, <2>7 DEF BeginsWith
  <2>9. b[Len(x) + 1] >= 0 /\ b[Len(x) + 1] = c[1]
    <3> DEFINE j == Len(x) + 1
    <3>1. j \in 1..Len(b)
      BY <2>8
    <3> HIDE DEF j
    <3>2. b[j] >= 0
      BY <1>0, <3>1
    <3> QED BY <2>4, <2>8, <3>2 DEF j
  <2>10. c[1] \in Int
    <3>1. 1 \in 1..Len(c)
      BY <2>2
    <3>2. c[1] \in SByte
      BY <2>2, <3>1, ElementOfSeq
    <3> QED BY <3>2, Numbers
  <2> QED BY <2>2, <2>9, <2>10
<1>4. \A k \in 1..n : t[k] \in Int
  BY <1>1, Numbers
<1>5. \A k \in 1..n : t[k] < 128
  BY <1>3, <1>4
<1> QED BY <1>5 DEF n

\* The bytes of an ASCII string are its characters.
LEMMA AsciiText ==
  ASSUME NEW t \in Seq(Char), \A k \in 1..Len(t) : t[k] < 128
  PROVE  stringToBytes(t) = t
<1> DEFINE n == Len(t)
           s == Chars(t)
<1>1. /\ s \in Seq(Seq(SByte)) /\ Len(s) = n /\ n \in Nat
      /\ \A i \in 1..n : t[i] \in Char /\ s[i] = CharBytes(t[i])
      /\ stringToBytes(t) = FlattenSeq(s)
  BY CharsAre
<1>0. \A k \in 1..n : t[k] < 128
  OBVIOUS
<1> HIDE DEF n, s
<1>2. PICK flat \in [0..n -> Seq(SByte)] : Joins(flat, s, n) /\ FlattenSeq(s) = flat[n]
  BY <1>1, Flattening
<1> DEFINE P == {i \in 0..n : Len(flat[i]) = i /\ \A k \in 1..i : flat[i][k] = t[k]}
<1>3. 0 \in P
  <2>1. flat[0] = <<>>
    BY <1>2 DEF Joins
  <2> QED BY <1>1, <2>1
<1>4. ASSUME NEW i \in 1..n, i - 1 \in P PROVE i \in P
  <2> DEFINE x == flat[i - 1]
             c == t[i]
  <2>1. i \in 0..n /\ i - 1 \in 0..n /\ c \in Char /\ s[i] = CharBytes(c) /\ c < 128
    BY <1>0, <1>1
  <2>2. flat[i] = x \o s[i]
    BY <1>2, Zenon DEF Joins
  <2>3. x \in Seq(SByte) /\ s[i] \in Seq(SByte) /\ s[i] = <<c>>
    <3>1. s[i] \in Seq(SByte)
      BY <1>1, ElementOfSeq
    <3>2. c \in Char /\ c < 128 /\ s[i] = CharBytes(c)
      BY <2>1
    <3> HIDE DEF c
    <3>3. s[i] = <<c>>
      BY <3>2, CharBytesAre
    <3> QED BY <2>1, <3>1, <3>3
  <2>4. Len(x) = i - 1 /\ \A k \in 1..(i - 1) : x[k] = t[k]
    BY <1>4
  <2> HIDE DEF x
  <2> DEFINE y == s[i]
  <2>5. Len(y) = 1 /\ y[1] = c
    BY <2>3
  <2> HIDE DEF c, y
  <2>6. x \in Seq(SByte) /\ y \in Seq(SByte)
    BY <2>3 DEF y
  <2>7. Len(x \o y) = Len(x) + Len(y) /\ \A k \in 1..Len(x) : (x \o y)[k] = x[k]
    BY <2>6, Behind
  <2>8. \A k \in 1..Len(y) : (x \o y)[Len(x) + k] = y[k]
    BY <2>6, Behind
  <2>9. Len(x \o y) = i /\ (x \o y)[i] = c
    <3>1. 1 \in 1..Len(y) /\ Len(x) + 1 = i
      BY <2>4, <2>5
    <3>2. (x \o y)[Len(x) + 1] = y[1]
      BY <2>8, <3>1, Zenon
    <3> QED BY <2>4, <2>5, <2>7, <3>1, <3>2
  <2>10. ASSUME NEW k \in 1..i PROVE (x \o y)[k] = t[k]
    <3>1. CASE k = i
      BY <2>9, <3>1 DEF c
    <3>2. CASE k # i
      <4>1. k \in 1..(i - 1) /\ k \in 1..Len(x)
        BY <2>4, <3>2
      <4> QED BY <2>4, <2>7, <4>1
    <3> QED BY <3>1, <3>2
  <2>11. flat[i] = x \o y
    BY <2>2 DEF y
  <2> QED BY <2>1, <2>9, <2>10, <2>11
<1>5. n \in P
  <2>1. 0..n \subseteq P
    <3> HIDE DEF P
    <3> QED BY <1>1, <1>3, <1>4, Along
  <2> QED BY <1>1, <2>1
<1> DEFINE b == flat[n]
<1>6. stringToBytes(t) = b /\ b \in Seq(SByte) /\ Len(b) = n /\ \A k \in 1..n : b[k] = t[k]
  BY <1>1, <1>2, <1>5
<1> HIDE DEF b
<1>7. b \in Seq(Int) /\ t \in Seq(Int)
  <2>1. SByte \subseteq Int /\ Char \subseteq Int
    BY DEF SByte, Char
  <2> QED BY <1>6, <2>1, SeqMonotonic
<1>8. b = t
  <2>1. Len(b) = Len(t) /\ \A k \in 1..Len(b) : b[k] = t[k]
    BY <1>6 DEF n
  <2> QED BY <1>7, <2>1, SeqEqual
<1> QED BY <1>6, <1>8

-----------------------------------------------------------------------------

\* What the client writes.

\* Bytes of Java are numbers.
LEMMA ByteInts == Seq(SByte) \subseteq Seq(Int)
BY Numbers, SeqMonotonic

\* What an item of the client is.
LEMMA ClientItem ==
  ASSUME NEW type \in {"Integer", "String"}, NEW item, IsClientItem(type, item)
  PROVE  /\ type = "Integer" => item \in Int
         /\ type = "String" => item \in Text /\ item \in Seq(Char)
         /\ Written(type, item) \in Seq(SByte)
<1>1. CASE type = "Integer"
  <2>1. item \in Int
    BY <1>1 DEF IsClientItem
  <2>2. intToBytes(item) \in Seq(SByte)
    BY <2>1, IntBytes
  <2> QED BY <1>1, <2>1, <2>2 DEF Written
<1>2. CASE type = "String"
  <2>1. item \in Text
    BY <1>2 DEF IsClientItem
  <2>2. item \in Seq(Char)
    BY <2>1, TextAssumption DEF Char
  <2>3. stringToBytes(item) \in Seq(SByte) /\ Len(item) \in Int
    BY <2>2, LengthOfText
  <2>4. intToBytes(Len(item)) \in Seq(SByte)
    BY <2>3, IntBytes
  <2>5. intToBytes(Len(item)) \o stringToBytes(item) \in Seq(SByte)
    BY <2>3, <2>4, Behind
  <2>6. Written(type, item) = intToBytes(Len(item)) \o stringToBytes(item)
    BY <1>2 DEF Written
  <2>7. type # "Integer"
    BY <1>2
  <2>8. Written(type, item) \in Seq(SByte)
    BY <2>5, <2>6, Zenon
  <2>9. type = "Integer" => item \in Int
    BY <2>7
  <2> QED BY <2>1, <2>2, <2>8, <2>9
<1> QED BY <1>1, <1>2

\* The header and the types of a message of the client.
LEMMA ClientHeader ==
  ASSUME NEW m, IsClientMessage(m)
  PROVE  /\ m.header \in DOMAIN PayloadTypes /\ m.header \in 1..127 /\ m.header \in Int
         /\ Len(PayloadTypes[m.header]) \in Nat
         /\ DOMAIN PayloadTypes[m.header] = 1..Len(PayloadTypes[m.header])
         /\ \A i \in 1..Len(PayloadTypes[m.header]) : PayloadTypes[m.header][i] \in {"Integer", "String"}
         /\ m.payload = [i \in 1..Len(PayloadTypes[m.header]) |-> m.payload[i]]
<1> DEFINE types == PayloadTypes[m.header]
<1>1. m.header \in DOMAIN PayloadTypes /\ m.payload = [i \in DOMAIN types |-> m.payload[i]]
  BY DEF IsClientMessage
<1>2. m.header \in 1..127 /\ types \in Seq({"Integer", "String"})
  BY <1>1, PayloadTypesIs
<1> HIDE DEF types
<1>3. Len(types) \in Nat /\ DOMAIN types = 1..Len(types)
  BY <1>2, LenProperties
<1>4. \A i \in 1..Len(types) : types[i] \in {"Integer", "String"}
  BY <1>2, ElementOfSeq
<1>5. m.header \in Int
  <2>1. \A k \in 1..127 : k \in Int
    OBVIOUS
  <2> QED BY <1>2, <2>1
<1> QED BY <1>1, <1>2, <1>3, <1>4, <1>5 DEF types

\* Its items, and how they are written.
LEMMA ClientFieldsAre ==
  ASSUME NEW m, IsClientMessage(m)
  PROVE  /\ ClientFields(m) \in Seq(Seq(SByte))
         /\ Len(ClientFields(m)) = Len(PayloadTypes[m.header])
         /\ \A i \in 1..Len(PayloadTypes[m.header]) :
              /\ ClientFields(m)[i] = Written(PayloadTypes[m.header][i], m.payload[i])
              /\ PayloadTypes[m.header][i] = "Integer" => m.payload[i] \in Int
              /\ PayloadTypes[m.header][i] = "String" =>
                   m.payload[i] \in Text /\ m.payload[i] \in Seq(Char)
<1> DEFINE types == PayloadTypes[m.header]
           n == Len(types)
           p == m.payload
<1>1. n \in Nat /\ DOMAIN types = 1..n /\ \A i \in 1..n : types[i] \in {"Integer", "String"}
  BY ClientHeader
<1>2. \A i \in 1..n : IsClientItem(types[i], p[i])
  <2>1. \A i \in DOMAIN types : IsClientItem(types[i], p[i])
    BY Zenon DEF IsClientMessage
  <2> QED BY <1>1, <2>1
<1>3. ClientFields(m) = [i \in 1..n |-> Written(types[i], p[i])]
  BY <1>1 DEF ClientFields
<1> HIDE DEF types, n, p
<1>4. ASSUME NEW i \in 1..n
      PROVE  /\ types[i] = "Integer" => p[i] \in Int
             /\ types[i] = "String" => p[i] \in Text /\ p[i] \in Seq(Char)
             /\ Written(types[i], p[i]) \in Seq(SByte)
  BY <1>1, <1>2, ClientItem, Zenon
<1>5. ClientFields(m) \in [1..n -> Seq(SByte)]
  BY <1>3, <1>4
<1>6. ClientFields(m) \in Seq(Seq(SByte)) /\ Len(ClientFields(m)) = n
  <2>1. ClientFields(m) \in Seq(Seq(SByte))
    BY <1>1, <1>5, SeqDef
  <2>2. /\ DOMAIN ClientFields(m) = 1..n /\ DOMAIN ClientFields(m) = 1..Len(ClientFields(m))
        /\ Len(ClientFields(m)) \in Nat
    BY <1>5, <2>1, LenProperties
  <2> QED BY <1>1, <2>1, <2>2
<1>7. \A i \in 1..n : ClientFields(m)[i] = Written(types[i], p[i])
  BY <1>3
<1> QED BY <1>4, <1>6, <1>7 DEF types, n, p

\* The first eight bytes.
LEMMA ClientHeadIs ==
  ASSUME NEW h \in Int, NEW s \in Int
  PROVE  /\ ClientHead(h, s) \in Seq(SByte) /\ Len(ClientHead(h, s)) = 8
         /\ ClientHead(h, s)[4] = ToByte(h) /\ ClientHead(h, s)[8] = ToByte(s)
<1> DEFINE x == intToBytes(h)
           y == intToBytes(s)
<1>1. x \in Seq(SByte) /\ y \in Seq(SByte)
  BY IntBytes
<1>2. Len(x) = 4 /\ Len(y) = 4 /\ x[4] = ToByte(h) /\ y[4] = ToByte(s)
  BY IntBytes
<1> HIDE DEF x, y
<1>3. x \o y \in Seq(SByte) /\ Len(x \o y) = Len(x) + Len(y)
  BY <1>1, Behind
<1>4. \A k \in 1..Len(x) : (x \o y)[k] = x[k]
  BY <1>1, Behind
<1>5. \A k \in 1..Len(y) : (x \o y)[Len(x) + k] = y[k]
  BY <1>1, Behind
<1>6. ClientHead(h, s) = x \o y
  BY DEF ClientHead, x, y
<1>7. 4 \in 1..Len(x) /\ 4 \in 1..Len(y) /\ Len(x) + 4 = 8
  BY <1>2
<1>8. (x \o y)[4] = x[4] /\ (x \o y)[Len(x) + 4] = y[4]
  BY <1>4, <1>5, <1>7
<1> QED BY <1>2, <1>3, <1>6, <1>7, <1>8

\* All bytes of a message of the client, but the checksum.
LEMMA ClientBodyIs ==
  ASSUME NEW m, IsClientMessage(m), NEW f, f = FlattenSeq(ClientFields(m)),
         NEW e, e = ClientHead(m.header, 9 + Len(f))
  PROVE  /\ f \in Seq(SByte) /\ Len(f) \in Nat
         /\ e \in Seq(SByte) /\ Len(e) = 8
         /\ e[4] = m.header /\ e[8] = ToByte(9 + Len(f))
         /\ ClientBody(m) = e \o f
         /\ ClientBody(m) \in Seq(SByte) /\ Len(ClientBody(m)) = 8 + Len(f)
<1>1. f \in Seq(SByte) /\ Len(f) \in Nat
  BY ClientFieldsAre, FlatBytes
<1>2. m.header \in Int /\ 9 + Len(f) \in Int
  <2>1. m.header \in Int
    BY ClientHeader
  <2> QED BY <1>1, <2>1
<1>3. /\ e \in Seq(SByte) /\ Len(e) = 8
      /\ e[4] = ToByte(m.header) /\ e[8] = ToByte(9 + Len(f))
  BY <1>2, ClientHeadIs
<1>4. ToByte(m.header) = m.header
  <2> DEFINE h == m.header
  <2>1. h \in 1..127
    BY ClientHeader
  <2> HIDE DEF h
  <2>2. ToByte(h) = h
    BY <2>1, SMT DEF ToByte
  <2> QED BY <2>2 DEF h
<1>5. ClientBody(m) = e \o f
  BY DEF ClientBody
<1>6. e \o f \in Seq(SByte) /\ Len(e \o f) = Len(e) + Len(f)
  BY <1>1, <1>3, Behind
<1> QED BY <1>1, <1>3, <1>4, <1>5, <1>6

\* With the checksum, which brings the sum to zero.
LEMMA ClientBytes ==
  ASSUME NEW m, IsClientMessage(m), NEW b, b = ClientBody(m)
  PROVE  /\ serializeMessage(m) = Append(b, countCheckSum(b))
         /\ b \in Seq(SByte) /\ Len(b) \in Nat /\ countCheckSum(b) \in SByte
         /\ serializeMessage(m) \in Seq(SByte) /\ Len(serializeMessage(m)) = Len(b) + 1
         /\ Sum(serializeMessage(m)) = 0
<1>1. b \in Seq(SByte)
  BY ClientBodyIs
<1>2. Len(b) \in Nat
  BY <1>1, LenProperties
<1> DEFINE c == countCheckSum(b)
<1>3. c \in SByte /\ Sum(Append(b, c)) = 0
  BY <1>1, SumOfChecked
<1>4. serializeMessage(m) = Append(b, c)
  BY Checked
<1> HIDE DEF c
<1>5. Append(b, c) \in Seq(SByte) /\ Len(Append(b, c)) = Len(b) + 1
  BY <1>1, <1>3, AppendProperties
<1> QED BY <1>1, <1>2, <1>3, <1>4, <1>5 DEF c

\* The bytes of the client on their way are the same modulo 256.
LEMMA SignedUnsigned ==
  ASSUME NEW w \in Seq(SByte)
  PROVE  /\ Signed(Unsigned(w)) = w
         /\ Unsigned(w) \in Seq(Byte) /\ Len(Unsigned(w)) = Len(w)
         /\ \A k \in 1..Len(w) : Unsigned(w)[k] = w[k] % 256
<1> DEFINE n == Len(w)
           u == Unsigned(w)
<1>1. n \in Nat /\ DOMAIN w = 1..n /\ w \in [1..n -> SByte]
  BY LenProperties
<1>2. \A x \in SByte : x % 256 \in Byte /\ ToByte(x % 256) = x
  BY SMT DEF ToByte, SByte, Byte
<1> HIDE DEF n
<1>3. u = [k \in 1..n |-> w[k] % 256]
  BY <1>1 DEF Unsigned
<1>4. \A k \in 1..n : w[k] \in SByte
  BY <1>1
<1> HIDE DEF u
<1>5. \A k \in 1..n : u[k] = w[k] % 256 /\ u[k] \in Byte
  BY <1>2, <1>3, <1>4
<1>6. u \in [1..n -> Byte] /\ DOMAIN u = 1..n
  BY <1>3, <1>5
<1>7. u \in Seq(Byte)
  BY <1>1, <1>6, SeqDef
<1>8. Len(u) = n
  <2>1. DOMAIN u = 1..Len(u) /\ Len(u) \in Nat
    BY <1>7, LenProperties
  <2> QED BY <1>1, <1>6, <2>1
<1>9. Signed(u) = [k \in 1..n |-> ToByte(u[k])]
  BY <1>6 DEF Signed
<1>10. \A k \in 1..n : ToByte(u[k]) = w[k]
  BY <1>2, <1>4, <1>5
<1>11. Signed(u) = [k \in 1..n |-> w[k]]
  BY <1>9, <1>10
<1>12. w = [k \in 1..n |-> w[k]]
  BY <1>1
<1> QED BY <1>5, <1>7, <1>8, <1>11, <1>12 DEF n, u

-----------------------------------------------------------------------------

\* What the client refuses.

\* A message of the client, whole: its eighth byte is the size, as far as a byte
\* goes, its fourth the header, and its sum is zero.
LEMMA ClientWhole ==
  ASSUME NEW m, IsClientMessage(m), NEW w, w = serializeMessage(m)
  PROVE  /\ w \in Seq(SByte) /\ Len(w) \in Nat /\ Len(w) >= 9
         /\ w[8] = ToByte(Len(w)) /\ w[4] = m.header /\ Sum(w) = 0
         /\ Len(w) = 9 + Len(FlattenSeq(ClientFields(m)))
<1> DEFINE f == FlattenSeq(ClientFields(m))
           e == ClientHead(m.header, 9 + Len(f))
           b == ClientBody(m)
           c == countCheckSum(b)
<1>1. /\ f \in Seq(SByte) /\ Len(f) \in Nat /\ e \in Seq(SByte) /\ Len(e) = 8
      /\ e[4] = m.header /\ e[8] = ToByte(9 + Len(f))
      /\ b = e \o f /\ b \in Seq(SByte) /\ Len(b) = 8 + Len(f)
  BY ClientBodyIs
<1>2. w = Append(b, c) /\ c \in SByte /\ w \in Seq(SByte) /\ Len(w) = Len(b) + 1 /\ Sum(w) = 0
  BY ClientBytes
<1> HIDE DEF f, e, b, c
<1>3. \A k \in 1..Len(e) : (e \o f)[k] = e[k]
  BY <1>1, Behind
<1>4. \A k \in 1..Len(b) : Append(b, c)[k] = b[k]
  BY <1>1, <1>2, AppendProperties
<1>5. 4 \in 1..Len(e) /\ 8 \in 1..Len(e) /\ 4 \in 1..Len(b) /\ 8 \in 1..Len(b)
  BY <1>1
<1>6. w[4] = e[4] /\ w[8] = e[8]
  <2>1. b[4] = e[4] /\ b[8] = e[8]
    BY <1>1, <1>3, <1>5
  <2>2. w[4] = b[4] /\ w[8] = b[8]
    BY <1>2, <1>4, <1>5
  <2> QED BY <2>1, <2>2
<1>7. Len(w) = 9 + Len(f) /\ Len(w) \in Nat /\ Len(w) >= 9
  BY <1>1, <1>2
<1> QED BY <1>1, <1>2, <1>6, <1>7 DEF f

\* What the size tells the client.
LEMMA SizeIs ==
  ASSUME NEW b \in Seq(SByte), Len(b) >= 9
  PROVE  WrongSize(b) <=> Len(b) # b[8]
<1>1. Len(b) \in Nat
  BY LenProperties
<1>2. \A k \in 5..8 : b[k] \in SByte
  <2>1. \A k \in 5..8 : k \in 1..Len(b)
    BY <1>1
  <2> QED BY <2>1, ElementOfSeq
<1>3. \A i \in 1..(8 - 5 + 1) : SubSeq(b, 5, 8)[i] = b[5 + i - 1]
  <2>1. 5 \in Int /\ 8 \in Int
    OBVIOUS
  <2> QED BY <1>2, <2>1, SubSeqProperties
<1>4. 4 \in 1..(8 - 5 + 1) /\ 5 + 4 - 1 = 8
  OBVIOUS
<1>5. SubSeq(b, 5, 8)[4] = b[8]
  BY <1>3, <1>4
<1> QED BY <1>5 DEF WrongSize, bytesToInt

\* Of what the client takes for a message the size and the sum are right.
LEMMA TakenIs ==
  ASSUME NEW b, Parsed(b).thrown = "none"
  PROVE  Len(b) >= 9 /\ ~ WrongSize(b) /\ Sum(b) = 0
BY DEF Parsed, Throws

\* A piece of a message, and a message with a piece of the next, are refused
\* by the client, whatever their length: what is there is not the size.
THEOREM PiecesAreRefused == Spec => []PieceIsRefused
<1>1. Sound => PieceIsRefused
  <2> SUFFICES ASSUME Sound, ClientRead, maker = "client", fault \in {"cut", "joined"},
                      Fits(message), Taken
               PROVE  FALSE
    BY DEF PieceIsRefused
  <2> DEFINE w == serializeMessage(message)
             b == Signed(bytes)
  <2>1. IsClientMessage(message) /\ Whole = Unsigned(w) /\ Len(w) < 128
    BY DEF Sound, Made, Whole, Fits
  <2>2. client = Parsed(b) /\ Parsed(b).thrown = "none"
    BY DEF Sound, WhatIsRead, ClientRead, Taken, Throws
  <2>3. /\ w \in Seq(SByte) /\ Len(w) \in Nat /\ Len(w) >= 9 /\ w[8] = ToByte(Len(w))
    BY <2>1, ClientWhole
  <2> HIDE DEF w
  <2> DEFINE u == Unsigned(w)
  <2>4. /\ u \in Seq(Byte) /\ Len(u) = Len(w) /\ Signed(u) = w
        /\ \A k \in 1..Len(w) : u[k] = w[k] % 256
    BY <2>3, SignedUnsigned
  <2> HIDE DEF u
  <2>5. /\ bytes \in Seq(Byte) /\ Len(bytes) # Len(w)
        /\ Len(bytes) >= 8 => bytes[8] = u[8]
    <3>1. CASE fault = "cut"
      <4>1. PICK n \in 1..(Len(u) - 1) : bytes = SubSeq(u, 1, n)
        BY <2>1, <3>1 DEF Sound, Shortened, u
      <4>2. n \in Int /\ 1 <= n /\ n < Len(u) /\ Len(u) \in Nat
        BY <2>3, <2>4
      <4>3. \A k \in 1..n : u[k] \in Byte
        <5>1. \A k \in 1..n : k \in 1..Len(u)
          BY <4>2
        <5> QED BY <2>4, <5>1, ElementOfSeq
      <4>4. bytes \in Seq(Byte) /\ Len(bytes) = (IF 1 <= n THEN n - 1 + 1 ELSE 0)
            /\ \A k \in 1..(n - 1 + 1) : bytes[k] = u[1 + k - 1]
        <5>1. 1 \in Int /\ n \in Int
          BY <4>2
        <5> QED BY <4>1, <4>3, <5>1, SubSeqProperties
      <4>5. Len(bytes) = n
        BY <4>2, <4>4
      <4>6. Len(bytes) >= 8 => bytes[8] = u[8]
        <5>1. n >= 8 => 8 \in 1..(n - 1 + 1) /\ 1 + 8 - 1 = 8
          BY <4>2
        <5> QED BY <4>4, <4>5, <5>1
      <4> QED BY <2>4, <4>2, <4>4, <4>5, <4>6
    <3>2. CASE fault = "joined"
      <4>1. PICK n \in 1..Min({Len(u), MaxJoined}) : bytes = u \o SubSeq(u, 1, n)
        BY <2>1, <3>2 DEF Sound, Joined, u
      <4>2. n \in Int /\ 1 <= n /\ n <= Len(u) /\ Len(u) \in Nat
        <5>1. Len(u) \in Nat /\ MaxJoined \in Nat
          BY <2>3, <2>4, MessagesAssumption
        <5>2. Min({Len(u), MaxJoined}) \in Nat /\ Min({Len(u), MaxJoined}) <= Len(u)
          <6> DEFINE S == {Len(u), MaxJoined}
          <6>1. \E x \in S : \A y \in S : x =< y
            BY <5>1
          <6> HIDE DEF S
          <6>2. Min(S) \in S /\ \A y \in S : Min(S) =< y
            BY <6>1, Zenon DEF Min
          <6> QED BY <5>1, <6>2 DEF S
        <5> DEFINE k == Min({Len(u), MaxJoined})
        <5> HIDE DEF k
        <5>3. k \in Nat /\ k <= Len(u) /\ n \in 1..k
          BY <5>2 DEF k
        <5> QED BY <5>1, <5>3
      <4> DEFINE v == SubSeq(u, 1, n)
      <4>3. v \in Seq(Byte) /\ Len(v) = n
        <5>1. \A k \in 1..n : u[k] \in Byte
          <6>1. \A k \in 1..n : k \in 1..Len(u)
            BY <4>2
          <6> QED BY <2>4, <6>1, ElementOfSeq
        <5>2. 1 \in Int /\ n \in Int
          BY <4>2
        <5>3. v \in Seq(Byte) /\ Len(v) = (IF 1 <= n THEN n - 1 + 1 ELSE 0)
          BY <5>1, <5>2, SubSeqProperties
        <5> QED BY <4>2, <5>3
      <4> HIDE DEF v
      <4>4. u \o v \in Seq(Byte) /\ Len(u \o v) = Len(u) + Len(v)
        BY <2>4, <4>3, Behind
      <4>5. \A k \in 1..Len(u) : (u \o v)[k] = u[k]
        BY <2>4, <4>3, Behind
      <4>6. 8 \in 1..Len(u)
        BY <2>3, <2>4
      <4>7. bytes = u \o v
        BY <4>1 DEF v
      <4> QED BY <2>4, <4>2, <4>3, <4>4, <4>5, <4>6, <4>7
    <3> QED BY <3>1, <3>2
  <2>6. b \in Seq(SByte) /\ Len(b) = Len(bytes)
    BY <2>5, SumOfSigned DEF Byte
  <2>7. Len(b) >= 9 /\ ~ WrongSize(b)
    BY <2>2, TakenIs
  <2>8. Len(bytes) = ToByte(bytes[8]) /\ Len(bytes) >= 9
    <3>1. b[8] = ToByte(bytes[8])
      <4>1. DOMAIN bytes = 1..Len(bytes) /\ Len(bytes) \in Nat
        BY <2>5, LenProperties
      <4>2. 8 \in DOMAIN bytes
        BY <2>6, <2>7, <4>1
      <4> QED BY <4>2 DEF Signed
    <3> HIDE DEF b
    <3> QED BY <2>6, <2>7, <3>1, SizeIs
  <2>9. bytes[8] = w[8] % 256
    <3>1. 8 \in 1..Len(w)
      BY <2>3
    <3>2. u[8] = w[8] % 256
      BY <2>4, <3>1
    <3>3. Len(bytes) >= 8
      <4>1. Len(bytes) \in Nat
        BY <2>5, LenProperties
      <4> QED BY <2>8, <4>1
    <3> QED BY <2>5, <3>2, <3>3
  <2> DEFINE l == Len(w)
  <2>10. l \in Nat /\ l < 128 /\ bytes[8] = ToByte(l) % 256 /\ Len(bytes) # l
    BY <2>1, <2>3, <2>5, <2>9 DEF w
  <2> HIDE DEF l
  <2>11. ToByte(ToByte(l) % 256) = l
    BY <2>10, SMT DEF ToByte
  <2> QED BY <2>8, <2>10, <2>11
<1> QED BY <1>1, SoundHolds, PTL

\* One altered byte is noticed by the client in every message, unless it is
\* off by 128: the sum of what arrives is off by as much modulo 128.
THEOREM AlterationsAreNoticed == Spec => []AlterationIsNoticed
<1>1. Sound => AlterationIsNoticed
  <2> SUFFICES ASSUME Sound, ClientRead, fault = "altered", change # 128, Taken
               PROVE  FALSE
    BY DEF AlterationIsNoticed
  <2> DEFINE w == serializeMessage(message)
             u == Unsigned(w)
             b == Signed(bytes)
             d == change
  <2>1. /\ IsClientMessage(message) /\ Whole = u /\ d \in 1..255 /\ d # 128
        /\ \E i \in DOMAIN u : bytes = [u EXCEPT ![i] = (@ + d) % 256]
    <3>1. /\ maker = "client" /\ d \in Changes
          /\ \E i \in DOMAIN Whole : bytes = [Whole EXCEPT ![i] = (@ + d) % 256]
      BY Zenon DEF Sound, Altered
    <3>2. IsClientMessage(message) /\ Whole = u
      BY <3>1 DEF Sound, Made, Whole
    <3>3. d \in 1..255 /\ d # 128
      BY <3>1, MessagesAssumption
    <3> HIDE DEF w, u, b, d
    <3>4. PICK i \in DOMAIN Whole : bytes = [Whole EXCEPT ![i] = (@ + d) % 256]
      BY <3>1, Zenon
    <3>5. i \in DOMAIN u /\ bytes = [u EXCEPT ![i] = (@ + d) % 256]
      BY <3>2, <3>4
    <3>6. \E j \in DOMAIN u : bytes = [u EXCEPT ![j] = (@ + d) % 256]
      BY <3>5, Zenon
    <3> QED BY <3>2, <3>3, <3>6, Zenon
  <2>2. client = Parsed(b) /\ Parsed(b).thrown = "none"
    BY DEF Sound, WhatIsRead, ClientRead, Taken, Throws
  <2>3. /\ w \in Seq(SByte) /\ Len(w) \in Nat /\ Sum(w) = 0
    BY <2>1, ClientWhole
  <2> HIDE DEF w
  <2>4. /\ u \in Seq(Byte) /\ Len(u) = Len(w) /\ Signed(u) = w
    BY <2>3, SignedUnsigned
  <2> HIDE DEF u, d
  <2>5. PICK i \in DOMAIN u : bytes = [u EXCEPT ![i] = (@ + d) % 256]
    BY <2>1
  <2> DEFINE n == Len(u)
             x == u[i]
             y == (x + d) % 256
  <2>6. n \in Nat /\ DOMAIN u = 1..n /\ i \in 1..n /\ \A k \in 1..n : u[k] \in Byte
    BY <2>4, LenProperties, ElementOfSeq
  <2>7. x \in Byte /\ y \in Byte /\ d \in Nat
    <3>1. x \in Byte
      BY <2>6
    <3>2. d \in Nat
      BY <2>1
    <3> HIDE DEF x, n
    <3>3. y \in Byte
      BY <3>1, <3>2, SMT DEF Byte
    <3> QED BY <3>1, <3>2, <3>3
  <2> HIDE DEF n
  <2>8. /\ bytes \in Seq(Byte) /\ Len(bytes) = n /\ bytes[i] = y
        /\ \A k \in 1..n : k # i => bytes[k] = u[k]
    <3>1. bytes = [u EXCEPT ![i] = y]
      BY <2>5
    <3> HIDE DEF x, y
    <3>2. /\ [u EXCEPT ![i] = y] \in Seq(Byte) /\ Len([u EXCEPT ![i] = y]) = Len(u)
          /\ \A k \in 1..Len(u) : [u EXCEPT ![i] = y][k] = IF k = i THEN y ELSE u[k]
      BY <2>4, <2>6, <2>7, ExceptSeq DEF n
    <3> QED BY <2>6, <3>1, <3>2 DEF n
  <2> HIDE DEF x, y
  <2>9. b \in Seq(SByte) /\ Len(b) = n /\ Len(w) = n
    <3>1. b \in Seq(SByte) /\ Len(b) = Len(bytes)
      BY <2>8, SumOfSigned DEF Byte
    <3> QED BY <2>4, <2>8, <3>1 DEF n
  <2>10. \A k \in 1..n : b[k] = ToByte(bytes[k]) /\ w[k] = ToByte(u[k])
    <3>1. DOMAIN bytes = 1..n
      BY <2>8, LenProperties
    <3>2. \A k \in 1..n : Signed(u)[k] = ToByte(u[k])
      BY <2>6 DEF Signed
    <3>3. \A k \in 1..n : b[k] = ToByte(bytes[k])
      BY <3>1 DEF Signed
    <3> QED BY <2>4, <3>2, <3>3
  <2> HIDE DEF b
  <2>11. \A k \in 1..n : k # i => b[k] = w[k]
    BY <2>8, <2>10
  <2>12. (b[i] - w[i]) % 128 = d % 128
    <3>1. (ToByte(y) - ToByte(x)) % 128 = d % 128
      <4>1. x \in 0..255 /\ d \in Nat
        BY <2>7 DEF Byte
      <4>2. y = (x + d) % 256
        BY DEF y
      <4> QED BY <4>1, <4>2, SMT DEF ToByte
    <3>2. b[i] = ToByte(y) /\ w[i] = ToByte(x)
      BY <2>6, <2>8, <2>10 DEF x
    <3> QED BY <3>1, <3>2
  <2>13. (Sum(b) - Sum(w)) % 128 = d % 128
    <3>1. i \in 1..Len(w) /\ Len(b) = Len(w) /\ \A k \in 1..Len(w) : k # i => b[k] = w[k]
      BY <2>6, <2>9, <2>11
    <3> QED BY <2>3, <2>7, <2>9, <2>12, <3>1, SumOfAltered
  <2>14. Sum(b) = 0
    BY <2>2, TakenIs
  <2>15. (0 - 0) % 128 = d % 128
    BY <2>3, <2>13, <2>14
  <2> QED BY <2>1, <2>15, SMT
<1> QED BY <1>1, SoundHolds, PTL

\* Where bytesToPayload may be.
Value == Int \cup Text \cup {Garbled}

\* What it throws.
Refusal == {"BadPayloadLength", "IllegalArgument"}

\* The position, what was read so far, and what was thrown.
Reader == [pointer : Nat, payload : Seq(Value), error : {"none"} \cup Refusal]

\* new String returns a string of the instance or the garbled one.
LEMMA StringIs == \A b : bytesToString(b) \in Value
BY DEF bytesToString, Value

\* The int at position p: its fourth byte, or a zero copied from behind the end.
LEMMA CopyIs ==
  ASSUME NEW b \in Seq(Int), NEW p \in Nat
  PROVE  bytesToInt(copyOfRange(b, p, p + 4)) \in Int
         /\ bytesToInt(copyOfRange(b, p, p + 4)) = IF p + 4 <= Len(b) THEN b[p + 4] ELSE 0
<1>1. Len(b) \in Nat /\ (p + 4 <= Len(b) => p + 4 \in 1..Len(b))
  BY LenProperties
<1>2. p + 4 <= Len(b) => b[p + 4] \in Int
  BY <1>1, ElementOfSeq
<1>3. 4 \in 1..((p + 4) - p)
  OBVIOUS
<1>4. copyOfRange(b, p, p + 4)[4] = IF p + 4 <= Len(b) THEN b[p + 4] ELSE 0
  BY <1>3 DEF copyOfRange
<1> QED BY <1>2, <1>4 DEF bytesToInt

\* One item takes bytesToPayload from one such place to another.
LEMMA ReadItemIs ==
  ASSUME NEW b \in Seq(Int), NEW type, NEW r \in Reader
  PROVE  ReadItem(b, type, r) \in Reader
<1> DEFINE p == r.pointer
           number == bytesToInt(copyOfRange(b, p, p + 4))
           text == bytesToString(copyOfRange(b, p + 4, p + 4 + number))
<1>1. p \in Nat /\ r.payload \in Seq(Value) /\ r.error \in {"none"} \cup Refusal
  BY DEF Reader
<1>2. number \in Int /\ number \in Value
  <2>1. number \in Int
    <3> HIDE DEF p
    <3> QED BY <1>1, CopyIs
  <2> QED BY <2>1 DEF Value
<1>3. text \in Value
  BY StringIs
<1>4. /\ Append(r.payload, number) \in Seq(Value)
      /\ Append(r.payload, text) \in Seq(Value)
  <2> HIDE DEF number, text
  <2> QED BY <1>1, <1>2, <1>3, AppendProperties
<1> HIDE DEF text, number
<1>5. r = [pointer |-> p, payload |-> r.payload, error |-> r.error]
  BY DEF Reader
<1>6. ReadItem(b, type, r) \in
        { r, [r EXCEPT !.error = "BadPayloadLength"], [r EXCEPT !.error = "IllegalArgument"],
          [r EXCEPT !.pointer = p + 4, !.payload = Append(@, number)] }
      \/ /\ ~ (number < 0)
         /\ ReadItem(b, type, r) = [r EXCEPT !.pointer = p + 4 + number, !.payload = Append(@, text)]
  BY DEF ReadItem, number, text
<1>7. p + 4 \in Nat /\ (~ (number < 0) => p + 4 + number \in Nat)
  BY <1>1, <1>2
<1> HIDE DEF p
<1>8. /\ [r EXCEPT !.error = "BadPayloadLength"] \in Reader
      /\ [r EXCEPT !.error = "IllegalArgument"] \in Reader
  BY DEF Reader, Refusal
<1>9. [r EXCEPT !.pointer = p + 4, !.payload = Append(@, number)] \in Reader
  BY <1>4, <1>7 DEF Reader
<1>10. ~ (number < 0) => [r EXCEPT !.pointer = p + 4 + number, !.payload = Append(@, text)] \in Reader
  BY <1>4, <1>7 DEF Reader
<1> QED BY <1>6, <1>8, <1>9, <1>10

\* Before the first item.
Start == [pointer |-> 0, payload |-> <<>>, error |-> "none"]

\* What bytesToPayload keeps, item by item, and what it returns.
LEMMA Reads ==
  ASSUME NEW b \in Seq(Int), NEW types, Len(types) \in Nat
  PROVE  \E read \in [0..Len(types) -> Reader] :
           /\ read[0] = Start
           /\ \A i \in 1..Len(types) : read[i] = ReadItem(b, types[i], read[i - 1])
           /\ bytesToPayload(types, b) =
                IF /\ read[Len(types)].error = "none" /\ read[Len(types)].pointer # Len(b)
                   /\ types # <<>>
                THEN [read[Len(types)] EXCEPT !.error = "BadPayloadLength"] ELSE read[Len(types)]
<1> DEFINE n == Len(types)
           step == [i \in 1..n |-> [r \in Reader |-> ReadItem(b, types[i], r)]]
           Is(s) == s = [i \in 0..n |-> IF i = 0 THEN [pointer |-> 0, payload |-> <<>>, error |-> "none"]
                                        ELSE LET r == s[i - 1] IN ReadItem(b, types[i], r)]
<1>1. n \in Nat
  OBVIOUS
<1>2. Start \in Reader
  <2>1. <<>> \in Seq(Value)
    BY EmptySeq
  <2> QED BY <2>1 DEF Start, Reader
<1> HIDE DEF n
<1>3. step \in [1..n -> [Reader -> Reader]]
  BY ReadItemIs
<1>4. PICK f \in [0..n -> Reader] : Runs(f, n, Start, step)
  <2> HIDE DEF step
  <2> QED BY <1>1, <1>2, <1>3, Recursion
<1>5. \A i \in 1..n : i \in 0..n /\ i - 1 \in 0..n /\ i # 0
  BY <1>1
<1>6. f[0] = Start /\ \A i \in 1..n : f[i] = ReadItem(b, types[i], f[i - 1])
  BY <1>4, <1>5 DEF Runs
<1>7. Is(f)
  <2> HIDE DEF step
  <2>1. f = [i \in 0..n |-> f[i]]
    OBVIOUS
  <2>2. \A i \in 0..n : f[i] = IF i = 0 THEN Start ELSE ReadItem(b, types[i], f[i - 1])
    BY <1>1, <1>6
  <2> QED BY <2>1, <2>2 DEF Start
<1> DEFINE s == CHOOSE t : Is(t)
<1>8. Is(s)
  <2> HIDE DEF Is
  <2> QED BY <1>7
<1>9. bytesToPayload(types, b) =
        IF s[n].error = "none" /\ s[n].pointer # Len(b) /\ types # <<>>
        THEN [s[n] EXCEPT !.error = "BadPayloadLength"] ELSE s[n]
  BY DEF bytesToPayload, n
<1> HIDE DEF s
<1>10. s[0] = Start /\ \A i \in 1..n : s[i] = ReadItem(b, types[i], s[i - 1])
  BY <1>1, <1>5, <1>8 DEF Start
<1>11. s[n] = f[n]
  <2>1. InStep(s, f, n)
    BY <1>6, <1>10 DEF InStep
  <2> HIDE DEF Is, step
  <2>2. \A i \in 0..n : s[i] = f[i]
    BY <1>1, <2>1, OneRecursion
  <2> QED BY <1>1, <2>2
<1> HIDE DEF Is, step
<1> QED BY <1>6, <1>9, <1>11 DEF n

-----------------------------------------------------------------------------

\* What the client makes of a message of the server.

\* One byte more.
LEMMA ChecksumAppend ==
  ASSUME NEW b \in Seq(Int), NEW x \in Int
  PROVE  Checksum(b) \in 0..127 /\ Checksum(Append(b, x)) = (Checksum(b) + x) % 128
<1> DEFINE c == Append(b, x)
           n == Len(b)
<1>1. c \in Seq(Int) /\ n \in Nat /\ Len(c) = n + 1
      /\ c[n + 1] = x /\ \A i \in 1..n : c[i] = b[i]
  BY AppendProperties
<1>2. PICK s \in [0..n -> 0..127] :
        s[0] = 0 /\ (\A i \in 1..n : s[i] = (s[i - 1] + b[i]) % 128) /\ Checksum(b) = s[n]
  BY ChecksumIs
<1> HIDE DEF c, n
<1>3. PICK t \in [0..(n + 1) -> 0..127] :
        t[0] = 0 /\ (\A i \in 1..(n + 1) : t[i] = (t[i - 1] + c[i]) % 128) /\ Checksum(c) = t[n + 1]
  BY <1>1, ChecksumIs, ZenonT(30)
<1>4. InStep(t, s, n)
  <2>1. \A i \in 1..n : i \in 1..(n + 1)
    BY <1>1
  <2>2. ASSUME NEW i \in 1..n, t[i - 1] = s[i - 1] PROVE t[i] = s[i]
    <3>1. t[i] = (t[i - 1] + c[i]) % 128
      BY <1>3, <2>1, Zenon
    <3>2. s[i] = (s[i - 1] + b[i]) % 128
      BY <1>2, Zenon
    <3> QED BY <1>1, <2>2, <3>1, <3>2, Zenon
  <2> QED BY <1>2, <1>3, <2>2 DEF InStep
<1>5. t[n] = s[n]
  <2>1. \A i \in 0..n : t[i] = s[i]
    BY <1>1, <1>4, OneRecursion
  <2> QED BY <1>1, <2>1
<1>6. t[n + 1] = (t[n] + x) % 128
  <2>1. n + 1 \in 1..(n + 1) /\ (n + 1) - 1 = n
    BY <1>1
  <2>2. t[n + 1] = (t[(n + 1) - 1] + c[n + 1]) % 128
    BY <1>3, <2>1, Zenon
  <2> QED BY <1>1, <2>1, <2>2, Zenon
<1>7. Checksum(b) \in 0..127
  <2>1. n \in 0..n
    BY <1>1
  <2> QED BY <1>2, <2>1
<1> QED BY <1>1, <1>2, <1>3, <1>5, <1>6, <1>7 DEF c

\* A message of the server, whole.
LEMMA ServerWhole ==
  ASSUME NEW m, IsServerMessage(m), NEW w, w = serialize(m)
  PROVE  /\ w \in Seq(Byte) /\ Len(w) \in Nat /\ Len(w) >= 9
         /\ w[8] = Len(w) % 256 /\ Last(w) \in 0..127 /\ Checksum(w) = (2 * Last(w)) % 128
<1> DEFINE f == FlattenSeq(Fields(m))
           e == Head8(m.header, 9 + Len(f))
           b == ServerBody(m)
           c == Checksum(b)
<1>1. /\ f \in Seq(Byte) /\ Len(f) \in Nat /\ e \in Seq(Byte) /\ Len(e) = 8
      /\ b = e \o f /\ b \in Seq(Byte) /\ Len(b) = 8 + Len(f)
  BY ServerBodyIs
<1>2. \A k \in 1..4 : e[4 + k] = Copy32(9 + Len(f))[k]
  BY ServerBodyIs
<1>3. /\ w = Append(b, c) /\ c \in 0..127 /\ c \in Byte
      /\ w \in Seq(Byte) /\ Len(w) = Len(b) + 1
  BY ServerBytes
<1> HIDE DEF c, b, f, e
<1>4. Checksum(Append(b, c)) = (c + c) % 128
  <2>1. b \in Seq(Int)
    BY <1>1, ByteInt
  <2>2. c \in Int
    BY <1>3
  <2>3. Checksum(b) = c
    BY DEF c
  <2> QED BY <2>1, <2>2, <2>3, ChecksumAppend
<1>5. Last(w) = c
  <2>1. Append(b, c)[Len(b) + 1] = c
    <3> QED BY <1>1, <1>3, AppendProperties
  <2> QED BY <1>3, <2>1 DEF Last
<1>6. e[8] = (9 + Len(f)) % 256
  <2>1. 4 \in 1..4 /\ 4 + 4 = 8
    OBVIOUS
  <2>2. e[8] = Copy32(9 + Len(f))[4]
    BY <1>2, <2>1
  <2> QED BY <2>2 DEF Copy32
<1>7. w[8] = e[8]
  <2>1. \A k \in 1..Len(e) : (e \o f)[k] = e[k]
    BY <1>1, Behind
  <2>2. \A k \in 1..Len(b) : Append(b, c)[k] = b[k]
    BY <1>1, <1>3, AppendProperties
  <2>3. 8 \in 1..Len(e) /\ 8 \in 1..Len(b)
    BY <1>1
  <2> QED BY <1>1, <1>3, <2>1, <2>2, <2>3
<1>8. Len(w) = 9 + Len(f) /\ Len(w) \in Nat /\ Len(w) >= 9
  BY <1>1, <1>3
<1>9. c + c = 2 * c
  BY <1>3
<1> QED BY <1>3, <1>4, <1>5, <1>6, <1>7, <1>8, <1>9

\* What bytesToPayload may complain of.
LEMMA ErrorIs ==
  ASSUME NEW b \in Seq(Int), NEW types, Len(types) \in Nat
  PROVE  bytesToPayload(types, b).error \in {"none"} \cup Refusal
<1>1. PICK read \in [0..Len(types) -> Reader] :
        bytesToPayload(types, b) =
          IF /\ read[Len(types)].error = "none" /\ read[Len(types)].pointer # Len(b)
             /\ types # <<>>
          THEN [read[Len(types)] EXCEPT !.error = "BadPayloadLength"] ELSE read[Len(types)]
  BY Reads
<1> DEFINE r == read[Len(types)]
<1>2. r \in Reader
  <2>1. Len(types) \in 0..Len(types)
    OBVIOUS
  <2> QED BY <2>1
<1> HIDE DEF r
<1>3. r.error \in {"none"} \cup Refusal
  BY <1>2 DEF Reader
<1>4. [r EXCEPT !.error = "BadPayloadLength"].error \in {"none"} \cup Refusal
  BY <1>2 DEF Reader, Refusal
<1>5. bytesToPayload(types, b) \in {r, [r EXCEPT !.error = "BadPayloadLength"]}
  BY <1>1 DEF r
<1> QED BY <1>3, <1>4, <1>5

\* What the client throws first.
LEMMA ThrownIs ==
  ASSUME NEW b \in Seq(SByte), Len(b) >= 9
  PROVE  Parsed(b).thrown \notin {"BadLength", "BadCheckSum"} <=> ~ WrongSize(b) /\ Sum(b) = 0
<1> DEFINE header == bytesToInt(SubSeq(b, 1, 4))
           types == PayloadTypes[header]
           r == bytesToPayload(types, SubSeq(b, 9, Len(b) - 1))
<1>1. Parsed(b) = IF WrongSize(b) THEN Throws("BadLength")
                  ELSE IF Sum(b) # 0 THEN Throws("BadCheckSum")
                  ELSE IF header \notin DOMAIN PayloadTypes THEN Throws("BadHeader")
                  ELSE IF r.error # "none" THEN Throws(r.error)
                  ELSE [thrown |-> "none", header |-> header, payload |-> r.payload]
  <2>1. ~ (Len(b) < 9)
    BY LenProperties
  <2> QED BY <2>1 DEF Parsed
<1>2. ASSUME header \in DOMAIN PayloadTypes PROVE r.error \in {"none", "BadPayloadLength", "IllegalArgument"}
  <2>1. Len(types) \in Nat
    <3>1. types \in Seq({"Integer", "String"})
      BY <1>2, PayloadTypesIs
    <3> HIDE DEF types
    <3> QED BY <3>1, LenProperties
  <2>2. SubSeq(b, 9, Len(b) - 1) \in Seq(Int)
    <3>1. Len(b) \in Nat
      BY LenProperties
    <3>2. \A k \in 9..(Len(b) - 1) : k \in 1..Len(b)
      BY <3>1
    <3>3. b \in Seq(Int)
      BY ByteInts
    <3>4. \A k \in 9..(Len(b) - 1) : b[k] \in Int
      BY <3>2, <3>3, ElementOfSeq
    <3>5. 9 \in Int /\ Len(b) - 1 \in Int
      BY <3>1
    <3> QED BY <3>4, <3>5, SubSeqProperties
  <2> HIDE DEF types
  <2> QED BY <2>1, <2>2, ErrorIs DEF Refusal
<1> HIDE DEF header, types, r
<1> QED BY <1>1, <1>2 DEF Throws

\* The two sides do not mean the same by a checksum: whatever the server sends,
\* the client passes its checksum exactly when it is 0 or 64 and the message is
\* shorter than 128 bytes.
THEOREM ServerSumsPass == Spec => []ServerSumPasses
<1>1. Sound => ServerSumPasses
  <2> SUFFICES ASSUME Sound, ClientRead, maker = "server", fault = "none"
               PROVE  client.thrown \notin {"BadLength", "BadCheckSum"}
                        <=> Last(bytes) \in {0, 64} /\ Len(bytes) < 128
    BY DEF ServerSumPasses
  <2> DEFINE b == Signed(bytes)
             c == Last(bytes)
             l == Len(bytes)
  <2>1. IsServerMessage(message) /\ bytes = serialize(message)
    BY DEF Sound, Made, Unharmed, Whole
  <2>2. client = Parsed(b)
    BY DEF Sound, WhatIsRead, ClientRead, Throws
  <2>3. /\ bytes \in Seq(Byte) /\ l \in Nat /\ l >= 9 /\ bytes[8] = l % 256
        /\ c \in 0..127 /\ Checksum(bytes) = (2 * c) % 128
    BY <2>1, ServerWhole
  <2>4. /\ b \in Seq(SByte) /\ Len(b) = l
        /\ Sum(b) \in -127..127 /\ Sum(b) % 128 = Checksum(bytes)
    BY <2>3, SumOfSigned DEF Byte
  <2>5. b[8] = ToByte(bytes[8])
    <3>1. DOMAIN bytes = 1..l
      BY <2>3, LenProperties
    <3>2. 8 \in 1..l
      BY <2>3
    <3> QED BY <3>1, <3>2 DEF Signed
  <2> HIDE DEF b, c, l
  <2>6. WrongSize(b) <=> l >= 128
    <3>1. WrongSize(b) <=> l # ToByte(l % 256)
      BY <2>3, <2>4, <2>5, SizeIs, ZenonT(30)
    <3>2. l # ToByte(l % 256) <=> l >= 128
      BY <2>3, SMT DEF ToByte
    <3> QED BY <3>1, <3>2
  <2>7. Sum(b) = 0 <=> c \in {0, 64}
    <3> DEFINE s == Sum(b)
    <3>1. s \in -127..127 /\ s % 128 = (2 * c) % 128
      BY <2>3, <2>4
    <3> HIDE DEF s
    <3>2. s = 0 <=> c \in {0, 64}
      BY <2>3, <3>1, SMTT(30)
    <3> QED BY <3>2 DEF s
  <2>8. Parsed(b).thrown \notin {"BadLength", "BadCheckSum"} <=> ~ WrongSize(b) /\ Sum(b) = 0
    BY <2>3, <2>4, ThrownIs
  <2>9. ~ (l >= 128) <=> l < 128
    BY <2>3
  <2> QED BY <2>2, <2>6, <2>7, <2>8, <2>9 DEF c, l
<1> QED BY <1>1, SoundHolds, PTL

-----------------------------------------------------------------------------

\* What the server reads.

\* Where deserialize may be.
Datum == Int \cup Seq(Int)

\* The position, what was read so far, and whether all of it had arrived.
Parser == [index : Nat \ {0}, payload : Seq(Datum), inside : BOOLEAN]

\* Of what is in the packet parse32intFromArray makes a number.
LEMMA Parse32Is ==
  ASSUME NEW b \in Seq(Byte), NEW i \in Nat \ {0}, i + 3 <= Len(b)
  PROVE  Parse32(b, i) \in Nat
<1> DEFINE n == Len(b)
<1>1. n \in Nat /\ \A k \in 1..n : b[k] \in Byte
  BY LenProperties, ElementOfSeq
<1>2. i + 3 <= n
  OBVIOUS
<1> HIDE DEF n
<1>3. i \in 1..n /\ i + 1 \in 1..n /\ i + 2 \in 1..n /\ i + 3 \in 1..n
  BY <1>1, <1>2
<1> DEFINE w == b[i]
           x == b[i + 1]
           y == b[i + 2]
           z == b[i + 3]
<1>4. w \in Byte /\ x \in Byte /\ y \in Byte /\ z \in Byte
  BY <1>1, <1>3
<1>5. Parse32(b, i) = w * 16777216 + x * 65536 + y * 256 + z
  BY DEF Parse32
<1> HIDE DEF w, x, y, z
<1>6. w \in Nat /\ x \in Nat /\ y \in Nat /\ z \in Nat
  BY <1>4 DEF Byte
<1> QED BY <1>5, <1>6

\* One item takes deserialize from one such place to another.
LEMMA ItemIs ==
  ASSUME NEW b \in Seq(Byte), NEW f, NEW r \in Parser
  PROVE  Item(b, f, r) \in Parser
<1> DEFINE x == r.index
           number == Parse32(b, x)
           text == SubSeq(b, x + 4, (x + 4) + number - 1)
           p == r.payload
<1>1. x \in Nat \ {0} /\ p \in Seq(Datum) /\ r.inside \in BOOLEAN /\ Len(b) \in Nat
  BY LenProperties DEF Parser
<1>2. ~ ((x + 4) - 1 > Len(b)) => number \in Nat
  <2> HIDE DEF x
  <2>1. ASSUME ~ ((x + 4) - 1 > Len(b)) PROVE x + 3 <= Len(b)
    BY <1>1, <2>1
  <2> QED BY <1>1, <2>1, Parse32Is
<1> HIDE DEF number
<1>3. ASSUME number \in Nat, ~ ((x + 4) + number - 1 > Len(b))
      PROVE  text \in Seq(Int)
  <2> HIDE DEF x
  <2>1. \A k \in (x + 4) .. ((x + 4) + number - 1) : k \in 1..Len(b)
    BY <1>1, <1>3
  <2>2. \A k \in (x + 4) .. ((x + 4) + number - 1) : b[k] \in Byte
    BY <2>1, ElementOfSeq
  <2>3. x + 4 \in Int /\ (x + 4) + number - 1 \in Int
    BY <1>1, <1>3
  <2>4. text \in Seq(Byte)
    BY <2>2, <2>3, SubSeqProperties
  <2> HIDE DEF text
  <2> QED BY <2>4, ByteInt
<1> HIDE DEF text
<1>4. \A v \in Datum : Append(p, v) \in Seq(Datum)
  <2> HIDE DEF p
  <2> QED BY <1>1, AppendProperties
<1>5. [r EXCEPT !.inside = FALSE] \in Parser
  BY DEF Parser
<1>6. ASSUME number \in Nat
      PROVE  [r EXCEPT !.index = x + 4, !.payload = Append(@, number)] \in Parser
  <2>1. Append(p, number) \in Seq(Datum) /\ x + 4 \in Nat \ {0}
    BY <1>1, <1>4, <1>6 DEF Datum
  <2> QED BY <2>1 DEF Parser
<1>7. ASSUME number \in Nat, text \in Seq(Int)
      PROVE  [r EXCEPT !.index = (x + 4) + number, !.payload = Append(@, text)] \in Parser
  <2>1. Append(p, text) \in Seq(Datum)
    BY <1>4, <1>7 DEF Datum
  <2>2. (x + 4) + number \in Nat \ {0}
    BY <1>1, <1>7
  <2> QED BY <2>1, <2>2 DEF Parser
<1>8. \/ Item(b, f, r) = [r EXCEPT !.inside = FALSE]
      \/ /\ ~ ((x + 4) - 1 > Len(b))
         /\ Item(b, f, r) = [r EXCEPT !.index = x + 4, !.payload = Append(@, number)]
      \/ /\ ~ ((x + 4) - 1 > Len(b)) /\ ~ ((x + 4) + number - 1 > Len(b))
         /\ Item(b, f, r) = [r EXCEPT !.index = (x + 4) + number, !.payload = Append(@, text)]
  BY DEF Item, number, text
<1> HIDE DEF x, p
<1> QED BY <1>2, <1>3, <1>5, <1>6, <1>7, <1>8

\* Before the first item.
Behind8 == [index |-> 9, payload |-> <<>>, inside |-> TRUE]

\* read is what deserialize keeps, item by item, and what it returns comes of it.
ReadsServer(b, h, format, read) ==
  /\ read[0] = Behind8
  /\ \A i \in 1..Len(format) : read[i] = Item(b, format[i], read[i - 1])
  /\ deserialize(b) =
       IF Len(b) < 8 THEN BeyondEnd
       ELSE IF h \notin DOMAIN Format THEN Unknown
       ELSE IF ~ read[Len(format)].inside THEN BeyondEnd
       ELSE [header |-> h, payload |-> read[Len(format)].payload]

\* There is such a function.
LEMMA ServerReads ==
  ASSUME NEW b \in Seq(Byte), NEW h, h = Parse32(b, 1), NEW format, format = Format[h],
         Len(format) \in Nat
  PROVE  \E read \in [0..Len(format) -> Parser] : ReadsServer(b, h, format, read)
<1> DEFINE n == Len(format)
           step == [i \in 1..n |-> [r \in Parser |-> Item(b, format[i], r)]]
           Is(s) == s = [i \in 0..n |-> IF i = 0 THEN [index |-> 9, payload |-> <<>>, inside |-> TRUE]
                                        ELSE LET r == s[i - 1] IN Item(b, format[i], r)]
<1>1. n \in Nat
  OBVIOUS
<1>2. Behind8 \in Parser
  <2>1. <<>> \in Seq(Datum)
    BY EmptySeq
  <2> QED BY <2>1 DEF Behind8, Parser
<1> HIDE DEF n
<1>3. step \in [1..n -> [Parser -> Parser]]
  BY ItemIs
<1>4. PICK f \in [0..n -> Parser] : Runs(f, n, Behind8, step)
  <2> HIDE DEF step
  <2> QED BY <1>1, <1>2, <1>3, Recursion
<1>5. \A i \in 1..n : i \in 0..n /\ i - 1 \in 0..n /\ i # 0
  BY <1>1
<1>6. f[0] = Behind8 /\ \A i \in 1..n : f[i] = Item(b, format[i], f[i - 1])
  BY <1>4, <1>5 DEF Runs
<1>7. Is(f)
  <2> HIDE DEF step
  <2>1. f = [i \in 0..n |-> f[i]]
    OBVIOUS
  <2>2. \A i \in 0..n : f[i] = IF i = 0 THEN Behind8 ELSE Item(b, format[i], f[i - 1])
    BY <1>1, <1>6
  <2> QED BY <2>1, <2>2 DEF Behind8
<1> DEFINE s == CHOOSE t : Is(t)
<1>8. Is(s)
  <2> HIDE DEF Is
  <2> QED BY <1>7
<1>9. deserialize(b) =
        IF Len(b) < 8 THEN BeyondEnd
        ELSE IF h \notin DOMAIN Format THEN Unknown
        ELSE IF ~ s[n].inside THEN BeyondEnd
        ELSE [header |-> h, payload |-> s[n].payload]
  BY DEF deserialize, n
<1> HIDE DEF s
<1>10. s[0] = Behind8 /\ \A i \in 1..n : s[i] = Item(b, format[i], s[i - 1])
  <2>1. \A i \in 0..n : s[i] = IF i = 0 THEN Behind8 ELSE Item(b, format[i], s[i - 1])
    BY <1>8 DEF Behind8
  <2> HIDE DEF Is, step
  <2>2. 0 \in 0..n
    BY <1>1
  <2> QED BY <1>5, <2>1, <2>2
<1>11. s[n] = f[n]
  <2>1. InStep(s, f, n)
    BY <1>6, <1>10 DEF InStep
  <2> HIDE DEF Is, step
  <2>2. \A i \in 0..n : s[i] = f[i]
    BY <1>1, <2>1, OneRecursion
  <2> QED BY <1>1, <2>2
<1> HIDE DEF Is, step
<1>12. ReadsServer(b, h, format, f)
  BY <1>6, <1>9, <1>11 DEF n, ReadsServer
<1> QED BY <1>12 DEF n

\* Where an item ends behind what arrived, deserialize reads beyond it.
LEMMA ItemBeyond ==
  ASSUME NEW f \in {"i", "s"}, NEW item,
         f = "i" => item \in Word,
         f = "s" => item \in Seq(Int) /\ Len(item) \in Positive,
         NEW before \in Seq(Int), NEW w \in Seq(Int), w = Field(f, item),
         NEW b \in Seq(Int), Len(before) <= Len(b), Len(b) < Len(before) + Len(w),
         \A k \in 1..Len(b) : b[k] = (before \o w)[k], NEW payload
  PROVE  ~ Item(b, f, Place(before, payload)).inside
<1> DEFINE l == Len(before)
           m == Len(b)
           o == Len(w)
           r == Place(before, payload)
           number == Parse32(b, l + 1)
<1>1. l \in Nat /\ o \in Nat /\ m \in Nat /\ m < l + o
  BY LenProperties
<1>2. [r EXCEPT !.inside = FALSE].inside = FALSE
  BY DEF Place
<1>3. /\ (l + 1 + 4) - 1 > m => Item(b, f, r) = [r EXCEPT !.inside = FALSE]
      /\ f = "s" /\ (l + 1 + 4) + number - 1 > m => Item(b, f, r) = [r EXCEPT !.inside = FALSE]
  BY DEF Item, Place
<1>4. \A k \in 1..m : b[k] = (before \o w)[k]
  OBVIOUS
<1> HIDE DEF r, l, m, o, number
<1>5. CASE (l + 1 + 4) - 1 > m
  BY <1>2, <1>3, <1>5 DEF r
<1>6. CASE ~ ((l + 1 + 4) - 1 > m)
  <2>1. f = "s"
    <3> SUFFICES ASSUME f = "i" PROVE FALSE
      OBVIOUS
    <3>1. o = 4
      BY Copy32Seq DEF Field, o
    <3> QED BY <1>1, <1>6, <3>1
  <2> DEFINE n == Len(item)
             c == Copy32(n)
  <2>2. item \in Seq(Int) /\ n \in Positive /\ n \in Word /\ n \in Nat
    BY <2>1, Words
  <2>3. c \in Seq(Int) /\ Len(c) = 4 /\ w = c \o item
    <3>1. w = c \o item
      BY <2>1 DEF Field
    <3> QED BY <2>2, <3>1, Copy32Seq
  <2> HIDE DEF n, c
  <2>4. o = 4 + n
    <3>1. Len(c \o item) = Len(c) + Len(item)
      BY <2>2, <2>3, Behind, ZenonT(30)
    <3> QED BY <2>3, <3>1 DEF n, o
  <2>5. \A k \in 1..4 : w[k] = c[k]
    <3>0. c \in Seq(Int) /\ item \in Seq(Int)
      BY <2>2, <2>3
    <3>1. \A k \in 1..Len(c) : (c \o item)[k] = c[k]
      BY <3>0, Behind
    <3> QED BY <2>3, <3>1
  <2>6. \A k \in 1..o : (before \o w)[l + k] = w[k]
    <3>1. \A k \in 1..Len(w) : (before \o w)[Len(before) + k] = w[k]
      BY Behind
    <3> QED BY <3>1 DEF l, o
  <2>7. ASSUME NEW k \in 1..4 PROVE b[l + k] = c[k]
    <3>1. k \in 1..o /\ l + k \in 1..m
      BY <1>1, <1>6, <2>2, <2>4
    <3>2. b[l + k] = (before \o w)[l + k]
      BY <1>4, <3>1
    <3>3. (before \o w)[l + k] = w[k] /\ w[k] = c[k]
      BY <2>5, <2>6, <3>1
    <3> QED BY <3>2, <3>3
  <2>8. number = n
    <3>1. Parse32(b, l + 1) = n
      BY <1>1, <2>2, <2>7, Parse32Copy32 DEF c
    <3> QED BY <3>1 DEF number
  <2>9. (l + 1 + 4) + number - 1 > m
    BY <1>1, <2>2, <2>4, <2>8
  <2>10. Item(b, f, r) = [r EXCEPT !.inside = FALSE]
    BY <1>3, <2>1, <2>9
  <2> QED BY <1>2, <2>10 DEF r
<1> QED BY <1>5, <1>6

\* The items of a message of the server are data of deserialize.
LEMMA ServerData ==
  ASSUME NEW m, IsServerMessage(m)
  PROVE  \A i \in 1..Len(Format[m.header]) : m.payload[i] \in Datum
<1> DEFINE format == Format[m.header]
           n == Len(format)
           p == m.payload
<1>1. \A i \in 1..n : format[i] \in {"i", "s"}
  BY ServerHeader
<1>2. \A i \in 1..n : /\ format[i] = "i" => p[i] \in Word
                      /\ format[i] = "s" => p[i] \in Seq(Byte)
  BY ServerFields
<1> HIDE DEF format, n, p
<1>3. Word \subseteq Int
  BY DEF Word
<1> SUFFICES ASSUME NEW i \in 1..n PROVE p[i] \in Datum
  BY DEF n, format, p
<1>4. CASE format[i] = "i"
  BY <1>2, <1>3, <1>4 DEF Datum
<1>5. CASE format[i] = "s"
  BY <1>2, <1>5, ByteInt DEF Datum
<1> QED BY <1>1, <1>4, <1>5

\* Of a message of the server, whatever follows it, deserialize makes that
\* message; of a piece it makes nothing, for it reads beyond it.
LEMMA ServerReadsWhole ==
  ASSUME NEW m, IsServerMessage(m), NEW b \in Seq(Byte), NEW q, q = ServerBody(m), Agree(b, q)
  PROVE  deserialize(b) = IF Len(q) <= Len(b) THEN [header |-> m.header, payload |-> m.payload]
                          ELSE BeyondEnd
<1> DEFINE h == m.header
           format == Format[h]
           n == Len(format)
           p == m.payload
           s == Fields(m)
           x == FlattenSeq(s)
           e == Head8(h, 9 + Len(x))
           l == Len(b)
<1>1. h \in DOMAIN Format /\ h \in Word /\ n \in Nat /\ p = FirstOf(p, n)
  BY ServerHeader DEF FirstOf
<1>2. \A i \in 1..n : format[i] \in {"i", "s"}
  BY ServerHeader
<1>3. s \in Seq(Seq(Byte)) /\ Len(s) = n
  BY ServerFields
<1>4. \A i \in 1..n : s[i] = Field(format[i], p[i])
  BY ServerFields
<1>5. \A i \in 1..n : /\ format[i] = "i" => p[i] \in Word
                      /\ format[i] = "s" => p[i] \in Seq(Int) /\ Len(p[i]) \in Positive
  <2>1. \A i \in 1..n : /\ format[i] = "i" => p[i] \in Word
                        /\ format[i] = "s" => p[i] \in Seq(Byte) /\ Len(p[i]) \in Positive
    BY ServerFields
  <2> HIDE DEF format, n, p
  <2> QED BY <2>1, ByteInt
<1>6. \A i \in 1..n : p[i] \in Datum
  BY ServerData
<1>0. \A k \in 1..4 : e[k] = Copy32(h)[k]
  BY ServerBodyIs, SMTT(30)
<1>7. /\ e \in Seq(Byte) /\ Len(e) = 8
      /\ q = e \o x /\ q \in Seq(Byte) /\ Len(q) = 8 + Len(x) /\ Len(x) \in Nat
  BY ServerBodyIs, SMTT(30)
<1>8. l \in Nat
  BY LenProperties
<1> HIDE DEF format, n, p, s, e, h
<1>9. PICK flat \in [0..n -> Seq(Byte)] : Joins(flat, s, n) /\ x = flat[n]
  BY <1>3, Flattening
<1> HIDE DEF x
<1>10. \A i \in 1..n : s[i] \in Seq(Byte)
  BY <1>3, ElementOfSeq
<1>11. \A i \in 1..n : flat[i] = flat[i - 1] \o s[i]
  BY <1>9, Zenon DEF Joins
<1>12. \A i \in 0..n : BeginsWith(x, flat[i]) /\ flat[i] \in Seq(Byte)
  <2>1. \A i \in 0..n : BeginsWith(flat[n], flat[i])
    BY <1>1, <1>9, <1>10, FlatStarts
  <2> QED BY <1>9, <2>1
<1> DEFINE pre == [i \in 0..n |-> e \o flat[i]]
<1>13. ASSUME NEW i \in 0..n
       PROVE  /\ pre[i] \in Seq(Byte) /\ Len(pre[i]) \in Nat /\ Len(pre[i]) >= 8
              /\ BeginsWith(q, pre[i])
  <2> DEFINE y == flat[i]
             z == e \o y
  <2>1. y \in Seq(Byte) /\ BeginsWith(x, y) /\ x \in Seq(Byte)
    <3>1. n \in 0..n
      BY <1>1
    <3> QED BY <1>9, <1>12, <3>1
  <2>2. pre[i] = z
    OBVIOUS
  <2> HIDE DEF y, pre
  <2>3. z \in Seq(Byte) /\ Len(z) = Len(e) + Len(y) /\ Len(y) \in Nat
    BY <1>7, <2>1, Behind
  <2>4. PICK r \in Seq(Byte) : x = y \o r
    BY <2>1, StartsAndGoesOn
  <2>5. q = z \o r
    <3>1. e \in Seq(Byte) /\ y \in Seq(Byte) /\ r \in Seq(Byte)
      BY <1>7, <2>1, <2>4
    <3>2. (e \o y) \o r = e \o (y \o r)
      BY <3>1, BytesAssociative, SMTT(30)
    <3> QED BY <1>7, <2>4, <3>2
  <2>6. BeginsWith(q, z)
    BY <2>3, <2>4, <2>5, ConcatStarts
  <2>7. Len(z) \in Nat /\ Len(z) >= 8
    BY <1>7, <2>3
  <2> HIDE DEF z
  <2> QED BY <2>2, <2>3, <2>6, <2>7
<1>14. pre[0] = e /\ pre[n] = q
  <2>1. flat[0] = <<>>
    BY <1>9 DEF Joins
  <2>2. e \o <<>> = e
    BY <1>7, ConcatEmptySeq
  <2>3. 0 \in 0..n /\ n \in 0..n
    BY <1>1
  <2> QED BY <1>7, <1>9, <2>1, <2>2, <2>3
<1>15. \A i \in 1..n : pre[i] = pre[i - 1] \o s[i]
  <2> SUFFICES ASSUME NEW i \in 1..n PROVE pre[i] = pre[i - 1] \o s[i]
    OBVIOUS
  <2>1. i \in 0..n /\ i - 1 \in 0..n
    BY <1>1
  <2>2. pre[i] = e \o flat[i] /\ pre[i - 1] = e \o flat[i - 1]
    BY <2>1
  <2> HIDE DEF pre
  <2>3. flat[i - 1] \in Seq(Byte) /\ s[i] \in Seq(Byte)
    BY <1>10, <1>12, <2>1
  <2>4. (e \o flat[i - 1]) \o s[i] = e \o (flat[i - 1] \o s[i])
    <3> DEFINE y == flat[i - 1]
               z == s[i]
    <3>1. e \in Seq(Byte) /\ y \in Seq(Byte) /\ z \in Seq(Byte)
      BY <1>7, <2>3
    <3> HIDE DEF y, z
    <3>2. (e \o y) \o z = e \o (y \o z)
      BY <3>1, BytesAssociative, SMTT(30)
    <3> QED BY <3>2 DEF y, z
  <2> QED BY <1>11, <2>2, <2>4
<1> HIDE DEF pre, l
<1>16. CASE l < 8
  <2>1. deserialize(b) = BeyondEnd
    BY <1>16 DEF deserialize, l
  <2>2. ~ (Len(q) <= l)
    BY <1>7, <1>8, <1>16
  <2> QED BY <2>1, <2>2 DEF l
<1>17. CASE ~ (l < 8)
  <2>1. Parse32(b, 1) = h
    <3>1. \A k \in 1..4 : b[0 + k] = Copy32(h)[k]
      <4>1. BeginsWith(b, e)
        <5>1. BeginsWith(q, e) /\ e \in Seq(Byte)
          BY <1>7, <1>13, <1>14, <1>1
        <5>2. Len(e) <= Len(b)
          BY <1>7, <1>8, <1>17 DEF l
        <5> QED BY <1>7, <5>1, <5>2, AgreeStarts
      <4>2. \A k \in 1..4 : b[k] = e[k]
        BY <1>7, <4>1 DEF BeginsWith
      <4> QED BY <1>0, <4>2
    <3>2. Parse32(b, 0 + 1) = h
      <4>1. 0 \in Nat
        OBVIOUS
      <4> QED BY <1>1, <3>1, <4>1, Parse32Copy32
    <3> QED BY <3>2
  <2>2. PICK read \in [0..n -> Parser] :
           /\ read[0] = Behind8
           /\ \A i \in 1..n : read[i] = Item(b, format[i], read[i - 1])
           /\ deserialize(b) =
                IF Len(b) < 8 THEN BeyondEnd
                ELSE IF h \notin DOMAIN Format THEN Unknown
                ELSE IF ~ read[n].inside THEN BeyondEnd
                ELSE [header |-> h, payload |-> read[n].payload]
    <3>1. h = Parse32(b, 1) /\ format = Format[h] /\ Len(format) \in Nat
      BY <1>1, <2>1 DEF n, format
    <3>2. \E read \in [0..Len(format) -> Parser] : ReadsServer(b, h, format, read)
      BY <3>1, ServerReads, Zenon
    <3> QED BY <3>2 DEF n, ReadsServer
  <2> DEFINE P == {i \in 0..n :
                     /\ Len(pre[i]) <= l => read[i] = Place(pre[i], FirstOf(p, i))
                     /\ ~ (Len(pre[i]) <= l) => ~ read[i].inside}
  <2>3. 0 \in P
    <3>1. Len(pre[0]) <= l
      BY <1>7, <1>8, <1>14, <1>17
    <3>2. FirstOf(p, 0) = <<>>
      BY DEF FirstOf
    <3>3. read[0] = Place(pre[0], FirstOf(p, 0))
      <4>1. Place(e, <<>>) = Behind8
        BY <1>7 DEF Place, Behind8
      <4> QED BY <1>14, <2>2, <3>2, <4>1
    <3> QED BY <1>1, <3>1, <3>3
  <2>4. ASSUME NEW i \in 1..n, i - 1 \in P PROVE i \in P
    <3> DEFINE before == pre[i - 1]
               w == s[i]
               f == format[i]
               item == p[i]
               payload == FirstOf(p, i - 1)
               r == read[i - 1]
    <3>1. i \in 0..n /\ i - 1 \in 0..n
      BY <1>1
    <3>2. /\ before \in Seq(Int) /\ w \in Seq(Int) /\ w = Field(f, item) /\ f \in {"i", "s"}
          /\ Len(before) \in Nat /\ Len(w) \in Nat
      <4>1. before \in Seq(Byte) /\ w \in Seq(Byte)
        BY <1>10, <1>13, <3>1
      <4>2. w = Field(f, item) /\ f \in {"i", "s"}
        BY <1>2, <1>4
      <4> HIDE DEF before, w, f, item
      <4> QED BY <4>1, <4>2, ByteInt, LenProperties
    <3>3. /\ f = "i" => item \in Word
          /\ f = "s" => item \in Seq(Int) /\ Len(item) \in Positive
      BY <1>5
    <3>4. pre[i] = before \o w /\ Len(pre[i]) = Len(before) + Len(w)
      <4>1. pre[i] = before \o w
        BY <1>15
      <4> HIDE DEF before, w
      <4> QED BY <3>2, <4>1, Behind
    <3>5. read[i] = Item(b, f, r)
      BY <2>2, Zenon
    <3>6. Append(payload, item) = FirstOf(p, i)
      <4>1. p \in [1..n -> Datum]
        <5>1. p = [k \in 1..n |-> p[k]]
          BY <1>1, Zenon DEF FirstOf
        <5> QED BY <1>6, <5>1
      <4>2. Append(FirstOf(p, i - 1), p[i]) = FirstOf(p, i)
        <5>1. n \in Nat
          BY <1>1
        <5> QED BY <4>1, <5>1, FirstOfAppend, Zenon
      <4> QED BY <4>2
    <3>7. /\ Len(before) <= l => r = Place(before, payload)
          /\ ~ (Len(before) <= l) => ~ r.inside
      BY <2>4
    <3>8. b \in Seq(Int)
      BY ByteInt
    <3>9. /\ Len(pre[i]) <= Len(b) => BeginsWith(b, pre[i])
          /\ ~ (Len(pre[i]) <= Len(b)) => \A k \in 1..Len(b) : b[k] = pre[i][k]
      <4> DEFINE y == pre[i]
      <4>1. y \in Seq(Byte) /\ BeginsWith(q, y)
        BY <1>13, <3>1
      <4>2. Agree(b, q) /\ b \in Seq(Byte) /\ q \in Seq(Byte)
        BY <1>7
      <4> HIDE DEF y
      <4>3. /\ Len(y) <= Len(b) => BeginsWith(b, y)
            /\ ~ (Len(y) <= Len(b)) => \A k \in 1..Len(b) : b[k] = y[k]
        BY <4>1, <4>2, AgreeStarts
      <4> QED BY <4>3 DEF y
    <3> HIDE DEF before, w, f, item, payload, r, P
    <3>10. CASE ~ (Len(before) <= l)
      <4>1. ~ read[i].inside
        <5>1. read[i] = [r EXCEPT !.inside = FALSE]
          BY <3>5, <3>7, <3>10 DEF Item
        <5>2. r \in Parser
          BY <3>1 DEF r
        <5> QED BY <5>1, <5>2 DEF Parser
      <4>2. ~ (Len(pre[i]) <= l)
        BY <1>8, <3>2, <3>4, <3>10
      <4> QED BY <3>1, <4>1, <4>2 DEF P
    <3>11. CASE Len(before) <= l /\ Len(pre[i]) <= l
      <4>1. PICK after \in Seq(Byte) : b = pre[i] \o after
        <5>1. BeginsWith(b, pre[i]) /\ pre[i] \in Seq(Byte)
          BY <1>13, <3>1, <3>9, <3>11 DEF l
        <5> QED BY <5>1, StartsAndGoesOn
      <4>2. after \in Seq(Int)
        BY <4>1, ByteInt
      <4>3. Item((before \o Field(f, item)) \o after, f, Place(before, payload))
              = Place(before \o Field(f, item), Append(payload, item))
        BY <3>2, <3>3, <4>2, ItemReadsBack
      <4>4. b = (before \o Field(f, item)) \o after
        BY <3>2, <3>4, <4>1
      <4>5. read[i] = Place(pre[i], FirstOf(p, i))
        BY <3>2, <3>4, <3>5, <3>6, <3>7, <3>11, <4>3, <4>4
      <4> QED BY <3>1, <3>11, <4>5 DEF P
    <3>12. CASE Len(before) <= l /\ ~ (Len(pre[i]) <= l)
      <4>1. Len(before) <= Len(b) /\ Len(b) < Len(before) + Len(w)
        BY <1>8, <3>2, <3>4, <3>12 DEF l
      <4>2. \A k \in 1..Len(b) : b[k] = (before \o w)[k]
        BY <3>4, <3>9, <3>12 DEF l
      <4>3. ~ Item(b, f, Place(before, payload)).inside
        BY <3>2, <3>3, <3>8, <4>1, <4>2, ItemBeyond
      <4>4. ~ read[i].inside
        BY <3>5, <3>7, <3>12, <4>3
      <4> QED BY <3>1, <3>12, <4>4 DEF P
    <3> QED BY <3>10, <3>11, <3>12
  <2>5. n \in P
    <3>1. 0..n \subseteq P
      <4> HIDE DEF P
      <4> QED BY <1>1, <2>3, <2>4, Along
    <3> QED BY <1>1, <3>1
  <2>6. CASE Len(q) <= l
    <3>1. read[n] = Place(q, FirstOf(p, n))
      BY <1>14, <2>5, <2>6
    <3>2. read[n].inside /\ read[n].payload = p
      BY <1>1, <3>1 DEF Place
    <3>3. deserialize(b) = [header |-> h, payload |-> p]
      BY <1>1, <1>17, <2>2, <3>2 DEF l
    <3> QED BY <2>6, <3>3 DEF l, h, p
  <2>7. CASE ~ (Len(q) <= l)
    <3>1. ~ read[n].inside
      BY <1>14, <2>5, <2>7
    <3>2. deserialize(b) = BeyondEnd
      BY <1>1, <1>17, <2>2, <3>1 DEF l
    <3> QED BY <2>7, <3>2 DEF l
  <2> QED BY <2>6, <2>7
<1> QED BY <1>16, <1>17

\* A beginning of w, as SubSeq gives it.
LEMMA Beginning ==
  ASSUME NEW w \in Seq(Byte), NEW n \in Nat, n <= Len(w)
  PROVE  /\ SubSeq(w, 1, n) \in Seq(Byte) /\ Len(SubSeq(w, 1, n)) = n
         /\ \A k \in 1..n : SubSeq(w, 1, n)[k] = w[k]
<1>1. Len(w) \in Nat /\ 1 \in Int /\ n \in Int
  BY LenProperties
<1>2. \A k \in 1..n : w[k] \in Byte
  <2>1. \A k \in 1..n : k \in 1..Len(w)
    BY <1>1
  <2> QED BY <2>1, ElementOfSeq
<1> DEFINE v == SubSeq(w, 1, n)
<1>3. v \in Seq(Byte) /\ Len(v) = (IF 1 <= n THEN n - 1 + 1 ELSE 0)
      /\ \A k \in 1..(n - 1 + 1) : v[k] = w[1 + k - 1]
  BY <1>1, <1>2, SubSeqProperties
<1> HIDE DEF v
<1>4. Len(v) = n /\ \A k \in 1..n : v[k] = w[k]
  BY <1>1, <1>3
<1> QED BY <1>3, <1>4 DEF v

\* A piece of a message arrives as it was sent.
LEMMA PieceAgrees ==
  ASSUME NEW q \in Seq(Byte), NEW c \in Byte, NEW n \in 1..Len(q)
  PROVE  /\ SubSeq(Append(q, c), 1, n) \in Seq(Byte) /\ Agree(SubSeq(Append(q, c), 1, n), q)
         /\ Len(SubSeq(Append(q, c), 1, n)) = n
<1> DEFINE w == Append(q, c)
           b == SubSeq(w, 1, n)
<1>1. /\ w \in Seq(Byte) /\ Len(w) = Len(q) + 1 /\ \A k \in 1..Len(q) : w[k] = q[k]
  BY AppendProperties
<1>2. Len(q) \in Nat
  BY LenProperties
<1> HIDE DEF w
<1>3. n \in Nat /\ n <= Len(w) /\ n <= Len(q)
  BY <1>1, <1>2
<1>4. b \in Seq(Byte) /\ Len(b) = n /\ \A k \in 1..n : b[k] = w[k]
  BY <1>1, <1>3, Beginning
<1>5. \A k \in 1..n : k \in 1..Len(q)
  BY <1>2, <1>3
<1> HIDE DEF b
<1>6. Agree(b, q)
  BY <1>1, <1>4, <1>5 DEF Agree
<1> QED BY <1>4, <1>6 DEF b, w

\* So does a message with something behind it.
LEMMA MessageAgrees ==
  ASSUME NEW q \in Seq(Byte), NEW c \in Byte, NEW w, w = Append(q, c),
         NEW more \in Seq(Byte)
  PROVE  /\ w \in Seq(Byte) /\ Agree(w, q) /\ Len(q) <= Len(w)
         /\ w \o more \in Seq(Byte) /\ Agree(w \o more, q) /\ Len(q) <= Len(w \o more)
<1>1. /\ w \in Seq(Byte) /\ Len(w) = Len(q) + 1 /\ \A k \in 1..Len(q) : w[k] = q[k]
  BY AppendProperties
<1>2. Len(q) \in Nat /\ Len(w) \in Nat /\ Len(more) \in Nat
  BY <1>1, LenProperties
<1>3. w \o more \in Seq(Byte) /\ Len(w \o more) = Len(w) + Len(more)
  BY <1>1, Behind
<1>4. \A k \in 1..Len(w) : (w \o more)[k] = w[k]
  BY <1>1, Behind
<1>5. Agree(w, q)
  <2>1. \A k \in 1..Len(w) : k <= Len(q) => k \in 1..Len(q)
    BY <1>2
  <2> QED BY <1>1, <2>1 DEF Agree
<1> DEFINE v == w \o more
<1>6. v \in Seq(Byte) /\ Len(v) = Len(w) + Len(more) /\ \A k \in 1..Len(w) : v[k] = w[k]
  BY <1>3, <1>4
<1> HIDE DEF v
<1>7. Agree(v, q)
  <2>1. \A k \in 1..Len(v) : k <= Len(q) => k \in 1..Len(q) /\ k \in 1..Len(w)
    BY <1>1, <1>2, <1>6
  <2> QED BY <1>1, <1>6, <2>1 DEF Agree
<1>8. Len(q) <= Len(w) /\ Len(q) <= Len(v)
  BY <1>1, <1>2, <1>6
<1> QED BY <1>1, <1>5, <1>6, <1>7, <1>8 DEF v

\* The server reads back what the server wrote, whatever follows it in the
\* buffer: no message is confused with another, of any lengths.
THEOREM ServersReadBack == Spec => []ServerReadsBack
<1>1. Sound => ServerReadsBack
  <2> SUFFICES ASSUME Sound, server # Unread, maker = "server", fault \in {"none", "joined"}
               PROVE  Same(server)
    BY DEF ServerReadsBack
  <2> DEFINE w == serialize(message)
             q == ServerBody(message)
             c == Checksum(q)
  <2>1. IsServerMessage(message) /\ Whole = w /\ server = deserialize(bytes)
    BY DEF Sound, Made, Whole, WhatIsRead
  <2>2. w = Append(q, c) /\ q \in Seq(Byte) /\ c \in Byte /\ w \in Seq(Byte) /\ Len(w) \in Nat
    <3>1. w = Append(q, c) /\ q \in Seq(Byte) /\ c \in Byte /\ w \in Seq(Byte)
      BY <2>1, ServerBytes
    <3> HIDE DEF w
    <3> QED BY <3>1, LenProperties
  <2> HIDE DEF w, c
  <2>3. bytes \in Seq(Byte) /\ Agree(bytes, q) /\ Len(q) <= Len(bytes)
    <3> HIDE DEF q
    <3>1. CASE fault = "none"
      <4>1. bytes = w
        BY <2>1, <3>1 DEF Sound, Unharmed
      <4>2. <<>> \in Seq(Byte)
        BY EmptySeq
      <4> QED BY <2>2, <4>1, <4>2, MessageAgrees
    <3>2. CASE fault = "joined"
      <4>1. PICK n \in 1..Min({Len(w), MaxJoined}) : bytes = w \o SubSeq(w, 1, n)
        BY <2>1, <3>2 DEF Sound, Joined
      <4>2. n \in Nat /\ n <= Len(w)
        <5> DEFINE S == {Len(w), MaxJoined}
                   k == Min(S)
        <5>1. MaxJoined \in Nat
          BY MessagesAssumption
        <5>2. \E x \in S : \A y \in S : x =< y
          BY <2>2, <5>1
        <5> HIDE DEF S
        <5>3. k \in S /\ \A y \in S : k =< y
          BY <5>2, Zenon DEF Min
        <5>4. k \in Nat /\ k <= Len(w)
          BY <2>2, <5>1, <5>3 DEF S
        <5>5. n \in 1..k
          BY DEF S
        <5> HIDE DEF k
        <5> QED BY <2>2, <5>4, <5>5
      <4> DEFINE v == SubSeq(w, 1, n)
      <4>3. v \in Seq(Byte)
        BY <2>2, <4>2, Beginning
      <4>4. bytes = w \o v
        BY <4>1
      <4> HIDE DEF v
      <4> QED BY <2>2, <4>3, <4>4, MessageAgrees
    <3> QED BY <3>1, <3>2
  <2>4. deserialize(bytes) = [header |-> message.header, payload |-> message.payload]
    BY <2>1, <2>3, ServerReadsWhole
  <2> QED BY <2>1, <2>4 DEF Same
<1> QED BY <1>1, SoundHolds, PTL

\* Of every piece of a message that is short of more than the checksum the
\* server reads beyond what arrived; short of the checksum alone, the message
\* is read back.
THEOREM PiecesAreReadBeyond == Spec => []PieceIsReadBeyond
<1>1. Sound => PieceIsReadBeyond
  <2> SUFFICES ASSUME Sound, server # Unread, maker = "server", fault = "cut"
               PROVE  IF Len(bytes) = Len(Whole) - 1 THEN Same(server) ELSE server = BeyondEnd
    BY DEF PieceIsReadBeyond
  <2> DEFINE w == serialize(message)
             q == ServerBody(message)
             c == Checksum(q)
  <2>1. IsServerMessage(message) /\ Whole = w /\ server = deserialize(bytes)
    BY DEF Sound, Made, Whole, WhatIsRead
  <2>2. /\ w = Append(q, c) /\ q \in Seq(Byte) /\ c \in Byte
        /\ Len(q) \in Nat /\ Len(w) = Len(q) + 1
    BY <2>1, ServerBytes
  <2>3. \E n \in 1..(Len(w) - 1) : bytes = SubSeq(w, 1, n)
    BY <2>1 DEF Sound, Shortened
  <2> HIDE DEF w, c
  <2>4. PICK n \in 1..(Len(w) - 1) : bytes = SubSeq(w, 1, n)
    BY <2>3
  <2>5. bytes \in Seq(Byte) /\ Agree(bytes, q) /\ Len(bytes) = n
    <3> HIDE DEF q
    <3>1. n \in 1..Len(q) /\ bytes = SubSeq(Append(q, c), 1, n)
      BY <2>2, <2>4
    <3>2. /\ SubSeq(Append(q, c), 1, n) \in Seq(Byte) /\ Agree(SubSeq(Append(q, c), 1, n), q)
          /\ Len(SubSeq(Append(q, c), 1, n)) = n
      BY <2>2, <3>1, PieceAgrees, Zenon
    <3> QED BY <3>1, <3>2
  <2>6. deserialize(bytes) = IF Len(q) <= Len(bytes)
                             THEN [header |-> message.header, payload |-> message.payload]
                             ELSE BeyondEnd
    BY <2>1, <2>5, ServerReadsWhole
  <2> HIDE DEF q
  <2>7. Len(bytes) = Len(Whole) - 1 <=> Len(q) <= Len(bytes)
    BY <2>1, <2>2, <2>4, <2>5
  <2> QED BY <2>1, <2>6, <2>7 DEF Same
<1> QED BY <1>1, SoundHolds, PTL

-----------------------------------------------------------------------------

\* What the client reads.

\* No string of characters below 2048 is the garbled one.
LEMMA NoneGarbled == \A t \in Seq(Char) : t # Garbled
<1> SUFFICES ASSUME Garbled \in Seq(Char) PROVE FALSE
  OBVIOUS
<1>1. Len(Garbled) = 1 /\ Garbled[1] = 65533
  BY DEF Garbled
<1> HIDE DEF Garbled
<1>2. Garbled[1] \in Char
  <2>1. 1 \in 1..Len(Garbled)
    BY <1>1
  <2> QED BY <2>1, ElementOfSeq
<1> QED BY <1>1, <1>2 DEF Char

\* The client reads as many bytes of a string as it has characters; the string
\* they make is the one written if, and only if, that is ASCII.
LEMMA TextReadsBack ==
  ASSUME NEW t \in Text, NEW x, x = bytesToString(FirstOf(stringToBytes(t), Len(t)))
  PROVE  x = t <=> \A k \in 1..Len(t) : t[k] < 128
<1> DEFINE s == stringToBytes(t)
           n == Len(t)
           part == FirstOf(s, n)
           Is(u) == stringToBytes(u) = part
<1>1. Text \subseteq Seq(Char)
  BY TextAssumption DEF Char
<1>2. /\ s \in Seq(SByte) /\ Len(s) \in Nat /\ n \in Nat /\ n <= Len(s)
      /\ Len(s) = n => \A k \in 1..n : t[k] < 128
  BY <1>1, LengthOfText
<1>3. x = IF \E u \in Text : Is(u) THEN CHOOSE u \in Text : Is(u) ELSE Garbled
  BY DEF bytesToString
<1>4. x # Garbled => x \in Text /\ stringToBytes(x) = part
  <2>1. ASSUME NEW u \in Text, Is(u) PROVE (CHOOSE v \in Text : Is(v)) \in Text /\ Is(CHOOSE v \in Text : Is(v))
    <3> HIDE DEF Is
    <3> QED BY <2>1
  <2>2. x # Garbled => \E u \in Text : Is(u)
    BY <1>3
  <2>3. (\E u \in Text : Is(u)) => x \in Text /\ Is(x)
    <3> HIDE DEF Is
    <3> QED BY <1>3, <2>1
  <2> QED BY <2>2, <2>3
<1>5. (\E u \in Text : Is(u)) => x \in Text /\ stringToBytes(x) = part
  <2>1. ASSUME NEW u \in Text, Is(u) PROVE (CHOOSE v \in Text : Is(v)) \in Text /\ Is(CHOOSE v \in Text : Is(v))
    <3> HIDE DEF Is
    <3> QED BY <2>1
  <2>2. (\E u \in Text : Is(u)) => x \in Text /\ Is(x)
    <3> HIDE DEF Is
    <3> QED BY <1>3, <2>1
  <2> QED BY <2>2
<1>6. part \in Seq(SByte) /\ Len(part) = n /\ (n = Len(s) => part = s)
  <2> HIDE DEF s, n
  <2> QED BY <1>2, FirstOfIs
<1>7. ASSUME x = t PROVE \A k \in 1..n : t[k] < 128
  <2>1. t # Garbled
    BY <1>1, NoneGarbled
  <2>2. s = part
    BY <1>4, <1>7, <2>1
  <2>3. Len(s) = n
    BY <1>6, <2>2
  <2> QED BY <1>2, <2>3
<1>8. ASSUME \A k \in 1..n : t[k] < 128 PROVE x = t
  <2>1. s = t /\ t \in Seq(Char)
    BY <1>1, <1>8, AsciiText
  <2>2. part = t
    BY <1>6, <2>1
  <2>3. Is(t)
    BY <2>1, <2>2
  <2>4. x \in Text /\ stringToBytes(x) = t
    BY <1>5, <2>2, <2>3
  <2>5. x \in Seq(Char)
    BY <1>1, <2>4
  <2>6. \A k \in 1..Len(t) : t[k] \in Char
    BY <2>1, ElementOfSeq
  <2>7. \A k \in 1..Len(stringToBytes(x)) : stringToBytes(x)[k] >= 0
    <3>1. \A c \in Char : c >= 0
      BY DEF Char
    <3>2. \A k \in 1..Len(t) : t[k] >= 0
      BY <2>6, <3>1, Zenon
    <3>3. stringToBytes(x) = t
      BY <2>4
    <3> QED BY <3>2, <3>3, Zenon
  <2>8. \A k \in 1..Len(x) : x[k] < 128
    BY <2>5, <2>7, PositiveBytes
  <2>9. stringToBytes(x) = x
    BY <2>5, <2>8, AsciiText
  <2> QED BY <2>4, <2>9
<1> QED BY <1>7, <1>8

\* What makes an item one the client reads back.
FitsItem(type, item) ==
  IF type = "Integer" THEN item \in SByte ELSE \A k \in 1..Len(item) : item[k] < 128

\* An item was read: x, and what comes next is at end.
Moved(q, r, end, x) == q.error = "none" /\ q.pointer = end /\ q.payload = Append(r.payload, x)

\* bytesToPayload where nothing failed yet and the item is in the data.
LEMMA ReadItemInside ==
  ASSUME NEW b \in Seq(Int), NEW type, NEW r \in Reader, r.error = "none",
         NEW p, p = r.pointer, p + 4 <= Len(b)
  PROVE  /\ type = "Integer" => Moved(ReadItem(b, type, r), r, p + 4, b[p + 4])
         /\ type # "Integer" /\ b[p + 4] >= 0 =>
              Moved(ReadItem(b, type, r), r, (p + 4) + b[p + 4],
                    bytesToString(copyOfRange(b, p + 4, (p + 4) + b[p + 4])))
<1> DEFINE l == Len(b)
           number == b[p + 4]
           v == r.payload
           text == bytesToString(copyOfRange(b, p + 4, (p + 4) + number))
           q == ReadItem(b, type, r)
           moved(y, z) == [r EXCEPT !.pointer = y, !.payload = Append(v, z)]
<1>1. l \in Nat /\ p \in Nat /\ p + 4 <= l
  BY LenProperties DEF Reader
<1>2. bytesToInt(copyOfRange(b, p, p + 4)) = number
  BY <1>1, CopyIs
<1>3. number \in Int
  <2>1. p + 4 \in 1..Len(b)
    BY <1>1
  <2> HIDE DEF l
  <2> QED BY <2>1, ElementOfSeq
<1> HIDE DEF l, number
<1>4. ~ (p > l) /\ ~ (p + 4 > l) /\ (number >= 0 => ~ (number < 0))
  BY <1>1, <1>3
<1>5. /\ type = "Integer" => q = moved(p + 4, number)
      /\ type # "Integer" /\ number >= 0 =>
           q = moved((p + 4) + number, text)
  BY <1>2, <1>4 DEF ReadItem, l
<1> HIDE DEF text, q
<1>6. \A y, z : Moved(moved(y, z), r, y, z)
  BY DEF Reader, Moved
<1> HIDE DEF v, moved
<1>7. type = "Integer" => Moved(q, r, p + 4, number)
  BY <1>5, <1>6, Zenon
<1>8. type # "Integer" /\ number >= 0 => Moved(q, r, (p + 4) + number, text)
  BY <1>5, <1>6, Zenon
<1> QED BY <1>7, <1>8 DEF number, text, q

\* The bytes of a part of the data.
LEMMA CopyOfPart ==
  ASSUME NEW b, NEW part, NEW from \in Nat, NEW n \in Nat, from + n <= Len(b),
         \A i \in 1..n : b[from + i] = part[i], Len(b) \in Nat
  PROVE  copyOfRange(b, from, from + n) = FirstOf(part, n)
<1>1. (from + n) - from = n
  OBVIOUS
<1>2. \A i \in 1..n : from + i <= Len(b)
  OBVIOUS
<1>3. copyOfRange(b, from, from + n) = [i \in 1..n |-> IF from + i <= Len(b) THEN b[from + i] ELSE 0]
  BY <1>1 DEF copyOfRange
<1> QED BY <1>2, <1>3 DEF FirstOf

\* What the client reads of an item it wrote: the same item if, and only if,
\* it fits, and it is then behind it.
ReadsAs(q, r, type, item, end) ==
  /\ q.error = "none"
  /\ \E x \in Value : q.payload = Append(r.payload, x) /\ (x = item <=> FitsItem(type, item))
  /\ FitsItem(type, item) => q.pointer = end

\* A number is the byte it is written as if it is one.
LEMMA ByteFits == \A n \in Int : ToByte(n) = n <=> n \in SByte
BY SMT DEF ToByte, SByte

\* So it is with an int.
LEMMA IntegerRead ==
  ASSUME NEW item \in Int, NEW before \in Seq(SByte), NEW after \in Seq(SByte),
         NEW b \in Seq(Int), b = (before \o intToBytes(item)) \o after,
         NEW r \in Reader, r.error = "none", r.pointer = Len(before)
  PROVE  ReadsAs(ReadItem(b, "Integer", r), r, "Integer", item, Len(before) + 4)
<1> DEFINE w == intToBytes(item)
           l == Len(before)
           x == ToByte(item)
<1>1. w \in Seq(SByte) /\ Len(w) = 4 /\ w[4] = x /\ x \in SByte
  BY IntBytes
<1> HIDE DEF w
<1>2. before \in Seq(Int) /\ w \in Seq(Int) /\ after \in Seq(Int)
  BY <1>1, ByteInts
<1>3. /\ l \in Nat /\ Len(after) \in Nat /\ Len(b) = l + Len(w) + Len(after)
      /\ \A k \in 1..Len(w) : b[l + k] = w[k]
  BY <1>2, Middle DEF w
<1> HIDE DEF l
<1>4. l + 4 <= Len(b) /\ b[l + 4] = x
  BY <1>1, <1>3
<1> DEFINE q == ReadItem(b, "Integer", r)
<1>5. r.pointer = l
  BY DEF l
<1> HIDE DEF q
<1>6. q.error = "none" /\ q.pointer = l + 4 /\ q.payload = Append(r.payload, x)
  <2>1. Moved(q, r, l + 4, b[l + 4])
    BY <1>4, <1>5, ReadItemInside, Zenon DEF q
  <2> QED BY <1>4, <2>1 DEF Moved
<1>7. x = item <=> item \in SByte
  BY ByteFits
<1> HIDE DEF x
<1>8. x \in Value
  BY <1>1, Numbers DEF Value
<1>9. x = item <=> FitsItem("Integer", item)
  BY <1>7 DEF FitsItem
<1> QED BY <1>6, <1>8, <1>9 DEF ReadsAs, l, q

\* And with a string of fewer than 128 characters.
LEMMA StringRead ==
  ASSUME NEW item \in Text, Len(item) < 128,
         NEW before \in Seq(SByte), NEW after \in Seq(SByte),
         NEW w, w = intToBytes(Len(item)) \o stringToBytes(item),
         NEW b \in Seq(Int), b = (before \o w) \o after,
         NEW r \in Reader, r.error = "none", r.pointer = Len(before)
  PROVE  ReadsAs(ReadItem(b, "String", r), r, "String", item, Len(before) + Len(w))
<1> DEFINE n == Len(item)
           s == stringToBytes(item)
           c == intToBytes(n)
           l == Len(before)
           x == bytesToString(FirstOf(s, n))
<1>1. item \in Seq(Char)
  BY TextAssumption DEF Char
<1>2. /\ s \in Seq(SByte) /\ Len(s) \in Nat /\ n \in Nat /\ n <= Len(s)
      /\ Len(s) = n => \A k \in 1..n : item[k] < 128
  BY <1>1, LengthOfText
<1>3. x = item <=> \A k \in 1..n : item[k] < 128
  BY TextReadsBack
<1>4. c \in Seq(SByte) /\ Len(c) = 4 /\ c[4] = ToByte(n)
  BY <1>2, IntBytes
<1>5. n < 128
  OBVIOUS
<1>6. (\A k \in 1..n : item[k] < 128) => Len(s) = n
  <2>1. ASSUME \A k \in 1..n : item[k] < 128 PROVE s = item
    BY <1>1, <2>1, AsciiText
  <2> QED BY <2>1
<1>7. w = c \o s
  OBVIOUS
<1> HIDE DEF n, s, c, l, x
<1>8. c[4] = n
  <2>1. n \in Int /\ n \in SByte
    BY <1>2, <1>5 DEF SByte
  <2> QED BY <1>4, <2>1, ByteFits
<1>9. w \in Seq(SByte) /\ Len(w) = 4 + Len(s)
  <2>1. c \in Seq(SByte) /\ s \in Seq(SByte)
    BY <1>2, <1>4
  <2>2. c \o s \in Seq(SByte) /\ Len(c \o s) = Len(c) + Len(s)
    BY <2>1, Behind
  <2> QED BY <1>4, <1>7, <2>2
<1>10. /\ \A k \in 1..4 : w[k] = c[k]
       /\ \A k \in 1..Len(s) : w[4 + k] = s[k]
  <2>0. c \in Seq(SByte) /\ s \in Seq(SByte)
    BY <1>2, <1>4
  <2>1. \A k \in 1..Len(c) : (c \o s)[k] = c[k]
    BY <2>0, Behind
  <2>2. \A k \in 1..Len(s) : (c \o s)[Len(c) + k] = s[k]
    BY <2>0, Behind
  <2> QED BY <1>4, <1>7, <2>1, <2>2
<1>11. /\ l \in Nat /\ Len(after) \in Nat /\ Len(b) = l + Len(w) + Len(after)
       /\ \A k \in 1..Len(w) : b[l + k] = w[k]
  <2>1. before \in Seq(Int) /\ w \in Seq(Int) /\ after \in Seq(Int)
    BY <1>9, ByteInts
  <2> QED BY <2>1, Middle DEF l
<1>12. l + 4 \in Nat /\ l + 4 <= Len(b) /\ Len(b) \in Nat /\ (l + 4) + n <= Len(b)
  BY <1>2, <1>9, <1>11
<1>13. b[l + 4] = n
  <2>1. 4 \in 1..Len(w) /\ 4 \in 1..4
    BY <1>2, <1>9
  <2> QED BY <1>8, <1>10, <1>11, <2>1
<1>14. ASSUME NEW k \in 1..n PROVE b[(l + 4) + k] = s[k]
  <2>1. 4 + k \in 1..Len(w) /\ k \in 1..Len(s) /\ l + (4 + k) = (l + 4) + k
    BY <1>2, <1>9, <1>11
  <2>2. b[l + (4 + k)] = w[4 + k] /\ w[4 + k] = s[k]
    BY <1>10, <1>11, <2>1
  <2> QED BY <2>1, <2>2
<1>15. copyOfRange(b, l + 4, (l + 4) + n) = FirstOf(s, n)
  <2>1. \A k \in 1..n : b[(l + 4) + k] = s[k]
    BY <1>14
  <2>2. l + 4 \in Nat /\ n \in Nat /\ (l + 4) + n <= Len(b) /\ Len(b) \in Nat
    BY <1>2, <1>12
  <2> DEFINE from == l + 4
  <2> HIDE DEF from
  <2>3. /\ from \in Nat /\ n \in Nat /\ from + n <= Len(b) /\ Len(b) \in Nat
        /\ \A k \in 1..n : b[from + k] = s[k]
    BY <2>1, <2>2 DEF from
  <2>4. copyOfRange(b, from, from + n) = FirstOf(s, n)
    BY <2>3, CopyOfPart, ZenonT(90)
  <2> QED BY <2>4 DEF from
<1> DEFINE q == ReadItem(b, "String", r)
<1>16. r.pointer = l
  BY DEF l
<1> HIDE DEF q
<1>17. q.error = "none" /\ q.pointer = (l + 4) + n /\ q.payload = Append(r.payload, x)
  <2>1. "String" # "Integer" /\ b[l + 4] >= 0
    BY <1>2, <1>13
  <2>2. Moved(q, r, (l + 4) + b[l + 4], bytesToString(copyOfRange(b, l + 4, (l + 4) + b[l + 4])))
    <3>1. l + 4 <= Len(b)
      BY <1>12
    <3> QED BY <1>16, <2>1, <3>1, ReadItemInside, Zenon DEF q
  <2> QED BY <1>13, <1>15, <2>2 DEF x, Moved
<1>18. x \in Value
  BY StringIs DEF x
<1>19. x = item <=> FitsItem("String", item)
  BY <1>3 DEF FitsItem, n
<1>20. FitsItem("String", item) => (l + 4) + n = l + Len(w)
  <2>1. FitsItem("String", item) => \A k \in 1..n : item[k] < 128
    BY DEF FitsItem, n
  <2>2. FitsItem("String", item) => Len(s) = n
    BY <1>6, <2>1
  <2> DEFINE ls == Len(s)
             lw == Len(w)
  <2>3. ls \in Nat /\ n \in Nat /\ l \in Nat /\ lw = 4 + ls
    BY <1>2, <1>9, <1>11
  <2> HIDE DEF ls, lw
  <2>4. ls = n => (l + 4) + n = l + lw
    BY <2>3
  <2> QED BY <2>2, <2>4 DEF ls, lw
<1>21. /\ q.error = "none" /\ q.payload = Append(r.payload, x)
       /\ FitsItem("String", item) => q.pointer = l + Len(w)
  BY <1>17, <1>20
<1>22. \E y \in Value : q.payload = Append(r.payload, y) /\ (y = item <=> FitsItem("String", item))
  BY <1>18, <1>19, <1>21
<1> QED BY <1>21, <1>22 DEF ReadsAs, l, q

\* What was appended to what is known from what came of it.
LEMMA Appended ==
  ASSUME NEW s \in Seq(Value), NEW t \in Seq(Value), NEW x \in Value, NEW y \in Value,
         Append(s, x) = Append(t, y)
  PROVE  s = t /\ x = y
<1> DEFINE m == Len(s)
           n == Len(t)
           u == Append(s, x)
           v == Append(t, y)
<1>1. /\ m \in Nat /\ Len(u) = m + 1 /\ u[m + 1] = x /\ \A k \in 1..m : u[k] = s[k]
  BY AppendProperties
<1>2. /\ n \in Nat /\ Len(v) = n + 1 /\ v[n + 1] = y /\ \A k \in 1..n : v[k] = t[k]
  BY AppendProperties
<1>3. u = v
  OBVIOUS
<1> HIDE DEF u, v, m, n
<1>4. m = n
  BY <1>1, <1>2, <1>3
<1>5. x = y
  BY <1>1, <1>2, <1>3, <1>4
<1>6. \A k \in 1..m : s[k] = t[k]
  BY <1>1, <1>2, <1>3, <1>4
<1>7. s = t
  BY <1>4, <1>6, SeqEqual DEF m, n
<1> QED BY <1>5, <1>7

\* An item of the client, of either type, in fewer than 128 bytes.
LEMMA ClientItemRead ==
  ASSUME NEW type \in {"Integer", "String"}, NEW item, IsClientItem(type, item),
         NEW w, w = Written(type, item),
         NEW before \in Seq(SByte), NEW after \in Seq(SByte),
         NEW b \in Seq(SByte), b = (before \o w) \o after, Len(b) < 128,
         NEW r \in Reader, r.error = "none", r.pointer = Len(before)
  PROVE  ReadsAs(ReadItem(b, type, r), r, type, item, Len(before) + Len(w))
<1>1. b \in Seq(Int)
  BY ByteInts
<1>2. CASE type = "Integer"
  <2>1. item \in Int /\ w = intToBytes(item)
    BY <1>2 DEF IsClientItem, Written
  <2>2. Len(w) = 4
    BY <2>1, IntBytes
  <2>3. ReadsAs(ReadItem(b, "Integer", r), r, "Integer", item, Len(before) + 4)
    <3>1. b = (before \o intToBytes(item)) \o after
      BY <2>1
    <3> QED BY <1>1, <2>1, <3>1, IntegerRead, Zenon
  <2> QED BY <1>2, <2>2, <2>3
<1>3. CASE type = "String"
  <2>1. item \in Text /\ w = intToBytes(Len(item)) \o stringToBytes(item)
    BY <1>3 DEF IsClientItem, Written
  <2> DEFINE c == intToBytes(Len(item))
             s == stringToBytes(item)
             n == Len(item)
  <2>2. s \in Seq(SByte) /\ Len(s) \in Nat /\ n \in Nat /\ n <= Len(s)
    <3>1. item \in Seq(Char)
      BY <2>1, TextAssumption DEF Char
    <3> QED BY <3>1, LengthOfText
  <2>3. c \in Seq(SByte) /\ Len(c) = 4
    BY <2>2, IntBytes
  <2>4. w = c \o s
    BY <2>1
  <2> HIDE DEF c, s, n
  <2>5. w \in Seq(SByte) /\ Len(w) = 4 + Len(s)
    <3>1. c \o s \in Seq(SByte) /\ Len(c \o s) = Len(c) + Len(s)
      BY <2>2, <2>3, Behind, ZenonT(90)
    <3> QED BY <2>3, <2>4, <3>1
  <2>6. Len(b) = Len(before) + Len(w) + Len(after) /\ Len(before) \in Nat /\ Len(after) \in Nat
    <3>1. before \in Seq(Int) /\ w \in Seq(Int) /\ after \in Seq(Int)
      BY <2>5, ByteInts
    <3> QED BY <3>1, Middle
  <2>7. n < 128
    BY <2>2, <2>5, <2>6
  <2>8. ReadsAs(ReadItem(b, "String", r), r, "String", item, Len(before) + Len(w))
    <3>1. Len(item) < 128
      BY <2>7 DEF n
    <3> QED BY <1>1, <2>1, <3>1, StringRead, Zenon
  <2> QED BY <1>3, <2>8
<1> QED BY <1>2, <1>3

\* Where nothing failed, an item was read and nothing failed before.
LEMMA ReadMore ==
  ASSUME NEW b \in Seq(Int), NEW type, NEW r \in Reader, ReadItem(b, type, r).error = "none"
  PROVE  r.error = "none" /\ \E x \in Value : ReadItem(b, type, r).payload = Append(r.payload, x)
<1> DEFINE p == r.pointer
           number == bytesToInt(copyOfRange(b, p, p + 4))
           text == bytesToString(copyOfRange(b, p + 4, p + 4 + number))
           q == ReadItem(b, type, r)
<1>1. number \in Value /\ text \in Value
  <2>1. number \in Int
    <3>1. p \in Nat
      BY DEF Reader
    <3> HIDE DEF p
    <3> QED BY <3>1, CopyIs
  <2>2. text \in Value
    BY StringIs
  <2> QED BY <2>1, <2>2 DEF Value
<1> HIDE DEF text, number
<1>2. \/ q = r /\ r.error # "none"
      \/ q = [r EXCEPT !.error = "BadPayloadLength"]
      \/ q = [r EXCEPT !.error = "IllegalArgument"]
      \/ r.error = "none" /\ q = [r EXCEPT !.pointer = p + 4, !.payload = Append(@, number)]
      \/ r.error = "none" /\ q = [r EXCEPT !.pointer = p + 4 + number, !.payload = Append(@, text)]
  BY DEF ReadItem, number, text
<1>3. q.error = "none"
  OBVIOUS
<1> HIDE DEF q, p
<1>4. /\ [r EXCEPT !.error = "BadPayloadLength"].error = "BadPayloadLength"
      /\ [r EXCEPT !.error = "IllegalArgument"].error = "IllegalArgument"
  BY DEF Reader
<1>5. /\ [r EXCEPT !.pointer = p + 4, !.payload = Append(@, number)].payload = Append(r.payload, number)
      /\ [r EXCEPT !.pointer = p + 4 + number, !.payload = Append(@, text)].payload
           = Append(r.payload, text)
  BY DEF Reader
<1>6. r.error = "none" /\ (q.payload = Append(r.payload, number) \/ q.payload = Append(r.payload, text))
  BY <1>2, <1>3, <1>4, <1>5
<1> QED BY <1>1, <1>6 DEF q

\* The message is one the client reads back, its length apart.
AllFit(m, i) == \A j \in 1..i : FitsItem(PayloadTypes[m.header][j], m.payload[j])

\* bytesToPayload returns the payload if, and only if, every item fits.
LEMMA ClientReadsItems ==
  ASSUME NEW m, IsClientMessage(m), NEW b, b = FlattenSeq(ClientFields(m)), Len(b) < 128,
         NEW result, result = bytesToPayload(PayloadTypes[m.header], b)
  PROVE  result.error = "none" /\ result.payload = m.payload
           <=> AllFit(m, Len(PayloadTypes[m.header]))
<1> DEFINE types == PayloadTypes[m.header]
           n == Len(types)
           p == m.payload
           s == ClientFields(m)
           Fit(i) == AllFit(m, i)
<1>1. n \in Nat /\ (\A i \in 1..n : types[i] \in {"Integer", "String"}) /\ p = FirstOf(p, n)
      /\ DOMAIN types = 1..n
  BY ClientHeader DEF FirstOf
<1>2. s \in Seq(Seq(SByte)) /\ Len(s) = n
  BY ClientFieldsAre
<1>3. \A i \in 1..n : s[i] = Written(types[i], p[i])
  BY ClientFieldsAre
<1>4. \A i \in 1..n : IsClientItem(types[i], p[i])
  <2>1. \A i \in DOMAIN types : IsClientItem(types[i], p[i])
    BY Zenon DEF IsClientMessage
  <2> QED BY <1>1, <2>1
<1>5. \A i \in 1..n : p[i] \in Value
  BY <1>1, <1>4 DEF IsClientItem, Value
<1>6. /\ \A i \in 1..n : Fit(i) <=> Fit(i - 1) /\ FitsItem(types[i], p[i])
      /\ Fit(0)
  <2>1. Fit(0)
    BY DEF AllFit
  <2>2. ASSUME NEW i \in 1..n PROVE Fit(i) <=> Fit(i - 1) /\ FitsItem(types[i], p[i])
    <3>1. \A j : j \in 1..i <=> j \in 1..(i - 1) \/ j = i
      BY <1>1
    <3> QED BY <3>1, Zenon DEF AllFit
  <2> QED BY <2>1, <2>2
<1>7. b = FlattenSeq(s)
  OBVIOUS
<1>8. p \in [1..n -> Value]
  <2> HIDE DEF n, p
  <2>1. p = [k \in 1..n |-> p[k]]
    BY <1>1, Zenon DEF FirstOf
  <2> QED BY <1>5, <2>1
<1> HIDE DEF types, n, p, s, Fit
<1>9. PICK flat \in [0..n -> Seq(SByte)] : Joins(flat, s, n) /\ b = flat[n]
  BY <1>2, <1>7, Flattening
<1>10. \A i \in 1..n : s[i] \in Seq(SByte)
  BY <1>2, ElementOfSeq
<1>11. \A i \in 1..n : flat[i] = flat[i - 1] \o s[i]
  BY <1>9, Zenon DEF Joins
<1>12. n \in 0..n /\ b \in Seq(SByte) /\ Len(b) \in Nat /\ b \in Seq(Int)
  <2>1. n \in 0..n
    BY <1>1
  <2>2. b \in Seq(SByte)
    BY <1>9, <2>1
  <2> QED BY <2>1, <2>2, ByteInts, LenProperties
<1>13. \A i \in 0..n : BeginsWith(b, flat[i]) /\ flat[i] \in Seq(SByte)
  <2>1. \A i \in 0..n : BeginsWith(flat[n], flat[i])
    BY <1>1, <1>9, <1>10, FlatStarts
  <2> QED BY <1>9, <2>1
<1>14. PICK read \in [0..n -> Reader] :
         /\ read[0] = Start
         /\ \A i \in 1..n : read[i] = ReadItem(b, types[i], read[i - 1])
         /\ result = IF read[n].error = "none" /\ read[n].pointer # Len(b) /\ types # <<>>
                     THEN [read[n] EXCEPT !.error = "BadPayloadLength"] ELSE read[n]
  <2>1. Len(types) \in Nat
    BY <1>1 DEF n
  <2> QED BY <1>12, <2>1, Reads, ZenonT(30) DEF n, types
<1> DEFINE P == {i \in 0..n :
                   /\ Fit(i) => /\ read[i].error = "none" /\ read[i].payload = FirstOf(p, i)
                                /\ read[i].pointer = Len(flat[i])
                   /\ read[i].error = "none" /\ read[i].payload = FirstOf(p, i) => Fit(i)}
<1>15. 0 \in P
  <2>1. flat[0] = <<>> /\ FirstOf(p, 0) = <<>>
    BY <1>9 DEF Joins, FirstOf
  <2>2. Start.error = "none" /\ Start.payload = <<>> /\ Start.pointer = 0
    BY DEF Start
  <2> QED BY <1>1, <1>6, <1>14, <2>1, <2>2
<1>16. ASSUME NEW i \in 1..n, i - 1 \in P PROVE i \in P
  <2> DEFINE before == flat[i - 1]
             w == s[i]
             type == types[i]
             item == p[i]
             r == read[i - 1]
             q == read[i]
  <2>1. i \in 0..n /\ i - 1 \in 0..n
    BY <1>1
  <2>2. /\ before \in Seq(SByte) /\ w \in Seq(SByte) /\ type \in {"Integer", "String"}
        /\ w = Written(type, item) /\ IsClientItem(type, item) /\ item \in Value
        /\ r \in Reader /\ q \in Reader /\ flat[i] = before \o w /\ q = ReadItem(b, type, r)
        /\ (Fit(i) <=> Fit(i - 1) /\ FitsItem(type, item))
    <3>1. before \in Seq(SByte) /\ w \in Seq(SByte) /\ r \in Reader /\ q \in Reader
      BY <1>10, <2>1
    <3>2. q = ReadItem(b, type, r)
      BY <1>14, Zenon
    <3>3. flat[i] = before \o w
      BY <1>11
    <3>4. Fit(i) <=> Fit(i - 1) /\ FitsItem(type, item)
      BY <1>6
    <3> QED BY <1>1, <1>3, <1>4, <1>5, <3>1, <3>2, <3>3, <3>4
  <2>3. PICK after \in Seq(SByte) : b = flat[i] \o after
    <3>1. flat[i] \in Seq(SByte) /\ BeginsWith(b, flat[i])
      BY <1>13, <2>1
    <3> QED BY <1>12, <3>1, StartsAndGoesOn
  <2>4. Append(FirstOf(p, i - 1), item) = FirstOf(p, i) /\ FirstOf(p, i - 1) \in Seq(Value)
    <3>1. Append(FirstOf(p, i - 1), item) = FirstOf(p, i)
      <4>1. n \in Nat
        BY <1>1
      <4> QED BY <1>8, <4>1, FirstOfAppend, Zenon
    <3>2. FirstOf(p, i - 1) \in [1..(i - 1) -> Value]
      <4>1. \A k \in 1..(i - 1) : p[k] \in Value
        BY <1>1, <1>5
      <4> QED BY <4>1 DEF FirstOf
    <3> QED BY <2>1, <3>1, <3>2, SeqDef
  <2>5. /\ Fit(i - 1) => /\ r.error = "none" /\ r.payload = FirstOf(p, i - 1)
                         /\ r.pointer = Len(before)
        /\ r.error = "none" /\ r.payload = FirstOf(p, i - 1) => Fit(i - 1)
    BY <1>16
  <2>6. Len(flat[i]) = Len(before) + Len(w)
    BY <2>2, Behind
  <2> HIDE DEF before, w, type, item, r, q, P
  <2>7. ASSUME Fit(i - 1) PROVE ReadsAs(q, r, type, item, Len(before) + Len(w))
    <3>1. b = (before \o w) \o after /\ Len(b) < 128
      BY <2>2, <2>3
    <3>2. r.error = "none" /\ r.pointer = Len(before)
      BY <2>5, <2>7
    <3> QED BY <1>12, <2>2, <2>3, <3>1, <3>2, ClientItemRead
  <2>8. ASSUME Fit(i)
        PROVE  q.error = "none" /\ q.payload = FirstOf(p, i) /\ q.pointer = Len(flat[i])
    <3>1. Fit(i - 1) /\ FitsItem(type, item)
      BY <2>2, <2>8
    <3>2. PICK x \in Value : q.payload = Append(r.payload, x) /\ (x = item <=> FitsItem(type, item))
      BY <2>7, <3>1 DEF ReadsAs
    <3>3. q.error = "none" /\ q.pointer = Len(before) + Len(w)
      BY <2>7, <3>1 DEF ReadsAs
    <3> QED BY <2>4, <2>5, <2>6, <3>1, <3>2, <3>3
  <2>9. ASSUME q.error = "none", q.payload = FirstOf(p, i) PROVE Fit(i)
    <3>1. r.error = "none" /\ \E x \in Value : q.payload = Append(r.payload, x)
      <4>1. r \in Reader /\ q = ReadItem(b, type, r)
        BY <2>2
      <4>2. ReadItem(b, type, r).error = "none"
        BY <2>9, <4>1
      <4> QED BY <1>12, <4>1, <4>2, ReadMore, Zenon
    <3>2. PICK x \in Value : q.payload = Append(r.payload, x)
      BY <3>1
    <3>3. r.payload = FirstOf(p, i - 1)
      <4>1. r.payload \in Seq(Value)
        BY <2>2 DEF Reader
      <4>2. Append(r.payload, x) = Append(FirstOf(p, i - 1), item)
        BY <2>4, <2>9, <3>2
      <4>3. item \in Value /\ FirstOf(p, i - 1) \in Seq(Value)
        BY <2>2, <2>4
      <4> QED BY <4>1, <4>2, <4>3, Appended, Zenon
    <3>4. Fit(i - 1)
      BY <2>5, <3>1, <3>3
    <3>5. PICK y \in Value : q.payload = Append(r.payload, y) /\ (y = item <=> FitsItem(type, item))
      BY <2>7, <3>4 DEF ReadsAs
    <3>6. y = item
      <4>1. r.payload \in Seq(Value)
        BY <2>2 DEF Reader
      <4> DEFINE o == r.payload
                 a == FirstOf(p, i - 1)
      <4>2. Append(o, y) = Append(a, item)
        BY <2>4, <2>9, <3>5
      <4>3. item \in Value /\ a \in Seq(Value) /\ o \in Seq(Value)
        BY <2>2, <2>4, <4>1
      <4> HIDE DEF o, a
      <4> QED BY <4>2, <4>3, Appended
    <3> QED BY <2>2, <3>4, <3>5, <3>6
  <2> QED BY <2>1, <2>8, <2>9 DEF P, q
<1>17. n \in P
  <2>1. 0..n \subseteq P
    <3> HIDE DEF P
    <3> QED BY <1>1, <1>15, <1>16, Along
  <2> QED BY <1>12, <2>1
<1>18. Fit(n) => result.error = "none" /\ result.payload = p
  BY <1>1, <1>9, <1>14, <1>17
<1>19. ASSUME result.error = "none", result.payload = p PROVE Fit(n)
  <2>1. read[n] \in Reader
    BY <1>12
  <2>2. [read[n] EXCEPT !.error = "BadPayloadLength"].error = "BadPayloadLength"
    BY <2>1 DEF Reader
  <2>3. result = read[n]
    BY <1>14, <1>19, <2>2
  <2> QED BY <1>1, <1>17, <1>19, <2>3
<1> QED BY <1>18, <1>19 DEF Fit, n, types, p

\* Between its first eight bytes and its checksum is the payload.
LEMMA PayloadOf ==
  ASSUME NEW m, IsClientMessage(m), NEW w, w = serializeMessage(m),
         NEW f, f = FlattenSeq(ClientFields(m))
  PROVE  SubSeq(w, 9, Len(w) - 1) = f
<1> DEFINE e == ClientHead(m.header, 9 + Len(f))
           b == ClientBody(m)
           c == countCheckSum(b)
<1>1. /\ f \in Seq(SByte) /\ Len(f) \in Nat /\ e \in Seq(SByte) /\ Len(e) = 8
      /\ b = e \o f /\ b \in Seq(SByte) /\ Len(b) = 8 + Len(f)
  BY ClientBodyIs
<1>2. w = Append(b, c) /\ c \in SByte /\ Len(w) = Len(b) + 1
  BY ClientBytes
<1> HIDE DEF e, b, c
<1>3. w = (e \o f) \o <<c>>
  <2>1. b \in Seq(SByte) /\ c \in SByte
    BY <1>1, <1>2
  <2>2. Append(b, c) = b \o <<c>>
    BY <2>1, AppendIsConcat
  <2> QED BY <1>1, <1>2, <2>2
<1>4. e \in Seq(Int) /\ f \in Seq(Int) /\ <<c>> \in Seq(Int)
  <2>1. c \in Int
    BY <1>2, Numbers
  <2> QED BY <1>1, <2>1, ByteInts
<1>5. SubSeq((e \o f) \o <<c>>, Len(e) + 1, Len(e) + Len(f)) = f
  BY <1>4, MiddleWhole
<1>6. Len(e) + 1 = 9 /\ Len(e) + Len(f) = Len(w) - 1
  BY <1>1, <1>2
<1> QED BY <1>3, <1>5, <1>6

\* What the client makes of a message it wrote.
LEMMA ClientParses ==
  ASSUME NEW m, IsClientMessage(m), NEW w, w = serializeMessage(m),
         NEW f, f = FlattenSeq(ClientFields(m)),
         NEW r, r = bytesToPayload(PayloadTypes[m.header], f)
  PROVE  Parsed(w) = IF ~ (Len(w) < 128) THEN Throws("BadLength")
                     ELSE IF r.error # "none" THEN Throws(r.error)
                     ELSE [thrown |-> "none", header |-> m.header, payload |-> r.payload]
<1> DEFINE l == Len(w)
           h == m.header
<1>1. /\ w \in Seq(SByte) /\ l \in Nat /\ l >= 9 /\ w[8] = ToByte(l) /\ w[4] = h /\ Sum(w) = 0
  BY ClientWhole
<1>2. h \in DOMAIN PayloadTypes
  BY ClientHeader
<1>3. WrongSize(w) <=> ~ (l < 128)
  <2>1. WrongSize(w) <=> l # w[8]
    BY <1>1, SizeIs
  <2>2. l # ToByte(l) <=> ~ (l < 128)
    <3> HIDE DEF l
    <3>1. l \in Int /\ (l \in SByte <=> l < 128)
      BY <1>1 DEF SByte
    <3>2. ToByte(l) = l <=> l \in SByte
      BY <3>1, ByteFits
    <3> QED BY <3>1, <3>2
  <2> QED BY <1>1, <2>1, <2>2
<1>4. bytesToInt(SubSeq(w, 1, 4)) = h
  <2>1. \A k \in 1..4 : w[k] \in SByte
    <3>1. \A k \in 1..4 : k \in 1..Len(w)
      BY <1>1
    <3> QED BY <1>1, <3>1, ElementOfSeq
  <2>2. \A i \in 1..(4 - 1 + 1) : SubSeq(w, 1, 4)[i] = w[1 + i - 1]
    <3>1. 1 \in Int /\ 4 \in Int
      OBVIOUS
    <3> QED BY <2>1, <3>1, SubSeqProperties
  <2>3. 4 \in 1..(4 - 1 + 1) /\ 1 + 4 - 1 = 4
    OBVIOUS
  <2>4. SubSeq(w, 1, 4)[4] = w[4]
    BY <2>2, <2>3
  <2> QED BY <1>1, <2>4 DEF bytesToInt
<1>5. SubSeq(w, 9, Len(w) - 1) = f
  BY PayloadOf
<1>6. ~ (Len(w) < 9)
  BY <1>1
<1>7. r = bytesToPayload(PayloadTypes[h], f)
  OBVIOUS
<1> HIDE DEF h
<1>8. Parsed(w) = IF WrongSize(w) THEN Throws("BadLength")
                  ELSE IF r.error # "none" THEN Throws(r.error)
                  ELSE [thrown |-> "none", header |-> h, payload |-> r.payload]
  BY <1>1, <1>2, <1>4, <1>5, <1>6, <1>7 DEF Parsed
<1> QED BY <1>3, <1>8 DEF h

\* Fits speaks of the message in its own words.
LEMMA FitsIs ==
  ASSUME NEW m, IsClientMessage(m)
  PROVE  Fits(m) <=> AllFit(m, Len(PayloadTypes[m.header])) /\ Len(serializeMessage(m)) < 128
<1> DEFINE types == PayloadTypes[m.header]
           n == Len(types)
           p == m.payload
<1>1. n \in Nat /\ p = [i \in 1..n |-> p[i]] /\ \A i \in 1..n : types[i] \in {"Integer", "String"}
  BY ClientHeader
<1>2. \A i \in 1..n : types[i] = "String" => p[i] \in Seq(Char)
  BY ClientFieldsAre
<1>3. Fits(m) <=> /\ \A i \in DOMAIN p : IF types[i] = "Integer" THEN p[i] \in SByte
                                         ELSE \A k \in DOMAIN p[i] : p[i][k] < 128
                  /\ Len(serializeMessage(m)) < 128
  BY DEF Fits, SByte
<1>4. AllFit(m, n) <=> \A i \in 1..n : FitsItem(types[i], p[i])
  BY DEF AllFit
<1> HIDE DEF types, n, p
<1>5. DOMAIN p = 1..n
  BY <1>1
<1>6. ASSUME NEW i \in 1..n
      PROVE  (IF types[i] = "Integer" THEN p[i] \in SByte
              ELSE \A k \in DOMAIN p[i] : p[i][k] < 128) <=> FitsItem(types[i], p[i])
  <2>1. CASE types[i] = "Integer"
    BY <2>1 DEF FitsItem
  <2>2. CASE types[i] # "Integer"
    <3>1. p[i] \in Seq(Char)
      BY <1>1, <1>2, <2>2
    <3>2. DOMAIN p[i] = 1..Len(p[i])
      BY <3>1, LenProperties
    <3> QED BY <2>2, <3>2 DEF FitsItem
  <2> QED BY <2>1, <2>2
<1>7. Fits(m) <=> AllFit(m, n) /\ Len(serializeMessage(m)) < 128
  BY <1>3, <1>4, <1>5, <1>6, Zenon
<1> QED BY <1>7 DEF n, types

\* The client reads back what it wrote if, and only if, every number fits in a
\* byte, every string is ASCII and the message is shorter than 128 bytes: of
\* any header, with any int and any string.
THEOREM ClientsReadBack == Spec => []ClientReadsBack
<1>1. Sound => ClientReadsBack
  <2> SUFFICES ASSUME Sound, ClientRead, maker = "client", fault = "none"
               PROVE  Taken /\ Same(client) <=> Fits(message)
    BY DEF ClientReadsBack
  <2> DEFINE w == serializeMessage(message)
             f == FlattenSeq(ClientFields(message))
             types == PayloadTypes[message.header]
             r == bytesToPayload(types, f)
             l == Len(w)
  <2>1. IsClientMessage(message) /\ bytes = Unsigned(w)
    BY DEF Sound, Made, Whole, Unharmed
  <2>2. w \in Seq(SByte) /\ l \in Nat /\ l = 9 + Len(f) /\ Len(f) \in Nat
    <3>1. w \in Seq(SByte) /\ l \in Nat /\ l = 9 + Len(f)
      BY <2>1, ClientWhole
    <3>2. Len(f) \in Nat
      BY <2>1, ClientBodyIs
    <3> QED BY <3>1, <3>2
  <2>3. Signed(bytes) = w
    <3> HIDE DEF w
    <3> QED BY <2>1, <2>2, SignedUnsigned
  <2>4. client = Parsed(w)
    <3>1. client # Throws("unread")
      BY DEF ClientRead, Throws
    <3>2. client = Parsed(Signed(bytes))
      BY <3>1 DEF Sound, WhatIsRead
    <3> QED BY <2>3, <3>2
  <2>5. Parsed(w) = IF ~ (l < 128) THEN Throws("BadLength")
                    ELSE IF r.error # "none" THEN Throws(r.error)
                    ELSE [thrown |-> "none", header |-> message.header, payload |-> r.payload]
    BY <2>1, ClientParses
  <2>6. Fits(message) <=> AllFit(message, Len(types)) /\ l < 128
    BY <2>1, FitsIs
  <2>7. Len(f) < 128 =>
          (r.error = "none" /\ r.payload = message.payload <=> AllFit(message, Len(types)))
    BY <2>1, ClientReadsItems
  <2> HIDE DEF w, f, types, r
  <2>8. CASE ~ (l < 128)
    <3>1. client.thrown = "BadLength"
      BY <2>4, <2>5, <2>8 DEF Throws
    <3> QED BY <2>6, <2>8, <3>1 DEF Taken
  <2>9. CASE l < 128
    <3>1. Len(f) < 128
      BY <2>2, <2>9
    <3>2. CASE r.error # "none"
      <4>1. client.thrown = r.error
        BY <2>4, <2>5, <2>9, <3>2 DEF Throws
      <4> QED BY <2>6, <2>7, <3>1, <3>2, <4>1 DEF Taken
    <3>3. CASE r.error = "none"
      <4>1. client.thrown = "none" /\ client.header = message.header /\ client.payload = r.payload
        BY <2>4, <2>5, <2>9, <3>3
      <4> QED BY <2>6, <2>7, <2>9, <3>1, <3>3, <4>1 DEF Taken, Same
    <3> QED BY <3>2, <3>3
  <2> QED BY <2>8, <2>9
<1> QED BY <1>1, SoundHolds, PTL
=============================================================================
