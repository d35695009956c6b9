--------------------------- MODULE JavaSerializer ---------------------------
(***************************************************************************)
(* MessageSerializer and DataSerializer of the Java client.  A Java byte   *)
(* is -128..127.  An int is written as one byte and read as one signed     *)
(* byte ("TODO: dodelat": to be completed); the size of a message and the  *)
(* length of a string are such ints.                                       *)
(***************************************************************************)
EXTENDS Integers, SequencesExt

CONSTANT Text    \* the strings of this instance: sequences of characters

\* Of characters that take no more than two bytes.
ASSUME TextAssumption == \A t \in Text : t \in Seq(0..2047)

\* MessageType: the payload of each header.
PayloadTypes ==
  [h \in {1, 101, 102, 103, 104, 105} |->
     CASE h = 101 -> <<"Integer">>  [] h = 102 -> <<"Integer", "Integer">>
       [] h = 103 -> <<"String">>   [] h = 104 -> <<"String", "String">>
       [] h = 105 -> <<"String", "Integer">>
       [] OTHER   -> <<>>]

\* (byte) n, and n % 128 in Java, which has the sign of n; n is the sum of a
\* remainder and a byte.  A mutant: n % 64.
ToByte(n) == ((n + 128) % 256) - 128
Rem_Of64 == [n \in -255..255 |-> IF n < 0 THEN -((-n) % 64) ELSE n % 64]
Rem == [n \in -255..255 |-> IF n < 0 THEN -((-n) % 128) ELSE n % 128]

\* intToBytes and bytesToInt.
\* A mutant: the byte is read as an unsigned one.
bytesToInt_Unsigned(bytes) == bytes[4] % 256
intToBytes(n) == <<0, 0, 0, ToByte(n)>>
bytesToInt(bytes) == bytes[4]

\* String.getBytes in UTF-8: a character above 127 takes two bytes.
CharBytes(c) == IF c < 128 THEN <<c>> ELSE <<ToByte(192 + (c \div 64)), ToByte(128 + (c % 64))>>
stringToBytes(s) == FlattenSeq([i \in DOMAIN s |-> CharBytes(s[i])])

\* new String(bytes): a string of the instance, or one with a replacement
\* character where the bytes are no character.
Garbled == <<65533>>
bytesToString(bytes) ==
  IF \E s \in Text : stringToBytes(s) = bytes
  THEN CHOOSE s \in Text : stringToBytes(s) = bytes ELSE Garbled

-----------------------------------------------------------------------------

\* payloadToBytes, one item.  The length is that of the characters.
Written(type, item) ==
  IF type = "Integer" THEN intToBytes(item) ELSE intToBytes(Len(item)) \o stringToBytes(item)

\* The sum that countCheckSum and checkChecksum keep.
Sum(bytes) ==
  LET sum[i \in 0..Len(bytes)] == IF i = 0 THEN 0 ELSE Rem[sum[i - 1] + bytes[i]]
  IN  sum[Len(bytes)]

\* countCheckSum: what brings the sum of the message to a multiple of 128.
countCheckSum(bytes) == ToByte(128 - Sum(bytes))

serializeMessage(m) ==
  LET types == PayloadTypes[m.header]
      payload == FlattenSeq([i \in DOMAIN types |-> Written(types[i], m.payload[i])])
      body == intToBytes(m.header) \o intToBytes(9 + Len(payload)) \o payload
  IN  Append(body, countCheckSum(body))

-----------------------------------------------------------------------------
(* checkMessage, initMessage and deserializeMessage: the message, or what  *)
(* was thrown.                                                             *)

Throws(e) == [thrown |-> e, header |-> 0, payload |-> <<>>]

\* checkTotalSize.  A mutant: a message may be longer than it says.
WrongSize_Longer(bytes) == Len(bytes) < bytesToInt(SubSeq(bytes, 5, 8))
WrongSize(bytes) == Len(bytes) # bytesToInt(SubSeq(bytes, 5, 8))

\* Arrays.copyOfRange(b, from, to) where 0 <= from <= Len(b): zeros follow
\* the end.
copyOfRange(b, from, to) ==
  [i \in 1..(to - from) |-> IF from + i <= Len(b) THEN b[from + i] ELSE 0]

\* bytesToPayload, one item: r.pointer is where it starts.
ReadItem(b, type, r) ==
  LET number == bytesToInt(copyOfRange(b, r.pointer, r.pointer + 4))
      text == r.pointer + 4
      Fails(e) == [r EXCEPT !.error = e]
  IN  IF r.error # "none" THEN r
      ELSE IF r.pointer > Len(b) THEN Fails("BadPayloadLength")
      ELSE IF type = "Integer"
           THEN [r EXCEPT !.pointer = text, !.payload = Append(@, number)]
      ELSE IF text > Len(b) THEN Fails("BadPayloadLength")
      ELSE IF number < 0 THEN Fails("IllegalArgument")
      ELSE [r EXCEPT !.pointer = text + number,
                     !.payload = Append(@, bytesToString(copyOfRange(b, text, text + number)))]

bytesToPayload(types, b) ==
  LET read[i \in 0..Len(types)] ==
        IF i = 0 THEN [pointer |-> 0, payload |-> <<>>, error |-> "none"]
        ELSE LET r == read[i - 1] IN ReadItem(b, types[i], r)
      r == read[Len(types)]
  IN  IF r.error = "none" /\ r.pointer # Len(b) /\ types # <<>>
      THEN [r EXCEPT !.error = "BadPayloadLength"] ELSE r

Parsed(bytes) ==
  LET header == bytesToInt(SubSeq(bytes, 1, 4))
      r == bytesToPayload(PayloadTypes[header], SubSeq(bytes, 9, Len(bytes) - 1))
  IN  IF Len(bytes) < 9 THEN Throws("TooShort")
      ELSE IF WrongSize(bytes) THEN Throws("BadLength")
      ELSE IF Sum(bytes) # 0 THEN Throws("BadCheckSum")
      ELSE IF header \notin DOMAIN PayloadTypes THEN Throws("BadHeader")
      ELSE IF r.error # "none" THEN Throws(r.error)
      ELSE [thrown |-> "none", header |-> header, payload |-> r.payload]
=============================================================================
