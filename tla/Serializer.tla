----------------------------- MODULE Serializer -----------------------------
(***************************************************************************)
(* Serializer: a Message as the bytes of a packet, and back.  A packet is  *)
(*   header (4), size (4), the payload by its format, checksum (1).        *)
(* Bytes are 0..255 and a string is the sequence of its bytes.             *)
(***************************************************************************)
EXTENDS Integers, SequencesExt

\* fillMapWithValues: i is a number, s a string.  Headers of clients are
\* below 2^16, those of the server above.
Format ==
  LET FromServer(k) == 65536 + k
      Headers == {0, 1, 2, 3, 4, 5, 6, 9, 11, 12, 14}
                   \cup {FromServer(k) : k \in {0, 1, 2, 7, 8, 10, 13, 15, 16, 17, 18, 19}}
  IN  [h \in Headers |->
         CASE h \in {3, 4, 9}          -> <<"s">>                 \* NEW_PL, PL_RECONN, JOIN_PLAYER
           [] h = 14                   -> <<"i", "i", "i">>       \* GAME_MOVE
           [] h = FromServer(7)        -> <<"i", "s">>            \* PL_LIST_ANS
           [] h \in {FromServer(8), FromServer(10)} -> <<"s">>    \* NACK_REAS, JOIN_PLAYER
           [] h = FromServer(13)       -> <<"s", "s">>            \* GAME_START
           [] h = FromServer(15)       -> <<"i", "i", "i">>       \* GAME_MOVE
           [] h = FromServer(16)       -> <<"s", "i", "i", "i">>  \* GAME_WON
           [] h = FromServer(19)       -> <<"s", "s", "s">>       \* GAME_CON
           [] OTHER                    -> <<>>]                   \* NACK, ACK, PING, ...

\* copy32intToPlace and parse32intFromArray.  A mutant: the two middle bytes
\* are swapped.
Parse32_Swapped(b, i) == b[i] * 16777216 + b[i + 2] * 65536 + b[i + 1] * 256 + b[i + 3]
Copy32(n) == << (n \div 16777216) % 256, (n \div 65536) % 256, (n \div 256) % 256, n % 256 >>
Parse32(b, i) == b[i] * 16777216 + b[i + 1] * 65536 + b[i + 2] * 256 + b[i + 3]

\* countAndPlaceChecksum.  A mutant: the complement, as the Java client has it.
Checksum_Complement(bytes) ==
  LET sum[i \in 0..Len(bytes)] == IF i = 0 THEN 0 ELSE (sum[i - 1] + bytes[i]) % 128
  IN  (128 - sum[Len(bytes)]) % 128
Checksum(bytes) ==
  LET sum[i \in 0..Len(bytes)] == IF i = 0 THEN 0 ELSE (sum[i - 1] + bytes[i]) % 128
  IN  sum[Len(bytes)]

\* putDataToMessage, one item.  A mutant: a terminator is counted.
Field_Terminated(f, item) ==
  IF f = "i" THEN Copy32(item) ELSE Copy32(Len(item) + 1) \o item
Field(f, item) == IF f = "i" THEN Copy32(item) ELSE Copy32(Len(item)) \o item

serialize(m) ==
  LET format == Format[m.header]
      payload == FlattenSeq([i \in DOMAIN format |-> Field(format[i], m.payload[i])])
      \* prepareEmptyPacket
      packet == Copy32(m.header) \o Copy32(9 + Len(payload)) \o payload
  IN  Append(packet, Checksum(packet))

-----------------------------------------------------------------------------
(* deserialize: what lies behind the end of the data is whatever the heap  *)
(* holds there.  Size and checksum are not looked at.                      *)

Unknown == [header |-> -1, payload |-> <<>>]     \* nullptr
BeyondEnd == [header |-> -2, payload |-> <<>>]   \* memory that is not the packet's

\* One item of the format, read at r.index.  The code keeps the length of a
\* string in an int; lengths of 2^31 and more are beyond the packets here.
Item(b, f, r) ==
  LET text == r.index + 4
      number == Parse32(b, r.index)
  IN  IF ~r.inside \/ text - 1 > Len(b) THEN [r EXCEPT !.inside = FALSE]
      ELSE IF f = "i" THEN [r EXCEPT !.index = text, !.payload = Append(@, number)]
      ELSE IF text + number - 1 > Len(b) THEN [r EXCEPT !.inside = FALSE]
      ELSE [r EXCEPT !.index = text + number,
                     !.payload = Append(@, SubSeq(b, text, text + number - 1))]

deserialize(b) ==
  LET header == Parse32(b, 1)
      format == Format[header]
      read[i \in 0..Len(format)] ==
        IF i = 0 THEN [index |-> 9, payload |-> <<>>, inside |-> TRUE]
        ELSE LET r == read[i - 1] IN Item(b, format[i], r)
      end == read[Len(format)]
  IN  IF Len(b) < 8 THEN BeyondEnd
      ELSE IF header \notin DOMAIN Format THEN Unknown
      ELSE IF ~end.inside THEN BeyondEnd
      ELSE [header |-> header, payload |-> end.payload]
=============================================================================
