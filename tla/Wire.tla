-------------------------------- MODULE Wire --------------------------------
(***************************************************************************)
(* One message between the serializers of the server and of the Java       *)
(* client, over a connection that is a stream of bytes: recv() and read()  *)
(* may return a piece of a message, or a message and a piece of the next.  *)
(* A byte may also be altered, which is what the checksum is for.          *)
(***************************************************************************)
EXTENDS Serializer, JavaSerializer

CONSTANTS
  ClientMessages,  \* what the client sends in this instance
  ServerMessages,  \* what the server sends
  Changes,         \* by how much, modulo 256, a byte may be altered
  MaxJoined        \* bound: how much of the next message arrives with one

\* What a field of a Message of the client may hold: any int, any string.
IsClientItem(type, item) == item \in IF type = "Integer" THEN Int ELSE Text

IsClientMessage(m) ==
  LET types == PayloadTypes[m.header]
  IN  /\ m.header \in DOMAIN PayloadTypes
      /\ m.payload = [i \in DOMAIN types |-> m.payload[i]]
      /\ \A i \in DOMAIN types : IsClientItem(types[i], m.payload[i])

\* And one of the server: a uint32_t, or bytes whose number fits in an int.
IsServerItem(f, item) ==
  IF f = "i" THEN item \in Nat /\ item \div 65536 < 65536
  ELSE item \in Seq(0..255) /\ Len(item) \div 65536 < 32768

IsServerMessage(m) ==
  LET format == Format[m.header]
  IN  /\ m.header \in DOMAIN Format
      /\ m.payload = [i \in DOMAIN format |-> m.payload[i]]
      /\ \A i \in DOMAIN format : IsServerItem(format[i], m.payload[i])

ASSUME MessagesAssumption ==
  /\ \A m \in ClientMessages : IsClientMessage(m)
  /\ \A m \in ServerMessages : IsServerMessage(m)
  /\ Changes \subseteq 1..255
  /\ MaxJoined \in Nat

VARIABLES
  maker,    \* who wrote the message
  message,
  bytes,    \* what arrives, as numbers 0..255
  fault,    \* what happened to it on the way
  change,   \* by how much a byte was altered
  client,   \* what MessageSerializer of the client makes of it
  server    \* what deserialize of the server makes of it

vars == <<maker, message, bytes, fault, change, client, server>>

Unread == [header |-> -3, payload |-> <<>>]

Unsigned(b) == [i \in DOMAIN b |-> b[i] % 256]
Signed(b)   == [i \in DOMAIN b |-> ToByte(b[i])]

Whole == IF maker = "client" THEN Unsigned(serializeMessage(message)) ELSE serialize(message)

Init ==
  /\ \/ maker = "client" /\ message \in ClientMessages
     \/ maker = "server" /\ message \in ServerMessages
  /\ bytes = Whole
  /\ fault = "none" /\ change = 0
  /\ client = Throws("unread") /\ server = Unread

Fails(f) ==
  /\ fault = "none" /\ fault' = f
  /\ client = Throws("unread") /\ server = Unread
  /\ UNCHANGED <<maker, message, client, server>>

Alter ==
  /\ Fails("altered") /\ maker = "client"
  /\ \E i \in DOMAIN bytes, d \in Changes :
       bytes' = [bytes EXCEPT ![i] = (@ + d) % 256] /\ change' = d

Cut ==
  /\ Fails("cut")
  /\ \E n \in 1..(Len(bytes) - 1) : bytes' = SubSeq(bytes, 1, n)
  /\ UNCHANGED change

\* The beginning of the same message again, or all of it, comes along.
Join ==
  /\ Fails("joined")
  /\ \E n \in 1..Min({Len(bytes), MaxJoined}) : bytes' = bytes \o SubSeq(bytes, 1, n)
  /\ UNCHANGED change

\* Both parsers get what arrived.  The server looks at neither checksum nor
\* size: nothing is to be said of an altered byte, and none is given to it.
Read ==
  /\ client = Throws("unread") /\ server = Unread
  /\ client' = Parsed(Signed(bytes))
  /\ server' = IF fault = "altered" THEN Unread ELSE deserialize(bytes)
  /\ UNCHANGED <<maker, message, bytes, fault, change>>

Next == Alter \/ Cut \/ Join \/ Read

Spec == Init /\ [][Next]_vars

-----------------------------------------------------------------------------

ClientRead == client.thrown # "unread"
Taken      == client.thrown = "none"
Fits(m) ==
  /\ \A i \in DOMAIN m.payload :
       IF PayloadTypes[m.header][i] = "Integer" THEN m.payload[i] \in -128..127
       ELSE \A k \in DOMAIN m.payload[i] : m.payload[i][k] < 128
  /\ Len(serializeMessage(m)) < 128

Same(answer) == answer.header = message.header /\ answer.payload = message.payload

\* The client reads back what it wrote if, and only if, the numbers fit in a
\* byte, the strings are ASCII, and the message is shorter than 128 bytes.
ClientReadsBack ==
  ClientRead /\ maker = "client" /\ fault = "none" => (Taken /\ Same(client) <=> Fits(message))

\* One altered byte is noticed by the client, unless it is off by 128.
AlterationIsNoticed ==
  ClientRead /\ fault = "altered" /\ change # 128 /\ Fits(message) => ~Taken

\* A piece of a message, and a message with a piece of the next, are refused
\* by the client: neither is ever taken for a message.
PieceIsRefused ==
  ClientRead /\ maker = "client" /\ fault \in {"cut", "joined"} /\ Fits(message) => ~Taken

\* A packet of the server is read back by the server's own parser, whatever
\* follows it in the buffer.
ServerReadsBack ==
  server # Unread /\ maker = "server" /\ fault \in {"none", "joined"} => Same(server)

\* Of a message that arrives in pieces the server reads beyond the first
\* piece, into memory that is not the packet's, unless only the checksum is
\* missing, which it does not look at.
PieceIsReadBeyond ==
  server # Unread /\ maker = "server" /\ fault = "cut" =>
    IF Len(bytes) = Len(Whole) - 1 THEN Same(server) ELSE server = BeyondEnd

\* The two sides do not mean the same by a checksum: the client passes one of
\* the server's when it happens to be 0 or 64, and the size fits in a byte.
ServerSumPasses ==
  ClientRead /\ maker = "server" /\ fault = "none" =>
    (client.thrown \notin {"BadLength", "BadCheckSum"}
       <=> Last(bytes) \in {0, 64} /\ Len(bytes) < 128)
=============================================================================
