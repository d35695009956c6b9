----------------------------- MODULE JavaClient -----------------------------
(***************************************************************************)
(* NetworkManager and TCPClient of the Java client: one application thread *)
(* that connects, sends and disconnects, and a listening thread for each   *)
(* connection, all of them using the field NetworkManager.client without a *)
(* lock.  A read of the field sees the last write.                         *)
(*                                                                         *)
(* The stream of a connection is counted in bytes; a read may end in the   *)
(* middle of a message.  What is thrown when a chunk is processed is       *)
(* caught in the loop, so that what the chunks contain does not matter.    *)
(***************************************************************************)
EXTENDS Integers

CONSTANTS
  MaxClients,   \* bound: how many TCPClient objects are constructed
  MaxSent,      \* bound: bytes the server sends over a connection
  BuffSize      \* BUFF_SIZE

ASSUME JavaClientBounds == MaxClients \in Nat /\ MaxSent \in Nat
ASSUME JavaClientBuffer == BuffSize \in Nat \ {0}

Object == 1..MaxClients
Null   == 0

VARIABLES
  client,     \* NetworkManager.client
  made,       \* how many TCPClient objects there are
  app,        \* where the application thread is
  thrown,     \* the call that ended in a NullPointerException, if the last did
  socket,     \* TCPClient.socket of each object
  listener,   \* where its listening thread is
  got,        \* how many bytes it read last
  server,     \* what the server did with the connection
  sent,       \* how many bytes it sent over it
  pending,    \* how many of them were not read
  reported    \* how many were handed to the callback

field      == <<client, made>>
caller     == <<app, thrown>>
connection == <<server, sent, pending>>
reading    == <<listener, got, reported>>
vars == <<field, caller, socket, connection, reading>>

TypeOK ==
  /\ client \in Object \cup {Null} /\ made \in 0..MaxClients
  /\ app \in {"idle", "connecting", "sending", "stopping"}
  /\ thrown \in {"none", "connect", "send", "disconnect"}
  /\ socket \in [Object -> {"null", "open", "closed"}]
  /\ listener \in [Object -> {"none", "reading", "got", "off", "ended"}]
  /\ server \in [Object -> {"up", "closed", "reset", "broken"}]
  /\ {sent, pending, got, reported} \subseteq [Object -> 0..MaxSent]
  /\ \A k \in Object : reported[k] + got[k] + pending[k] <= sent[k]

Init ==
  /\ client = Null /\ made = 0
  /\ app = "idle" /\ thrown = "none"
  /\ socket = [k \in Object |-> "null"]
  /\ listener = [k \in Object |-> "none"]
  /\ server = [k \in Object |-> "up"]
  /\ sent = [k \in Object |-> 0] /\ pending = sent /\ got = sent /\ reported = sent

-----------------------------------------------------------------------------
(* The application thread: NetworkManager.connect, sendMessage and         *)
(* disconnect, each at its two uses of the field.                          *)

\* A mutant: the field is not looked at.
isConnected_Always == TRUE
isConnected == client # Null

\* There is no object, or it has no socket: using either throws.
Unusable == client # Null => socket[client] = "null"

Calls(step) ==
  /\ app = "idle" /\ app' = step /\ thrown' = "none"
  /\ UNCHANGED <<connection, reading>>

Throws(call) ==
  /\ app' = "idle" /\ thrown' = call
  /\ UNCHANGED <<field, socket, connection, reading>>

Connect ==
  /\ Calls("connecting")
  /\ made < MaxClients /\ made' = made + 1
  /\ client' = made + 1
  /\ UNCHANGED socket

\* client.connect(): the field is read again.  A connection that fails is
\* logged, and the field keeps the object.
ConnectSocket ==
  /\ app = "connecting"
  /\ \/ client = Null /\ Throws("connect")
     \/ /\ client # Null
        /\ app' = "idle"
        /\ \/ /\ socket' = [socket EXCEPT ![client] = "open"]
              /\ listener' = [listener EXCEPT ![client] = "reading"]
           \/ UNCHANGED <<socket, listener>>
        /\ UNCHANGED <<field, thrown, connection, got, reported>>

Send ==
  /\ Calls(IF isConnected THEN "sending" ELSE "idle")
  /\ UNCHANGED <<field, socket>>

\* out.write(): an IOException is printed.  Without a connection out is null.
SendWrite ==
  /\ app = "sending"
  /\ \/ Unusable /\ Throws("send")
     \/ /\ ~Unusable
        /\ app' = "idle"
        /\ UNCHANGED <<field, thrown, socket, connection, reading>>

\* client.stop() closes the socket; what was not read is lost.
Disconnect ==
  \/ app = "idle" /\ Unusable /\ Throws("disconnect")
  \/ /\ app = "idle" /\ ~Unusable
     /\ app' = "stopping" /\ thrown' = "none"
     /\ socket' = [socket EXCEPT ![client] = "closed"]
     /\ pending' = [pending EXCEPT ![client] = 0]
     /\ UNCHANGED <<field, server, sent, reading>>

DisconnectNull ==
  /\ app = "stopping" /\ app' = "idle"
  /\ client' = Null
  /\ UNCHANGED <<made, thrown, socket, connection, reading>>

Application == Connect \/ ConnectSocket \/ Send \/ SendWrite \/ Disconnect \/ DisconnectNull
InCall == ConnectSocket \/ SendWrite \/ DisconnectNull

-----------------------------------------------------------------------------
(* The server, and the network.                                            *)

ServerSends(k) ==
  /\ socket[k] = "open" /\ server[k] = "up" /\ sent[k] < MaxSent
  /\ sent' = [sent EXCEPT ![k] = @ + 1]
  /\ pending' = [pending EXCEPT ![k] = @ + 1]
  /\ UNCHANGED <<field, caller, socket, server, reading>>

\* The end of the connection: in order, by a reset, or by another failure.
ServerEnds(k) ==
  /\ socket[k] = "open" /\ server[k] = "up"
  /\ \E end \in {"closed", "reset", "broken"} : server' = [server EXCEPT ![k] = end]
  /\ UNCHANGED <<field, caller, socket, sent, pending, reading>>

-----------------------------------------------------------------------------
(* TCPClient.run, the listening thread of object k.                        *)

At(k, step) == listener' = [listener EXCEPT ![k] = step]

\* in.read(): what there is, or a part of it, but no more than the buffer has
\* room for.
Read(k) ==
  /\ listener[k] = "reading" /\ socket[k] = "open" /\ server[k] \in {"up", "closed"}
  /\ \E n \in 1..BuffSize :
       /\ n <= pending[k]
       /\ got' = [got EXCEPT ![k] = n]
       /\ pending' = [pending EXCEPT ![k] = @ - n]
  /\ At(k, "got")
  /\ UNCHANGED <<field, caller, socket, server, sent, reported>>

\* processRawMessage(): an exception is caught inside of the loop.
\* A mutant: it ends the thread.
AfterReport_Ends == "ended"
AfterReport == "reading"

\* A mutant: the buffer is not emptied between two reads.
Fresh_All(k) == sent[k]
Fresh(k) == got[k]

Report(k) ==
  /\ listener[k] = "got"
  /\ reported' = [reported EXCEPT ![k] = @ + Fresh(k)]
  /\ got' = [got EXCEPT ![k] = 0]
  /\ At(k, AfterReport)
  /\ UNCHANGED <<field, caller, socket, connection>>

\* read() returns -1, or throws an IOException that is no SocketException.
EndOfFile(k) ==
  /\ listener[k] = "reading" /\ socket[k] = "open"
  /\ \/ server[k] = "closed" /\ pending[k] = 0
     \/ server[k] = "broken"
  /\ At(k, "off")
  /\ UNCHANGED <<field, caller, socket, connection, got, reported>>

\* The socket was closed by stop(), or the connection was reset: the thread
\* ends, and NetworkManager is not told.  A mutant: it is told.
AfterFailure_Told == "off"
AfterFailure == "ended"

SocketFails(k) ==
  /\ listener[k] = "reading"
  /\ socket[k] = "closed" \/ server[k] = "reset"
  /\ At(k, AfterFailure)
  /\ UNCHANGED <<field, caller, socket, connection, got, reported>>

\* NetworkManager.clientOff(), whichever object the field has by now.
\* A mutant: the field is left alone.
clientOff_None == client
clientOff == Null

TellOff(k) ==
  /\ listener[k] = "off"
  /\ client' = clientOff
  /\ At(k, "ended")
  /\ UNCHANGED <<made, caller, socket, connection, got, reported>>

Listener(k) == Read(k) \/ Report(k) \/ EndOfFile(k) \/ SocketFails(k) \/ TellOff(k)

Next ==
  \/ Application
  \/ \E k \in Object : ServerSends(k) \/ ServerEnds(k) \/ Listener(k)

Spec == Init /\ [][Next]_vars

\* Threads go on; a call that has begun is finished.  Nothing obliges the
\* application to make a call, nor the server to do anything.
FairSpec == Spec /\ WF_vars(InCall) /\ \A k \in Object : WF_vars(Listener(k))

-----------------------------------------------------------------------------

\* Outside of a call a connection that isConnected() vouches for is listened
\* to, except for two cases nobody is told of: connecting failed, or the
\* connection was reset.  Disconnecting, the end of file and a second
\* connection never leave the field with a connection that is over.
ConnectedIsListening ==
  app = "idle" /\ client # Null =>
    \/ listener[client] \in {"reading", "got", "off"}
    \/ socket[client] = "null"
    \/ server[client] = "reset"

\* A NullPointerException out of a call has a cause in the network: a server
\* ended a connection, be it an older one, or what is sent on was never
\* connected.  disconnect() of what is not connected throws one too.
ThrowHasCause ==
  thrown # "none" =>
    \/ thrown = "disconnect"
    \/ \E k \in Object : server[k] \in {"closed", "broken"}
    \/ thrown = "send" /\ \E k \in 1..made : socket[k] = "null"

\* A connection that is open on both sides falls out of the field in two ways
\* only: connect() is called again, or the listening thread of an older one,
\* which its server ended, comes to report that end.  That an older one was
\* disconnected never does it, however late its thread finds out.
LiveIsKept ==
  [][\A k \in Object :
       client = k /\ client' # k /\ socket[k] = "open" /\ server[k] = "up" =>
         \/ app' = "connecting"
         \/ \E j \in 1..(k - 1) : /\ server[j] \in {"closed", "broken"}
                                 /\ listener[j] = "off" /\ listener'[j] = "ended"]_vars

\* That the server closed a connection is noticed, and the field cleared.
EndIsNoticed ==
  \A k \in Object : server[k] \in {"closed", "broken"} ~> client # k

\* What the server sent is handed to the callback, also what it sent right
\* before closing, unless the application disconnects or the network fails.
SentIsReported ==
  \A k \in Object : sent[k] > 0 ~>
    reported[k] = sent[k] \/ socket[k] = "closed" \/ server[k] \in {"reset", "broken"}
=============================================================================
