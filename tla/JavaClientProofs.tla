-------------------------- MODULE JavaClientProofs --------------------------
(***************************************************************************)
(* Theorems about JavaClient, for any number of connections, any streams   *)
(* and any buffer.                                                         *)
(***************************************************************************)
EXTENDS JavaClient, TLAPS

\* Objects are connected in the order they are made, the field has the newest
\* if any, and only what was connected is listened to.
MadeInOrder ==
  /\ client \in {Null, made}
  /\ \A k \in Object : /\ k > made => socket[k] = "null"
                       /\ socket[k] = "null" => listener[k] = "none"

\* What connect() is about to connect is the newest object and not connected
\* yet; a call that is not over has not thrown.
CallInProgress ==
  /\ app = "connecting" => made > 0 /\ socket[made] = "null"
  /\ app # "idle" => thrown = "none"

\* disconnect() alone holds on to an object whose socket is closed.
FieldIsOpen == client # Null => (socket[client] = "closed" <=> app = "stopping")

\* Also between the test of the field and its use.
FieldIsListening ==
  app \in {"idle", "sending"} /\ client # Null =>
    \/ listener[client] \in {"reading", "got", "off"}
    \/ socket[client] = "null"
    \/ server[client] = "reset"

\* Some connection ended from the other side, and not by a reset.
SomeServerEnded == \E k \in Object : server[k] \in {"closed", "broken"}

\* A listening thread clears the field only after the server ended its
\* connection, and nobody else clears it under a call.
ClearedByServer ==
  /\ \A k \in Object : listener[k] = "off" => server[k] \in {"closed", "broken"}
  /\ app \in {"connecting", "sending"} /\ client = Null => SomeServerEnded

IInv ==
  /\ TypeOK
  /\ MadeInOrder
  /\ CallInProgress
  /\ FieldIsOpen
  /\ FieldIsListening
  /\ ClearedByServer
  /\ ThrowHasCause

\* The definitions a step on one object reads.
LEMMA Objects ==
  /\ \A k : k \in Object <=> k \in Nat /\ 0 < k /\ k <= MaxClients
  /\ Null = 0 /\ Null \notin Object
  /\ MaxClients \in Nat /\ MaxSent \in Nat
BY JavaClientBounds DEF Object, Null

\* The invariant holds at the start.
LEMMA IInit == Init => IInv
<1> SUFFICES ASSUME Init PROVE IInv
  OBVIOUS
<1> USE Objects DEF Init
<1>1. TypeOK
  BY DEF TypeOK, Object
<1>2. MadeInOrder /\ CallInProgress /\ FieldIsOpen /\ FieldIsListening
  BY DEF MadeInOrder, CallInProgress, FieldIsOpen, FieldIsListening
<1>3. ClearedByServer /\ ThrowHasCause
  BY DEF ClearedByServer, ThrowHasCause
<1> QED BY <1>1, <1>2, <1>3 DEF IInv

-----------------------------------------------------------------------------
(* The application thread.                                                 *)

\* connect() makes an object.
LEMMA ConnectKeeps == IInv /\ Connect => IInv'
<1> SUFFICES ASSUME IInv, Connect PROVE IInv'
  OBVIOUS
<1> USE Objects DEF IInv, Connect, Calls, connection, reading
<1>1. TypeOK'
  <2>1. client' \in Object /\ made' \in 0..MaxClients
    BY DEF TypeOK
  <2> QED BY <2>1 DEF TypeOK
<1>2. made \in Nat /\ made' \in Object /\ client' = made' /\ socket'[made'] = "null"
  <2>1. made \in Nat /\ made < MaxClients /\ made' = made + 1 /\ client' = made'
    BY DEF TypeOK
  <2>2. made + 1 \in Object /\ made + 1 > made
    BY <2>1, Objects
  <2>3. socket[made + 1] = "null"
    BY <2>2 DEF MadeInOrder
  <2> QED BY <2>1, <2>2, <2>3
<1>3. MadeInOrder'
  BY <1>2 DEF MadeInOrder
<1>4. CallInProgress' /\ FieldIsOpen'
  BY <1>2 DEF CallInProgress, FieldIsOpen
<1>5. FieldIsListening' /\ ClearedByServer' /\ ThrowHasCause'
  BY DEF TypeOK, FieldIsListening, ClearedByServer, SomeServerEnded, ThrowHasCause
<1> QED BY <1>1, <1>3, <1>4, <1>5

\* It connects the object, finds the field cleared, or fails.
LEMMA ConnectSocketKeeps == IInv /\ ConnectSocket => IInv'
<1> SUFFICES ASSUME IInv, ConnectSocket PROVE IInv'
  OBVIOUS
<1> USE Objects DEF IInv, ConnectSocket, Throws, field, connection, reading
<1>1. TypeOK'
  BY DEF TypeOK
<1>2. MadeInOrder' /\ CallInProgress' /\ FieldIsOpen'
  BY DEF TypeOK, MadeInOrder, CallInProgress, FieldIsOpen
<1>3. FieldIsListening'
  <2>1. CASE client = Null
    BY <2>1 DEF FieldIsListening
  <2>2. CASE UNCHANGED <<socket, listener>> /\ client # Null
    BY <2>2 DEF CallInProgress, MadeInOrder, FieldIsListening
  <2>3. CASE listener' = [listener EXCEPT ![client] = "reading"] /\ client # Null
    BY <2>3 DEF TypeOK, FieldIsListening
  <2> QED BY <2>1, <2>2, <2>3
<1>4. ClearedByServer' /\ ThrowHasCause'
  BY DEF TypeOK, ClearedByServer, SomeServerEnded, CallInProgress, ThrowHasCause
<1> QED BY <1>1, <1>2, <1>3, <1>4

\* sendMessage() looks at the field.
LEMMA SendKeeps == IInv /\ Send => IInv'
<1> SUFFICES ASSUME IInv, Send PROVE IInv'
  OBVIOUS
<1> USE Objects DEF IInv, Send, Calls, isConnected, field, connection, reading
<1>1. TypeOK'
  BY DEF TypeOK
<1>2. MadeInOrder' /\ CallInProgress' /\ FieldIsOpen'
  BY DEF TypeOK, MadeInOrder, CallInProgress, FieldIsOpen
<1>3. FieldIsListening' /\ ClearedByServer' /\ ThrowHasCause'
  BY DEF TypeOK, FieldIsListening, ClearedByServer, SomeServerEnded, ThrowHasCause
<1> QED BY <1>1, <1>2, <1>3

\* It uses the field.
LEMMA SendWriteKeeps == IInv /\ SendWrite => IInv'
<1> SUFFICES ASSUME IInv, SendWrite PROVE IInv'
  OBVIOUS
<1> USE Objects DEF IInv, SendWrite, Throws, field, connection, reading
<1>1. TypeOK'
  BY DEF TypeOK
<1>2. MadeInOrder' /\ CallInProgress' /\ FieldIsOpen' /\ FieldIsListening' /\ ClearedByServer'
  BY DEF TypeOK, MadeInOrder, CallInProgress, FieldIsOpen, FieldIsListening,
         ClearedByServer, SomeServerEnded
<1>3. ThrowHasCause'
  <2>1. CASE ~Unusable
    BY <2>1 DEF TypeOK, CallInProgress, ThrowHasCause
  <2>2. CASE Unusable /\ client = Null
    BY <2>2 DEF ClearedByServer, SomeServerEnded, ThrowHasCause
  <2>3. CASE Unusable /\ client # Null
    BY <2>3 DEF TypeOK, Unusable, MadeInOrder, ThrowHasCause
  <2> QED BY <2>1, <2>2, <2>3
<1> QED BY <1>1, <1>2, <1>3

\* disconnect() closes the socket.
LEMMA DisconnectKeeps == IInv /\ Disconnect => IInv'
<1> SUFFICES ASSUME IInv, Disconnect PROVE IInv'
  OBVIOUS
<1> USE Objects DEF IInv, Disconnect, Throws, field, connection, reading
<1>1. TypeOK'
  <2>1. CASE Unusable
    BY <2>1 DEF TypeOK
  <2>2. CASE ~Unusable
    <3>1. /\ app' = "stopping" /\ thrown' = "none" /\ client' = client /\ made' = made
          /\ socket' = [socket EXCEPT ![client] = "closed"]
          /\ pending' = [pending EXCEPT ![client] = 0]
          /\ UNCHANGED <<server, sent, listener, got, reported>>
      BY <2>2
    <3>2. pending \in [Object -> 0..MaxSent] /\ pending' \in [Object -> 0..MaxSent]
      <4>1. pending \in [Object -> 0..MaxSent] /\ 0 \in 0..MaxSent
        BY DEF TypeOK
      <4> QED BY <3>1, <4>1
    <3>3. \A k \in Object : reported'[k] + got'[k] + pending'[k] <= sent'[k]
      <4> SUFFICES ASSUME NEW k \in Object
                   PROVE  reported[k] + got[k] + pending'[k] <= sent[k]
        BY <3>1
      <4>1. pending[k] \in Nat /\ pending'[k] \in {pending[k], 0}
        BY <3>1, <3>2
      <4> QED BY <4>1 DEF TypeOK
    <3> QED BY <3>1, <3>2, <3>3 DEF TypeOK
  <2> QED BY <2>1, <2>2
<1>2. MadeInOrder' /\ CallInProgress'
  <2>1. CASE Unusable
    BY <2>1 DEF MadeInOrder, CallInProgress
  <2>2. CASE ~Unusable
    <3>1. client = made /\ made' = made /\ client' = client /\ listener' = listener
      BY <2>2 DEF Unusable, MadeInOrder
    <3>2. socket' = [socket EXCEPT ![client] = "closed"] /\ app' = "stopping" /\ thrown' = "none"
      BY <2>2
    <3> QED BY <3>1, <3>2 DEF TypeOK, MadeInOrder, CallInProgress
  <2> QED BY <2>1, <2>2
<1>3. FieldIsOpen'
  <2>1. CASE Unusable
    <3>1. app = "idle" /\ app' = "idle" /\ client' = client /\ socket' = socket
      BY <2>1
    <3> QED BY <3>1 DEF FieldIsOpen
  <2>2. CASE ~Unusable
    <3>1. client' = client /\ app' = "stopping" /\ socket' = [socket EXCEPT ![client] = "closed"]
      BY <2>2
    <3> QED BY <3>1 DEF TypeOK, FieldIsOpen
  <2> QED BY <2>1, <2>2
<1>4. FieldIsListening' /\ ClearedByServer' /\ ThrowHasCause'
  BY DEF TypeOK, FieldIsListening, ClearedByServer, SomeServerEnded, ThrowHasCause
<1> QED BY <1>1, <1>2, <1>3, <1>4

\* It clears the field.
LEMMA DisconnectNullKeeps == IInv /\ DisconnectNull => IInv'
<1> SUFFICES ASSUME IInv, DisconnectNull PROVE IInv'
  OBVIOUS
<1> USE Objects DEF IInv, DisconnectNull, field, connection, reading
<1>1. TypeOK'
  BY DEF TypeOK
<1>2. MadeInOrder' /\ CallInProgress' /\ FieldIsOpen'
  BY DEF TypeOK, MadeInOrder, CallInProgress, FieldIsOpen
<1>3. FieldIsListening' /\ ClearedByServer' /\ ThrowHasCause'
  BY DEF TypeOK, FieldIsListening, ClearedByServer, SomeServerEnded, CallInProgress, ThrowHasCause
<1> QED BY <1>1, <1>2, <1>3

-----------------------------------------------------------------------------
(* The server and the listening threads leave the calls alone.             *)

\* What a step of theirs may change: of the field, that it is cleared after a
\* server ended a connection; of a connection, that it is over.
Aside ==
  /\ UNCHANGED <<made, caller, socket>>
  /\ \/ client' = client
     \/ client' = Null /\ SomeServerEnded'
  /\ \A k \in Object :
       /\ server'[k] = server[k] \/ server[k] = "up"
       /\ listener'[k] = "off" => server'[k] \in {"closed", "broken"}
       /\ listener[k] = "none" => listener'[k] = "none"
       /\ \/ listener'[k] = listener[k]
          \/ listener'[k] \in {"reading", "got", "off"}
          \/ listener'[k] = "ended" /\ (client' # k \/ socket[k] = "closed" \/ server'[k] = "reset")

\* Such a step keeps the invariant.
LEMMA AsideKeeps == IInv /\ Aside /\ TypeOK' => IInv'
<1> SUFFICES ASSUME IInv, Aside, TypeOK' PROVE IInv'
  OBVIOUS
<1> USE Objects DEF IInv, Aside, caller
<1>1. MadeInOrder' /\ CallInProgress' /\ FieldIsOpen'
  BY DEF TypeOK, MadeInOrder, CallInProgress, FieldIsOpen
<1>2. SomeServerEnded => SomeServerEnded'
  BY DEF SomeServerEnded
<1>3. ClearedByServer'
  BY <1>2 DEF ClearedByServer
<1>4. ThrowHasCause'
  BY <1>2 DEF ThrowHasCause, SomeServerEnded
<1>5. FieldIsListening'
  BY DEF TypeOK, FieldIsListening, FieldIsOpen
<1> QED BY <1>1, <1>3, <1>4, <1>5

\* The server writes another message.
LEMMA ServerSendsAside == ASSUME IInv, NEW k \in Object, ServerSends(k) PROVE Aside /\ TypeOK'
<1> USE Objects DEF ServerSends, field, caller, reading
<1>1. TypeOK'
  BY DEF IInv, TypeOK
<1>2. Aside
  BY DEF IInv, Aside, ClearedByServer, SomeServerEnded
<1> QED BY <1>1, <1>2

\* The connection ends from the other side.
LEMMA ServerEndsAside == ASSUME IInv, NEW k \in Object, ServerEnds(k) PROVE Aside /\ TypeOK'
<1> USE Objects DEF ServerEnds, field, caller, reading
<1>1. TypeOK'
  BY DEF IInv, TypeOK
<1>2. Aside
  BY DEF IInv, TypeOK, Aside, ClearedByServer, SomeServerEnded
<1> QED BY <1>1, <1>2

\* A listening thread reads.
LEMMA ReadAside == ASSUME IInv, NEW k \in Object, Read(k) PROVE Aside /\ TypeOK'
<1> USE Objects DEF Read, At, field, caller
<1>1. TypeOK'
  BY DEF IInv, TypeOK
<1>2. Aside
  BY DEF IInv, TypeOK, Aside, ClearedByServer, SomeServerEnded
<1> QED BY <1>1, <1>2

\* It hands a message to the callback.
LEMMA ReportAside == ASSUME IInv, NEW k \in Object, Report(k) PROVE Aside /\ TypeOK'
<1> USE Objects DEF Report, At, field, caller, connection
<1>1. TypeOK'
  BY DEF IInv, TypeOK, Fresh, AfterReport
<1>2. Aside
  BY DEF IInv, TypeOK, Aside, ClearedByServer, SomeServerEnded, AfterReport
<1> QED BY <1>1, <1>2

\* read() meets the end of the stream, or fails.
LEMMA EndOfFileAside == ASSUME IInv, NEW k \in Object, EndOfFile(k) PROVE Aside /\ TypeOK'
<1> USE Objects DEF EndOfFile, At, field, caller, connection
<1>1. TypeOK'
  BY DEF IInv, TypeOK
<1>2. Aside
  BY DEF IInv, TypeOK, Aside, ClearedByServer, SomeServerEnded
<1> QED BY <1>1, <1>2

\* The socket is closed or reset under it.
LEMMA SocketFailsAside == ASSUME IInv, NEW k \in Object, SocketFails(k) PROVE Aside /\ TypeOK'
<1> USE Objects DEF SocketFails, AfterFailure, At, field, caller, connection
<1>1. TypeOK'
  BY DEF IInv, TypeOK
<1>2. Aside
  BY DEF IInv, TypeOK, Aside, ClearedByServer, SomeServerEnded
<1> QED BY <1>1, <1>2

\* It clears the field of NetworkManager.
LEMMA TellOffAside == ASSUME IInv, NEW k \in Object, TellOff(k) PROVE Aside /\ TypeOK'
<1> USE Objects DEF TellOff, clientOff, At, caller, connection
<1>1. TypeOK'
  BY DEF IInv, TypeOK
<1>2. Aside
  BY DEF IInv, TypeOK, Aside, ClearedByServer, SomeServerEnded
<1> QED BY <1>1, <1>2

\* Every step keeps the invariant.
LEMMA INext == IInv /\ [Next]_vars => IInv'
<1> SUFFICES ASSUME IInv, [Next]_vars PROVE IInv'
  OBVIOUS
<1>1. CASE Application
  BY <1>1, ConnectKeeps, ConnectSocketKeeps, SendKeeps, SendWriteKeeps, DisconnectKeeps,
     DisconnectNullKeeps DEF Application
<1>2. ASSUME NEW k \in Object, ServerSends(k) \/ ServerEnds(k)
      PROVE  IInv'
  BY <1>2, ServerSendsAside, ServerEndsAside, AsideKeeps
<1>3. ASSUME NEW k \in Object, Listener(k)
      PROVE  IInv'
  BY <1>3, ReadAside, ReportAside, EndOfFileAside, SocketFailsAside, TellOffAside, AsideKeeps
     DEF Listener
<1>4. CASE UNCHANGED vars
  BY <1>4 DEF vars, field, caller, connection, reading, IInv, TypeOK, MadeInOrder, CallInProgress,
     FieldIsOpen, FieldIsListening, ClearedByServer, SomeServerEnded, ThrowHasCause
<1> QED BY <1>1, <1>2, <1>3, <1>4 DEF Next

\* The invariant holds in every reachable state.
LEMMA Invariant == Spec => []IInv
BY IInit, INext, PTL DEF Spec

-----------------------------------------------------------------------------

\* The fields and the counts of messages keep their types, for any number of
\* connections and messages: no message is reported that was not sent.
THEOREM TypeCorrect == Spec => []TypeOK
<1>1. IInv => TypeOK
  BY DEF IInv
<1> QED BY <1>1, Invariant, PTL

\* Outside of a call isConnected() vouches for a connection that is listened
\* to, unless connecting failed or the connection was reset.
THEOREM ConnectedListens == Spec => []ConnectedIsListening
<1>1. IInv => ConnectedIsListening
  BY DEF IInv, FieldIsListening, ConnectedIsListening
<1> QED BY <1>1, Invariant, PTL

\* A call that throws a NullPointerException has a server that ended a
\* connection to blame, or sends on what was never connected.
THEOREM ThrowsHaveCauses == Spec => []ThrowHasCause
<1>1. IInv => ThrowHasCause
  BY DEF IInv
<1> QED BY <1>1, Invariant, PTL

\* A connection that is open on both sides leaves the field only for a newer
\* one, or because the server ended an older one.
THEOREM LiveStays == Spec => LiveIsKept
<1> DEFINE Kept(k) ==
      client = k /\ client' # k /\ socket[k] = "open" /\ server[k] = "up" =>
        \/ app' = "connecting"
        \/ \E j \in 1..(k - 1) : /\ server[j] \in {"closed", "broken"}
                                /\ listener[j] = "off" /\ listener'[j] = "ended"
<1>1. ASSUME IInv, Next, NEW k \in Object PROVE Kept(k)
  <2> SUFFICES ASSUME client = k, client' # k, socket[k] = "open", server[k] = "up",
                      app' # "connecting"
               PROVE  \E j \in 1..(k - 1) : /\ server[j] \in {"closed", "broken"}
                                           /\ listener[j] = "off" /\ listener'[j] = "ended"
    OBVIOUS
  <2>1. ~Application
    <3>1. app # "stopping"
      BY <1>1, Objects DEF IInv, FieldIsOpen
    <3> QED BY <3>1 DEF Application, Connect, ConnectSocket, Send, SendWrite, Disconnect,
                        DisconnectNull, Calls, Throws, field
  <2>2. PICK j \in Object : TellOff(j)
    BY <1>1, <2>1 DEF Next, Listener, ServerSends, ServerEnds, Read, Report, EndOfFile, SocketFails,
                      field
  <2>3. server[j] \in {"closed", "broken"} /\ listener[j] = "off" /\ listener'[j] = "ended"
    BY <1>1, <2>2 DEF TellOff, At, IInv, TypeOK, ClearedByServer
  <2>4. j <= made /\ made = k /\ j # k
    <3>1. socket[j] # "null" /\ made = k
      BY <1>1, <2>3, Objects DEF IInv, MadeInOrder
    <3> QED BY <1>1, <2>3, <3>1, Objects DEF IInv, TypeOK, MadeInOrder
  <2>5. j \in 1..(k - 1)
    BY <2>4, Objects
  <2> QED BY <2>3, <2>5
<1>2. IInv /\ [Next]_vars => [\A k \in Object : Kept(k)]_vars
  BY <1>1
<1> QED BY <1>2, Invariant, PTL DEF Spec, LiveIsKept
=============================================================================
