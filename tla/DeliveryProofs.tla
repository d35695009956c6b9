--------------------------- MODULE DeliveryProofs ---------------------------
(***************************************************************************)
(* Theorems about Delivery, for any number of connections, descriptors and *)
(* messages.                                                               *)
(***************************************************************************)
EXTENDS Delivery, SequenceLemmas

-----------------------------------------------------------------------------
(* The invariant.                                                          *)

\* The call of main() that constructs each queue.
InitCall == [sender |-> 1, pm |-> 3, cm |-> 5, server |-> 7]
StartupInv == \A t \in Singleton : t \in built <=> called >= InitCall[t]

\* The newest connection has no player object while Server::run is between
\* accept() and the constructor.
Enlisted == IF at = "accepted" THEN born - 1 ELSE born

\* The vector has every object once that has a descriptor, and no other.
VectorInv ==
  /\ players \in Seq(1..Enlisted) /\ Len(players) <= Enlisted
  /\ \A i, j \in 1..Len(players) : players[i] = players[j] => i = j
  /\ \A p \in Conn : sock[p] # NoSock <=> \E i \in 1..Len(players) : players[i] = p
  /\ \A p, q \in Conn : sock[p] = sock[q] /\ sock[p] # NoSock => p = q

\* The kernel has a connection open on one descriptor.
ConnOnce ==
  \A s \in Sock :
    /\ conn[s] <= born
    /\ \A r \in Sock : conn[r] = conn[s] /\ conn[s] # NoConn => r = s

\* The race "overlap" has not happened.
OneBusy == \A t, u \in Thread : Busy(t) /\ Busy(u) => t = u

\* The descriptor of an object is its connection's, or a thread that closed it
\* is about to remove it: the race "reuse" has not happened.
SockIsOwn ==
  \A p \in Conn : sock[p] # NoSock =>
    \/ conn[sock[p]] = p
    \/ conn[sock[p]] = NoConn /\ \E t \in Thread : disc[t].socket = sock[p] /\ disc[t].step # "close"

\* What a thread knows in the middle of a disconnection is still true.
DiscKnows(d) ==
  /\ d.step \in {"clear", "search", "erase"} /\ d.socket # NoSock => conn[d.socket] = NoConn
  /\ d.step = "erase" =>
       /\ d.index \in 1..Len(players) /\ players[d.index] = d.player
       /\ sock[d.player] = d.socket /\ d.socket # NoSock
  /\ d.step = "close" /\ d.socket # NoSock /\ conn[d.socket] # NoConn =>
       conn[d.socket] \in gone \cup asked
DiscInv == \A t \in Thread : DiscKnows(disc[t])

\* Nobody has the number accept() just returned in mind.
AcceptedInv ==
  at = "accepted" =>
    /\ Listener \in readSocks /\ born \in Conn
    /\ clientSocket \in Sock /\ conn[clientSocket] = born
    /\ \A t \in Thread : disc[t].socket # clientSocket
    /\ \A i \in 1..Len(packetQueue) : packetQueue[i].socket # clientSocket

\* A closed descriptor is in clientSocks only between close() and FD_CLR.
DeadBitHasCloser ==
  \A s \in clientSocks : conn[s] = NoConn =>
    \E t \in Thread : disc[t].socket = s /\ disc[t].step = "clear"

\* An open descriptor is watched and has its player.
WatchInv ==
  \A s \in Sock : conn[s] # NoConn =>
    \/ at = "accepted" /\ clientSocket = s
    \/ s \in clientSocks /\ sock[conn[s]] = s

\* Who sent what is queued.
PacketInv ==
  \A i \in 1..Len(packetQueue) :
    /\ conn[packetQueue[i].socket] \in {NoConn, packetQueue[i].from}
    /\ packetQueue[i].kind \in {"bad", "logout"} => packetQueue[i].from \in asked
CommandInv ==
  \A i \in 1..Len(commandQueue) :
    LET p == commandQueue[i].player
    IN  /\ p <= Enlisted
        /\ commandQueue[i].kind = "logout" /\ p # NoConn =>
             p \in asked \/ sock[p] = NoSock \/ conn[sock[p]] = NoConn

\* What select() answered is still so when the loop comes to it.
InboxInv == \A c \in Conn : inbox[c] \in {"logout", "bad"} => c \in asked
Ready(s) == conn[s] # NoConn => inbox[conn[s]] # "none" \/ conn[s] \in gone
SelectInv ==
  /\ at \in {"pass", "sized", "accepted"} => \A s \in readSocks \ {Listener} : Ready(s)
  /\ at = "pass" /\ Listener \in readSocks => born < MaxConnections
  /\ at = "sized" =>
       /\ fd \in readSocks \ {Listener} /\ Listener \notin readSocks
       /\ conn[fd] # NoConn => IF readSize THEN inbox[conn[fd]] # "none" ELSE conn[fd] \in gone

NobodyDropped == \A c \in Conn : c <= born => Open(c) \/ c \in gone \cup asked

Sound ==
  /\ VectorInv /\ ConnOnce /\ OneBusy /\ SockIsOwn /\ DiscInv /\ AcceptedInv
  /\ DeadBitHasCloser /\ WatchInv
  /\ PacketInv /\ CommandInv /\ InboxInv /\ SelectInv /\ NobodyDropped

IInv ==
  /\ TypeOK
  /\ StartupInv
  /\ Up => Sound

-----------------------------------------------------------------------------
(* Facts about constants and definitions.                                  *)

\* The special values are none of the numbers.
LEMMA Specials ==
  /\ NoSock \notin Sock /\ Listener \notin Sock /\ NoSock # Listener
  /\ NoConn \notin Conn
  /\ \A p \in Conn : p \in Nat /\ p # 0 /\ p <= MaxConnections
  /\ \A p \in Nat : p # 0 /\ p <= MaxConnections => p \in Conn
  /\ MaxConnections \in Nat
  /\ \A s \in Sock : s \in Nat /\ s # 0
BY DeliverySock, DeliveryConnections DEF NoSock, Listener, NoConn, Conn

\* What a thread holds.
LEMMA DiscFacts ==
  ASSUME disc \in [Thread -> DiscRec \cup {NoDisc}], NEW t \in Thread
  PROVE  /\ Busy(t) <=> disc[t].step # "none"
         /\ disc[t].step \in {"none", "close", "clear", "search", "erase"}
         /\ disc[t].socket \in Sock \cup {NoSock}
         /\ ~ Busy(t) => disc[t].socket = NoSock
         /\ disc[t].player \in Conn \cup {NoConn}
         /\ disc[t].index \in 0..MaxConnections
<1>1. disc[t] \in DiscRec \cup {NoDisc}
  OBVIOUS
<1>2. 0 \in 0..MaxConnections
  BY DeliveryConnections
<1>3. CASE disc[t] = NoDisc
  BY <1>2, <1>3 DEF NoDisc, Busy
<1>4. CASE disc[t] \in DiscRec
  BY <1>4 DEF DiscRec, NoDisc, Busy
<1> QED BY <1>1, <1>3, <1>4

\* What is in the queues.
Packets  == [socket : Sock, kind : Kind \cup {"zeros"}, from : Conn \cup {NoConn}]
Commands == [kind : Kind \cup {"zeros"}, player : Conn \cup {NoConn}, from : Conn \cup {NoConn}]
Answers  == [socket : Sock \cup {NoSock}, to : Conn \cup {NoConn}]

\* They hold nothing else, from head to tail.
LEMMA QueueTypes ==
  ASSUME TypeOK
  PROVE  /\ packetQueue \in Seq(Packets) /\ commandQueue \in Seq(Commands)
         /\ pQueue \in Seq(Answers)
         /\ Len(packetQueue) \in Nat /\ Len(commandQueue) \in Nat /\ Len(pQueue) \in Nat
         /\ \A j \in 1..Len(packetQueue) : packetQueue[j].socket \in Sock
         /\ \A j \in 1..Len(commandQueue) : commandQueue[j].player \in Conn \cup {NoConn}
         /\ \A j \in 1..Len(pQueue) : pQueue[j].socket \in Sock \cup {NoSock}
<1>1. packetQueue \in Seq(Packets) /\ commandQueue \in Seq(Commands) /\ pQueue \in Seq(Answers)
  BY DEF TypeOK, Packets, Commands, Answers
<1>2. /\ \A j \in 1..Len(packetQueue) : packetQueue[j] \in Packets
      /\ \A j \in 1..Len(commandQueue) : commandQueue[j] \in Commands
      /\ \A j \in 1..Len(pQueue) : pQueue[j] \in Answers
      /\ Len(packetQueue) \in Nat /\ Len(commandQueue) \in Nat /\ Len(pQueue) \in Nat
  BY <1>1, ElementOfSeq, LenProperties
<1>3. /\ \A packet \in Packets : packet.socket \in Sock
      /\ \A command \in Commands : command.player \in Conn \cup {NoConn}
      /\ \A packet \in Answers : packet.socket \in Sock \cup {NoSock}
  BY DEF Packets, Commands, Answers
<1> QED BY <1>1, <1>2, <1>3

\* The descriptor served is the lowest.
LEMMA LowestServed ==
  ASSUME readSocks \subseteq Sock \cup {Listener}, readSocks # {}
  PROVE  fd \in readSocks /\ \A s \in readSocks : fd <= s
<1>1. readSocks \subseteq Nat
  BY Specials DEF Listener
<1>2. PICK top \in readSocks : TRUE
  OBVIOUS
<1> DEFINE Low == {s \in readSocks : s <= top}
           T == {s + 1 : s \in Low}
<1>3. T \in SUBSET (1..(top + 1)) /\ T # {} /\ top + 1 \in Int
  BY <1>1, <1>2
<1>4. PICK x \in T : \A y \in T : x <= y
  <2> HIDE DEF T
  <2> QED BY <1>3, LeastExists
<1>5. PICK m \in Low : x = m + 1
  BY <1>4
<1>6. \A s \in readSocks : m <= s
  <2> SUFFICES ASSUME NEW s \in readSocks PROVE m <= s
    OBVIOUS
  <2>1. CASE s <= top
    <3>1. s + 1 \in T
      BY <2>1
    <3> QED BY <3>1, <1>1, <1>4, <1>5
  <2>2. CASE ~ (s <= top)
    BY <2>2, <1>1, <1>2, <1>5
  <2> QED BY <2>1, <2>2
<1>7. \E n \in readSocks : \A s \in readSocks : n <= s
  BY <1>5, <1>6
<1> QED BY <1>7, Zenon DEF fd, Min

\* The listening socket comes before all others.
LEMMA ListenerFirst ==
  ASSUME readSocks \subseteq Sock \cup {Listener}
  PROVE  Listener \in readSocks <=> readSocks # {} /\ fd = Listener
<1>1. CASE Listener \in readSocks
  <2>1. fd \in readSocks /\ fd <= Listener
    BY <1>1, LowestServed
  <2>2. fd \in Nat
    BY <2>1, Specials DEF Listener
  <2>3. fd = Listener
    BY <2>1, <2>2 DEF Listener
  <2> QED BY <1>1, <2>3
<1>2. CASE Listener \notin readSocks
  BY <1>2, LowestServed
<1> QED BY <1>1, <1>2

\* getPlayerBySocket finds a player of the vector who has the socket, if any
\* has.
LEMMA Found ==
  ASSUME NEW S, players \in Seq(S), NEW s
  PROVE  /\ IndexBySocket(s) \in 0..Len(players)
         /\ IndexBySocket(s) # 0 => sock[players[IndexBySocket(s)]] = s /\ s # NoSock
         /\ s # NoSock /\ (\E i \in 1..Len(players) : sock[players[i]] = s) => IndexBySocket(s) # 0
<1> DEFINE I == {j \in 1..Len(players) : sock[players[j]] = s /\ s # NoSock}
<1>1. IndexBySocket(s) = IF I # {} THEN Min(I) ELSE 0
  BY Zenon DEF IndexBySocket, SelectInSeq
<1>2. Len(players) \in Nat /\ I \in SUBSET (1..Len(players))
  BY LenProperties
<1>3. I # {} => Min(I) \in I
  <2> HIDE DEF I
  <2> QED BY <1>2, MinOfIndices
<1>4. CASE I = {}
  BY <1>1, <1>2, <1>4
<1>5. CASE I # {}
  BY <1>1, <1>2, <1>3, <1>5
<1> QED BY <1>4, <1>5

\* getPlayerBySocket, as the threads use it: whoever it finds is listed, has
\* the socket, and is the only one.
LEMMA FoundPlayer ==
  ASSUME TypeOK, VectorInv, NEW s \in Sock
  PROVE  /\ getPlayerBySocket(s) \in Conn \cup {NoConn}
         /\ getPlayerBySocket(s) # NoConn =>
              sock[getPlayerBySocket(s)] = s /\ getPlayerBySocket(s) <= Enlisted
         /\ \A p \in Conn : sock[p] = s => getPlayerBySocket(s) = p
<1> DEFINE i == IndexBySocket(s)
<1>1. players \in Seq(1..Enlisted) /\ players \in Seq(Conn) /\ s # NoSock
  BY Specials DEF TypeOK, VectorInv
<1>2. /\ i \in 0..Len(players)
      /\ i # 0 => sock[players[i]] = s
      /\ (\E k \in 1..Len(players) : sock[players[k]] = s) => i # 0
  BY <1>1, Found
<1>3. Len(players) \in Nat
  BY <1>1, LenProperties
<1> HIDE DEF i
<1>4. \A k \in 1..Len(players) : players[k] \in Conn /\ players[k] \in 1..Enlisted
  BY <1>1, ElementOfSeq
<1>5. i # 0 => i \in 1..Len(players)
  BY <1>2, <1>3
<1>6. getPlayerBySocket(s) = IF i = 0 THEN NoConn ELSE players[i]
  BY DEF getPlayerBySocket, i
<1>7. i # 0 => players[i] \in Conn /\ players[i] <= Enlisted
  BY <1>4, <1>5
<1>8. ASSUME NEW p \in Conn, sock[p] = s
      PROVE  getPlayerBySocket(s) = p
  <2>1. PICK k \in 1..Len(players) : players[k] = p
    BY <1>1, <1>8 DEF VectorInv
  <2>2. i # 0
    BY <1>2, <1>8, <2>1
  <2>3. players[i] = p
    BY <1>1, <1>2, <1>7, <1>8, <2>2 DEF VectorInv
  <2> QED BY <1>6, <2>2, <2>3
<1> QED BY <1>2, <1>6, <1>7, <1>8, Specials

-----------------------------------------------------------------------------
(* main().                                                                 *)

\* The calls of main, one by one.
LEMMA CallsOfMain ==
  /\ Len(MainCalls) = 8
  /\ MainCalls[1] = <<"sender", "init">> /\ MainCalls[2] = <<"sender", "start">>
  /\ MainCalls[3] = <<"pm", "init">> /\ MainCalls[4] = <<"pm", "start">>
  /\ MainCalls[5] = <<"cm", "init">> /\ MainCalls[6] = <<"cm", "start">>
  /\ MainCalls[7] = <<"server", "init">> /\ MainCalls[8] = <<"server", "start">>
BY DEF MainCalls

\* The account of what is there, thread by thread.
LEMMA Account ==
  ASSUME StartupInv
  PROVE  /\ "sender" \in built <=> called >= 1
         /\ "pm" \in built <=> called >= 3
         /\ "cm" \in built <=> called >= 5
         /\ "server" \in built <=> called >= 7
BY DEF StartupInv, InitCall, Singleton

\* A call keeps it.
LEMMA StartsStep ==
  ASSUME TypeOK, StartupInv, Starts
  PROVE  TypeOK' /\ StartupInv' /\ Up
<1>1. called \in {0, 1, 2, 3, 4, 5, 6, 7} /\ called' = called + 1
  BY CallsOfMain DEF TypeOK, Starts, MainCall
<1>2. /\ built' = IF MainCalls[called + 1][2] = "init" THEN built \cup {MainCalls[called + 1][1]}
                                                      ELSE built
      /\ down' \in {"no", "bind", "start"} /\ Up
  BY DEF Starts, MainCall, Up
<1>3. /\ built \subseteq Singleton
      /\ "sender" \in built <=> called >= 1
      /\ "pm" \in built <=> called >= 3
      /\ "cm" \in built <=> called >= 5
      /\ "server" \in built <=> called >= 7
  BY Account DEF TypeOK
<1>4. /\ built' \subseteq Singleton
      /\ "sender" \in built' <=> called' >= 1
      /\ "pm" \in built' <=> called' >= 3
      /\ "cm" \in built' <=> called' >= 5
      /\ "server" \in built' <=> called' >= 7
  <2>1. CASE called \in {1, 3, 5, 7}
    <3>1. MainCalls[called + 1][2] = "start"
      BY <2>1, CallsOfMain
    <3>2. built' = built
      BY <1>2, <3>1
    <3> QED BY <1>1, <1>3, <2>1, <3>2
  <2>2. CASE called = 0
    <3>1. built' = built \cup {"sender"}
      BY <1>2, <2>2, CallsOfMain
    <3> QED BY <1>1, <1>3, <2>2, <3>1 DEF Singleton
  <2>3. CASE called = 2
    <3>1. built' = built \cup {"pm"}
      BY <1>2, <2>3, CallsOfMain
    <3> QED BY <1>1, <1>3, <2>3, <3>1 DEF Singleton
  <2>4. CASE called = 4
    <3>1. built' = built \cup {"cm"}
      BY <1>2, <2>4, CallsOfMain
    <3> QED BY <1>1, <1>3, <2>4, <3>1 DEF Singleton
  <2>5. CASE called = 6
    <3>1. built' = built \cup {"server"}
      BY <1>2, <2>5, CallsOfMain
    <3> QED BY <1>1, <1>3, <2>5, <3>1 DEF Singleton
  <2> QED BY <1>1, <2>1, <2>2, <2>3, <2>4, <2>5
<1>5. StartupInv'
  BY <1>4 DEF StartupInv, InitCall, Singleton
<1>6. TypeOK'
  <2>1. called' \in 0..Len(MainCalls)
    BY <1>1, CallsOfMain
  <2> QED BY <1>2, <1>4, <2>1 DEF TypeOK, Starts, kernel, queues, vector, select
<1> QED BY <1>2, <1>5, <1>6

\* A thread polls a queue that is there.
LEMMA StartedIsBuilt ==
  ASSUME TypeOK, StartupInv
  PROVE  QueueIsThere
<1>1. called \in Nat /\ called <= 8 /\ built \subseteq Singleton
  BY CallsOfMain DEF TypeOK
<1>2. ASSUME NEW t \in Singleton, Started(t)
      PROVE  t \in built /\ (t = "server" => built = Singleton)
  <2>1. PICK i \in 1..called : MainCalls[i] = <<t, "start">>
    BY <1>2 DEF Started
  <2>2. i \in {1, 2, 3, 4, 5, 6, 7, 8}
    BY <1>1, <2>1
  <2>3. i \in {2, 4, 6, 8}
    BY <2>1, <2>2, CallsOfMain
  <2>4. \/ t = "sender" /\ called >= 1
        \/ t = "pm" /\ called >= 3
        \/ t = "cm" /\ called >= 5
        \/ t = "server" /\ called >= 8
    BY <1>1, <2>1, <2>3, CallsOfMain
  <2>5. /\ "sender" \in built <=> called >= 1
        /\ "pm" \in built <=> called >= 3
        /\ "cm" \in built <=> called >= 5
        /\ "server" \in built <=> called >= 7
    BY Account
  <2>6. CASE t = "server" /\ called >= 8
    <3>1. called >= 1 /\ called >= 3 /\ called >= 5 /\ called >= 7
      BY <1>1, <2>6
    <3>2. "sender" \in built /\ "pm" \in built /\ "cm" \in built /\ "server" \in built
      BY <2>5, <3>1
    <3> QED BY <1>1, <2>6, <3>2 DEF Singleton
  <2> QED BY <2>4, <2>5, <2>6
<1> QED BY <1>2 DEF QueueIsThere, Singleton
-----------------------------------------------------------------------------
(* Each part of the invariant depends on a few variables only: a step that *)
(* leaves these as they are, or moves them the right way, keeps it.        *)

SameVector == players' = players /\ sock' = sock
SamePlace == born' = born /\ (at' = "accepted" <=> at = "accepted")
Grown == gone \subseteq gone' /\ asked \subseteq asked'

\* The parts about the vector and the disconnections.
LEMMA VectorFrames ==
  ASSUME Sound, Up
  PROVE  /\ SameVector /\ SamePlace => VectorInv'
         /\ conn' = conn /\ born' = born => ConnOnce'
         /\ disc' = disc => OneBusy'
         /\ conn' = conn /\ disc' = disc /\ sock' = sock => SockIsOwn'
         /\ conn' = conn /\ disc' = disc /\ SameVector /\ Grown => DiscInv'
         /\ /\ conn' = conn /\ disc' = disc /\ SamePlace /\ clientSocket' = clientSocket
            /\ packetQueue' = packetQueue /\ (at = "accepted" => readSocks' = readSocks)
            => AcceptedInv'
         /\ conn' = conn /\ disc' = disc /\ clientSocks' = clientSocks => DeadBitHasCloser'
         /\ /\ conn' = conn /\ sock' = sock /\ clientSocks' = clientSocks
            /\ SamePlace /\ clientSocket' = clientSocket
            => WatchInv'
<1> USE DEF Sound
<1>1. SameVector /\ SamePlace => VectorInv'
  BY DEF VectorInv, Enlisted, SameVector, SamePlace
<1>2. conn' = conn /\ born' = born => ConnOnce'
  BY DEF ConnOnce
<1>3. disc' = disc => OneBusy'
  BY DEF OneBusy, Busy
<1>4. conn' = conn /\ disc' = disc /\ sock' = sock => SockIsOwn'
  BY DEF SockIsOwn
<1>5. conn' = conn /\ disc' = disc /\ SameVector /\ Grown => DiscInv'
  BY DEF DiscInv, DiscKnows, SameVector, Grown
<1>6. ASSUME conn' = conn, disc' = disc, SamePlace, clientSocket' = clientSocket,
             packetQueue' = packetQueue, at = "accepted" => readSocks' = readSocks
      PROVE  AcceptedInv'
  BY <1>6 DEF AcceptedInv, SamePlace
<1>7. conn' = conn /\ disc' = disc /\ clientSocks' = clientSocks => DeadBitHasCloser'
  BY DEF DeadBitHasCloser
<1>8. ASSUME conn' = conn, sock' = sock, clientSocks' = clientSocks,
             SamePlace, clientSocket' = clientSocket
      PROVE  WatchInv'
  BY <1>8 DEF WatchInv, SamePlace
<1> QED BY <1>1, <1>2, <1>3, <1>4, <1>5, <1>6, <1>7, <1>8

\* The parts about the queues and the clients.
LEMMA QueueFrames ==
  ASSUME Sound
  PROVE  /\ packetQueue' = packetQueue /\ conn' = conn /\ Grown => PacketInv'
         /\ /\ commandQueue' = commandQueue /\ conn' = conn /\ sock' = sock
            /\ SamePlace /\ Grown
            => CommandInv'
         /\ inbox' = inbox /\ Grown => InboxInv'
         /\ conn' = conn /\ born' = born /\ Grown => NobodyDropped'
<1> USE DEF Sound
<1>1. packetQueue' = packetQueue /\ conn' = conn /\ Grown => PacketInv'
  BY DEF PacketInv, Grown
<1>2. ASSUME commandQueue' = commandQueue, conn' = conn, sock' = sock, SamePlace, Grown
      PROVE  CommandInv'
  <2>1. Enlisted' = Enlisted
    BY <1>2 DEF Enlisted, SamePlace
  <2> QED BY <1>2, <2>1 DEF CommandInv, Grown
<1>3. inbox' = inbox /\ Grown => InboxInv'
  BY DEF InboxInv, Grown
<1>4. conn' = conn /\ born' = born /\ Grown => NobodyDropped'
  BY DEF NobodyDropped, Open, Grown
<1> QED BY <1>1, <1>2, <1>3, <1>4

\* The part about select(), when the Server thread does not move.
LEMMA SelectFrame ==
  ASSUME TypeOK, Sound, at' = at, readSocks' = readSocks, readSize' = readSize, born' = born,
         gone \subseteq gone',
         \A s \in Sock : conn'[s] # NoConn => /\ conn'[s] = conn[s]
                                              /\ inbox[conn[s]] # "none" => inbox'[conn[s]] # "none"
  PROVE  SelectInv'
<1>1. \A s \in Sock : Ready(s) => Ready(s)'
  BY DEF Ready
<1>2. fd' = fd /\ readSocks \subseteq Sock \cup {Listener}
  BY DEF fd, TypeOK
<1>3. ASSUME at = "sized", conn'[fd] # NoConn
      PROVE  IF readSize THEN inbox'[conn'[fd]] # "none" ELSE conn'[fd] \in gone'
  <2>1. fd \in Sock
    BY <1>2, <1>3 DEF Sound, SelectInv
  <2> QED BY <1>3, <2>1 DEF Sound, SelectInv
<1> QED BY <1>1, <1>2, <1>3 DEF Sound, SelectInv
-----------------------------------------------------------------------------
(* The steps of the Server thread that touch no connection.                *)

\* What such a step leaves alone.
LEMMA ServerOnly ==
  ASSUME TypeOK, Sound, Up, Up', SameVector, Grown,
         conn' = conn, born' = born, gone' = gone, inbox' = inbox, disc' = disc,
         packetQueue' = packetQueue, commandQueue' = commandQueue, pQueue' = pQueue,
         clientSocks' = clientSocks, clientSocket' = clientSocket,
         at # "accepted", at' # "accepted", SelectInv'
  PROVE  Sound'
<1>1. SamePlace /\ sock' = sock
  BY DEF SamePlace, SameVector
<1>2. VectorInv' /\ ConnOnce' /\ OneBusy' /\ SockIsOwn' /\ DiscInv' /\ AcceptedInv'
      /\ DeadBitHasCloser' /\ WatchInv'
  BY <1>1, VectorFrames
<1>3. PacketInv' /\ CommandInv' /\ InboxInv' /\ NobodyDropped'
  BY <1>1, QueueFrames
<1> QED BY <1>2, <1>3 DEF Sound

\* The set is copied; what select() will be asked is open to the clients.
LEMMA CopySocksStep ==
  ASSUME TypeOK, Up => Sound, CopySocks
  PROVE  TypeOK' /\ (Up' => Sound')
<1>1. Up /\ Sound /\ at = "copy" /\ at' = "call" /\ readSocks' = clientSocks \cup {Listener}
  BY DEF CopySocks, ServerAt
<1>2. TypeOK'
  BY <1>1 DEF CopySocks, TypeOK, startupVars, kernel, queues, vector
<1>3. SelectInv'
  BY <1>1 DEF SelectInv
<1>4. SameVector /\ Grown
  BY DEF CopySocks, SameVector, Grown, vector, kernel
<1> QED BY <1>1, <1>2, <1>3, <1>4, ServerOnly DEF CopySocks, kernel, queues

\* select() is called, or has already failed.
LEMMA SelectCallStep ==
  ASSUME TypeOK, Up => Sound, SelectCall
  PROVE  TypeOK' /\ (Up' => Sound')
<1>1. Up /\ Sound /\ at = "call" /\ at' \in {"call", "wait"}
  BY DEF SelectCall, ServerAt
<1>2. TypeOK'
  BY <1>1 DEF SelectCall, TypeOK, kernel, queues, vector, GoesOn, Ends, startupVars
<1>3. SelectInv'
  BY <1>1 DEF SelectInv
<1>4. SameVector /\ Grown
  BY DEF SelectCall, SameVector, Grown, vector, kernel
<1> QED BY <1>1, <1>2, <1>3, <1>4, ServerOnly DEF SelectCall, kernel, queues

\* Every descriptor of the answer was served.
LEMMA PassEndsStep ==
  ASSUME TypeOK, Up => Sound, PassEnds
  PROVE  TypeOK' /\ (Up' => Sound')
<1>1. Up /\ Sound /\ at = "pass" /\ at' = "copy"
  BY DEF PassEnds, ServerAt
<1>2. TypeOK'
  BY <1>1 DEF PassEnds, TypeOK, kernel, queues, vector, startupVars
<1>3. SelectInv'
  BY <1>1 DEF SelectInv
<1>4. SameVector /\ Grown
  BY DEF PassEnds, SameVector, Grown, vector, kernel
<1> QED BY <1>1, <1>2, <1>3, <1>4, ServerOnly DEF PassEnds, kernel, queues

\* select() answers with what is ready, or closed by now; the listening
\* socket only when a connection can be accepted.
LEMMA SelectReturnStep ==
  ASSUME TypeOK, Up => Sound, SelectReturn
  PROVE  TypeOK' /\ (Up' => Sound')
<1>1. Up /\ Sound /\ at = "wait" /\ at' = "pass"
  BY DEF SelectReturn, ServerAt
<1>2. /\ readSocks' \subseteq readSocks \cup {Listener}
      /\ \A s \in readSocks' \ {Listener} :
           conn[s] = NoConn \/ inbox[conn[s]] # "none" \/ conn[s] \in gone
      /\ Listener \in readSocks' => born < MaxConnections
  <2> DEFINE ready == {s \in readSocks \ ({Listener} \cup Closed) :
                         inbox[conn[s]] # "none" \/ conn[s] \in gone}
  <2>1. PICK junk \in SUBSET Closed, l \in SUBSET {Listener} :
          /\ l # {} => born < MaxConnections
          /\ readSocks' = (ready \cup junk) \cup l
    BY DEF SelectReturn, Answered
  <2>2. Closed \subseteq readSocks \ {Listener} /\ \A s \in Closed : conn[s] = NoConn
    BY DEF Closed
  <2>3. ready \subseteq readSocks \ {Listener}
        /\ \A s \in ready : inbox[conn[s]] # "none" \/ conn[s] \in gone
    OBVIOUS
  <2> HIDE DEF ready
  <2> QED BY <2>1, <2>2, <2>3
<1>3. TypeOK'
  <2>1. readSocks' \subseteq Sock \cup {Listener}
    BY <1>2 DEF TypeOK
  <2> QED BY <1>1, <2>1 DEF SelectReturn, TypeOK, kernel, queues, vector, startupVars
<1>4. SelectInv'
  BY <1>1, <1>2 DEF SelectInv, SelectReturn, Ready, kernel
<1>5. SameVector /\ Grown
  BY DEF SelectReturn, SameVector, Grown, vector, kernel
<1> QED BY <1>1, <1>3, <1>4, <1>5, ServerOnly DEF SelectReturn, kernel, queues

\* FIONREAD says whether an open descriptor has data; without data it has the
\* end of file.
LEMMA AskSizeStep ==
  ASSUME TypeOK, Up => Sound, AskSize
  PROVE  TypeOK' /\ (Up' => Sound')
<1>1. Up /\ Sound /\ at = "pass" /\ at' = "sized" /\ readSocks' = readSocks
  BY DEF AskSize, ServerAt
<1>2. readSocks \subseteq Sock \cup {Listener} /\ readSocks # {} /\ fd # Listener /\ fd' = fd
  BY <1>1 DEF AskSize, Serves, TypeOK, fd
<1>3. fd \in Sock /\ fd \in readSocks /\ Listener \notin readSocks
  BY <1>2, LowestServed, ListenerFirst
<1>4. TypeOK'
  <2>1. readSize' \in BOOLEAN
    BY DEF AskSize, TypeOK
  <2> QED BY <1>1, <2>1 DEF AskSize, TypeOK, kernel, queues, vector, startupVars
<1>5. SelectInv'
  <2>1. conn[fd] = NoConn \/ inbox[conn[fd]] # "none" \/ conn[fd] \in gone
    BY <1>1, <1>2, <1>3 DEF Sound, SelectInv, Ready
  <2>2. conn[fd] # NoConn => (readSize' <=> inbox[conn[fd]] # "none")
    BY DEF AskSize
  <2>3. \A s \in readSocks \ {Listener} : Ready(s)'
    BY <1>1 DEF Sound, SelectInv, Ready, AskSize, kernel
  <2> QED BY <1>1, <1>2, <1>3, <2>1, <2>2, <2>3 DEF SelectInv, AskSize, kernel
<1>6. SameVector /\ Grown
  BY DEF AskSize, SameVector, Grown, vector, kernel
<1> QED BY <1>1, <1>4, <1>5, <1>6, ServerOnly DEF AskSize, kernel, queues
-----------------------------------------------------------------------------
(* The clients and the Sender.                                             *)

\* What a client does leaves the server alone.
LEMMA OutsideOnly ==
  ASSUME TypeOK, Sound, Up, Up', Grown, SameVector,
         conn' = conn, born' = born, disc' = disc,
         packetQueue' = packetQueue, commandQueue' = commandQueue,
         UNCHANGED select, InboxInv',
         \A c \in Conn : inbox[c] # "none" => inbox'[c] # "none"
  PROVE  Sound'
<1>1. /\ SamePlace /\ sock' = sock /\ clientSocks' = clientSocks /\ clientSocket' = clientSocket
      /\ at' = at /\ readSocks' = readSocks /\ readSize' = readSize
  BY DEF SamePlace, SameVector, select
<1>2. VectorInv' /\ ConnOnce' /\ OneBusy' /\ SockIsOwn' /\ DiscInv' /\ AcceptedInv'
      /\ DeadBitHasCloser' /\ WatchInv'
  BY <1>1, VectorFrames
<1>3. PacketInv' /\ CommandInv' /\ NobodyDropped'
  BY <1>1, QueueFrames
<1>4. SelectInv'
  <2>1. \A s \in Sock : conn[s] # NoConn => conn[s] \in Conn
    BY DEF TypeOK
  <2>2. gone \subseteq gone'
    BY DEF Grown
  <2> QED BY <1>1, <2>1, <2>2, SelectFrame
<1> QED BY <1>2, <1>3, <1>4 DEF Sound

\* A client sends; who asks for his own end is written down.
LEMMA ClientSendsStep ==
  ASSUME TypeOK, Up => Sound, NEW c \in Conn, NEW k \in Kind, ClientSends(c, k)
  PROVE  TypeOK' /\ (Up' => Sound')
<1>1. Up /\ Sound
  BY DEF ClientSends
<1>2. inbox' = [inbox EXCEPT ![c] = k] /\ asked' = (IF k = "request" THEN asked ELSE asked \cup {c})
  BY DEF ClientSends
<1>3. k # "none" /\ inbox \in [Conn -> Kind \cup {"none"}] /\ asked \subseteq Conn
  BY DeliveryKind DEF TypeOK
<1>4. inbox' \in [Conn -> Kind \cup {"none"}] /\ asked' \subseteq Conn
  BY <1>2, <1>3
<1>5. TypeOK'
  BY <1>4 DEF ClientSends, TypeOK, queues, vector, select, startupVars
<1>6. SameVector /\ Grown
  BY <1>2 DEF ClientSends, SameVector, Grown, vector
<1>7. InboxInv'
  BY <1>1, <1>2, <1>3 DEF Sound, InboxInv
<1>8. \A b \in Conn : inbox[b] # "none" => inbox'[b] # "none"
  BY <1>2, <1>3
<1> QED BY <1>1, <1>5, <1>6, <1>7, <1>8, OutsideOnly DEF ClientSends, queues

\* A client closes his connection.
LEMMA ClientLeavesStep ==
  ASSUME TypeOK, Up => Sound, NEW c \in Conn, ClientLeaves(c)
  PROVE  TypeOK' /\ (Up' => Sound')
<1>1. Up /\ Sound
  BY DEF ClientLeaves
<1>2. gone' = gone \cup {c} /\ inbox' = inbox
  BY DEF ClientLeaves
<1>3. TypeOK'
  BY <1>2 DEF ClientLeaves, TypeOK, queues, vector, select, startupVars
<1>4. SameVector /\ Grown
  BY <1>2 DEF ClientLeaves, SameVector, Grown, vector
<1>5. InboxInv'
  BY <1>1, <1>2, <1>4, QueueFrames
<1>6. \A b \in Conn : inbox[b] # "none" => inbox'[b] # "none"
  BY <1>2
<1> QED BY <1>1, <1>3, <1>4, <1>5, <1>6, OutsideOnly DEF ClientLeaves, queues

\* The Sender writes the first answer.
LEMMA SendStep ==
  ASSUME TypeOK, Up => Sound, Send
  PROVE  TypeOK' /\ (Up' => Sound')
<1>1. Up /\ Sound /\ pQueue # <<>> /\ pQueue' = Tail(pQueue)
  BY DEF Send, Takes
<1>2. /\ pQueue \in Seq(Answers) /\ Head(pQueue) \in Answers /\ pQueue' \in Seq(Answers)
  <2>1. pQueue \in Seq(Answers)
    BY QueueTypes
  <2> QED BY <1>1, <2>1, HeadTailProperties, LenProperties
<1>3. TypeOK'
  <2>1. sent' \in Conn \cup {NoConn}
    BY <1>2 DEF Send, TypeOK, Answers
  <2> QED BY <1>2, <2>1 DEF Send, TypeOK, Answers, kernel, vector, select, startupVars
<1>4. SameVector /\ Grown
  BY DEF Send, SameVector, Grown, vector, kernel
<1>5. InboxInv'
  BY <1>1, <1>4, QueueFrames DEF Send, kernel
<1> QED BY <1>1, <1>3, <1>4, <1>5, OutsideOnly DEF Send, kernel
-----------------------------------------------------------------------------
(* A connection is accepted and gets its Player object.                    *)

\* A thread that has a number in mind is in a disconnection.
LEMMA MindIsBusy ==
  ASSUME TypeOK, NEW s \in Sock, ~ InMind(s)
  PROVE  /\ s \notin readSocks
         /\ \A t \in Thread : disc[t].socket # s
         /\ \A j \in 1..Len(packetQueue) : packetQueue[j].socket # s
<1>1. \A t \in Thread : disc[t].socket # s
  BY DiscFacts, Specials DEF InMind, TypeOK
<1>2. DOMAIN packetQueue = 1..Len(packetQueue)
  BY DEF TypeOK
<1> QED BY <1>1, <1>2 DEF InMind

\* The number of a closed descriptor nobody has in mind is no object's.
LEMMA NobodysSocket ==
  ASSUME TypeOK, Sound, NEW s \in Sock, conn[s] = NoConn, \A t \in Thread : disc[t].socket # s
  PROVE  \A p \in Conn : sock[p] # s
BY Specials, ZenonT(30) DEF TypeOK, Sound, SockIsOwn

\* accept() returns a number nobody has in mind, or the race is over.
LEMMA AcceptStep ==
  ASSUME TypeOK, Up => Sound, Accept
  PROVE  TypeOK' /\ (Up' => Sound')
<1>1. /\ Up /\ Sound /\ at = "pass" /\ at' = "accepted" /\ born' = born + 1
      /\ readSocks # {} /\ fd = Listener
  BY DEF Accept, ServerAt, Serves
<1>2. PICK s \in Sock : /\ conn[s] = NoConn
                        /\ conn' = [conn EXCEPT ![s] = born + 1]
                        /\ clientSocket' = s
                        /\ IF InMind(s) THEN Ends("reuse") ELSE GoesOn
  BY DEF Accept
<1>3. Listener \in readSocks /\ born < MaxConnections
  <2>1. readSocks \subseteq Sock \cup {Listener}
    BY DEF TypeOK
  <2> QED BY <1>1, <2>1, ListenerFirst DEF Sound, SelectInv
<1>4. born \in Nat /\ born + 1 \in Conn /\ born + 1 \in 0..MaxConnections /\ born + 1 # NoConn
  BY <1>3, Specials DEF TypeOK, NoConn
<1>5. conn \in [Sock -> Conn \cup {NoConn}] /\ conn' \in [Sock -> Conn \cup {NoConn}]
  BY <1>2, <1>4 DEF TypeOK
<1>6. TypeOK'
  <2>1. down' \in {"no", "bind", "start", "select", "player"} \cup Races
        /\ UNCHANGED <<called, built>>
    BY <1>2 DEF Ends, GoesOn, Races, TypeOK, startupVars
  <2> QED BY <1>1, <1>2, <1>4, <1>5, <2>1
      DEF Accept, TypeOK, queues, vector, Singleton, MainCalls
<1> SUFFICES ASSUME Up' PROVE Sound'
  BY <1>6
<1>7. ~ InMind(s)
  BY <1>2 DEF Ends, Up
<1>8. /\ s \notin readSocks
      /\ \A t \in Thread : disc[t].socket # s
      /\ \A j \in 1..Len(packetQueue) : packetQueue[j].socket # s
      /\ \A p \in Conn : sock[p] # s
  BY <1>1, <1>2, <1>7, MindIsBusy, NobodysSocket
<1>9. /\ UNCHANGED <<gone, inbox, packetQueue, commandQueue, pQueue, players, sock>>
      /\ UNCHANGED <<clientSocks, readSocks, readSize, disc, asked>>
      /\ SameVector /\ Grown
  BY DEF Accept, queues, vector, SameVector, Grown
<1>10. conn'[s] = born + 1 /\ \A r \in Sock : r # s => conn'[r] = conn[r]
  BY <1>2, <1>5
<1>11. Enlisted' = Enlisted /\ Enlisted = born
  BY <1>1, <1>4 DEF Enlisted
<1>12. VectorInv'
  BY <1>1, <1>9, <1>11 DEF Sound, VectorInv
<1>13. ConnOnce'
  <2>1. \A r \in Sock : r # s => conn'[r] <= born /\ conn'[r] # born + 1
    BY <1>1, <1>4, <1>5, <1>10, Specials DEF Sound, ConnOnce, NoConn
  <2>2. \A r \in Sock : conn'[r] <= born + 1
    BY <1>4, <1>5, <1>10, <2>1, Specials DEF NoConn
  <2>3. \A q, r \in Sock : conn'[r] = conn'[q] /\ conn'[q] # NoConn => r = q
    BY <1>1, <1>10, <2>1 DEF Sound, ConnOnce
  <2> QED BY <1>1, <2>2, <2>3 DEF ConnOnce
<1>14. OneBusy'
  BY <1>1, <1>9, VectorFrames
<1>15. SockIsOwn'
  BY <1>1, <1>8, <1>9, <1>10, Specials DEF Sound, SockIsOwn, TypeOK
<1>16. DiscInv'
  <2>1. \A t \in Thread : disc[t].socket \in Sock \cup {NoSock}
    BY DiscFacts DEF TypeOK
  <2>2. \A t \in Thread : disc[t].socket # NoSock => conn'[disc[t].socket] = conn[disc[t].socket]
    BY <1>8, <1>10, <2>1
  <2> QED BY <1>1, <1>9, <2>2 DEF Sound, DiscInv, DiscKnows
<1>17. AcceptedInv'
  BY <1>1, <1>2, <1>3, <1>4, <1>8, <1>9, <1>10 DEF AcceptedInv
<1>18. DeadBitHasCloser'
  <2>1. \A r \in Sock : conn'[r] = NoConn => conn[r] = NoConn
    BY <1>2, <1>10
  <2> QED BY <1>1, <1>9, <2>1 DEF Sound, DeadBitHasCloser, TypeOK
<1>19. WatchInv'
  BY <1>1, <1>2, <1>9, <1>10 DEF Sound, WatchInv
<1>20. PacketInv'
  <2>1. \A j \in 1..Len(packetQueue) : packetQueue[j].socket \in Sock
    BY QueueTypes
  <2> QED BY <1>1, <1>8, <1>9, <1>10, <2>1 DEF Sound, PacketInv
<1>21. CommandInv'
  <2>1. \A j \in 1..Len(commandQueue) : commandQueue[j].player \in Conn \cup {NoConn}
    BY QueueTypes
  <2>2. \A p \in Conn : sock[p] # NoSock => conn'[sock[p]] = conn[sock[p]]
    BY <1>8, <1>10 DEF TypeOK
  <2> QED BY <1>1, <1>9, <1>11, <2>1, <2>2 DEF Sound, CommandInv
<1>22. InboxInv'
  BY <1>1, <1>9, QueueFrames
<1>23. SelectInv'
  <2>1. \A r \in readSocks \ {Listener} : r \in Sock /\ r # s /\ Ready(r)
    BY <1>1, <1>8 DEF Sound, SelectInv, TypeOK
  <2> QED BY <1>1, <1>9, <1>10, <2>1 DEF SelectInv, Ready
<1>24. NobodyDropped'
  <2> SUFFICES ASSUME NEW c \in Conn, c <= born + 1
               PROVE  Open(c)' \/ c \in gone \cup asked
    BY <1>1, <1>9 DEF NobodyDropped
  <2>1. CASE c = born + 1
    BY <1>10, <2>1 DEF Open
  <2>2. CASE c <= born
    <3>1. Open(c) => Open(c)'
      BY <1>2, <1>10, Specials DEF Open
    <3> QED BY <1>1, <2>2, <3>1 DEF Sound, NobodyDropped
  <2> QED BY <1>4, <2>1, <2>2, Specials
<1> QED BY <1>12, <1>13, <1>14, <1>15, <1>16, <1>17, <1>18, <1>19, <1>20, <1>21, <1>22,
           <1>23, <1>24 DEF Sound
\* The player goes to the end of the vector; his number is nobody else's.
LEMMA EnlistStep ==
  ASSUME TypeOK, Up => Sound, Enlist
  PROVE  TypeOK' /\ (Up' => Sound')
<1> DEFINE b == born
           s == clientSocket
<1>1. /\ Up /\ Sound /\ at = "accepted" /\ at' = "pass"
      /\ clientSocks' = clientSocks \cup {s}
      /\ sock' = [sock EXCEPT ![b] = s]
      /\ players' = Append(players, b)
      /\ readSocks' = readSocks \ {fd}
  BY DEF Enlist, ServerAt, Served, Watched
<1>2. /\ UNCHANGED <<startupVars, conn, born, gone, inbox, packetQueue, commandQueue, pQueue>>
      /\ UNCHANGED <<clientSocket, readSize, disc, asked>>
      /\ sent' = NoConn /\ Grown
  BY DEF Enlist, kernel, queues, Grown
<1>3. /\ Listener \in readSocks /\ b \in Conn /\ s \in Sock /\ conn[s] = b
      /\ \A t \in Thread : disc[t].socket # s
  BY <1>1 DEF Sound, AcceptedInv
<1>4. readSocks \subseteq Sock \cup {Listener} /\ fd = Listener /\ fd \in readSocks
  <2>1. readSocks \subseteq Sock \cup {Listener}
    BY DEF TypeOK
  <2> QED BY <1>3, <2>1, ListenerFirst
<1>5. /\ b \in Nat /\ b # 0 /\ b - 1 \in Nat /\ Enlisted = b - 1 /\ Enlisted' = b
      /\ s # NoSock /\ b # NoConn
  BY <1>1, <1>2, <1>3, Specials DEF Enlisted
<1>6. /\ players \in Seq(1..(b - 1)) /\ Len(players) \in Nat /\ Len(players) <= b - 1
      /\ \A i \in 1..Len(players) : players[i] \in 1..(b - 1)
  <2>1. players \in Seq(1..(b - 1)) /\ Len(players) <= b - 1
    BY <1>1, <1>5 DEF Sound, VectorInv
  <2> QED BY <2>1, ElementOfSeq, LenProperties
<1>7. sock[b] = NoSock
  BY <1>1, <1>3, <1>5, <1>6, SMTT(30) DEF Sound, VectorInv
<1>8. sock \in [Conn -> Sock \cup {NoSock}] /\ conn \in [Sock -> Conn \cup {NoConn}]
  BY DEF TypeOK
<1>9. \A p \in Conn : sock[p] # s
  BY <1>1, <1>3, <1>5, <1>7 DEF Sound, SockIsOwn
<1>10. /\ sock'[b] = s /\ \A p \in Conn : p # b => sock'[p] = sock[p]
       /\ sock' \in [Conn -> Sock \cup {NoSock}]
  BY <1>1, <1>3, <1>8
<1> HIDE DEF s, b
<1>11. /\ players' \in Seq(1..b) /\ Len(players') = Len(players) + 1
       /\ \A i \in 1..Len(players) : players'[i] = players[i]
       /\ players'[Len(players) + 1] = b
  <2>1. players \in Seq(1..b) /\ b \in 1..b
    <3>1. \A i \in 1..Len(players) : players[i] \in 1..b
      BY <1>5, <1>6
    <3> QED BY <1>5, <1>6, <3>1
  <2> QED BY <1>1, <2>1, AppendProperties
<1>12. TypeOK'
  <2>1. players' \in Seq(Conn)
    <3>1. players \in Seq(Conn)
      BY DEF TypeOK
    <3> QED BY <1>1, <1>3, <3>1, AppendProperties DEF b
  <2>2. clientSocks' \subseteq Sock /\ readSocks' \subseteq Sock \cup {Listener}
    BY <1>1, <1>3, <1>4 DEF TypeOK
  <2> QED BY <1>1, <1>2, <1>10, <2>1, <2>2 DEF TypeOK, startupVars, Singleton, MainCalls, Races
<1>13. VectorInv'
  <2>1. Len(players') <= b
    BY <1>5, <1>6, <1>11
  <2>2. ASSUME NEW i \in 1..Len(players'), NEW j \in 1..Len(players'), players'[i] = players'[j]
        PROVE  i = j
    <3>1. i \in 1..Len(players) \/ i = Len(players) + 1
      BY <1>6, <1>11
    <3>2. j \in 1..Len(players) \/ j = Len(players) + 1
      BY <1>6, <1>11
    <3>3. \A k \in 1..Len(players) : players'[k] # b
      BY <1>5, <1>6, <1>11
    <3>4. CASE i \in 1..Len(players) /\ j \in 1..Len(players)
      BY <1>1, <1>11, <2>2, <3>4 DEF Sound, VectorInv
    <3> QED BY <1>11, <2>2, <3>1, <3>2, <3>3, <3>4
  <2>3. ASSUME NEW p \in Conn
        PROVE  sock'[p] # NoSock <=> \E i \in 1..Len(players') : players'[i] = p
    <3>1. CASE p = b
      <4>1. Len(players) + 1 \in 1..Len(players')
        BY <1>6, <1>11
      <4> QED BY <1>5, <1>10, <1>11, <3>1, <4>1
    <3>2. CASE p # b
      <4>1. \A i \in 1..Len(players') : i \in 1..Len(players) \/ i = Len(players) + 1
        BY <1>6, <1>11
      <4>2. 1..Len(players) \subseteq 1..Len(players')
        BY <1>6, <1>11
      <4>3. (\E i \in 1..Len(players') : players'[i] = p) <=> \E i \in 1..Len(players) : players[i] = p
        BY <1>11, <3>2, <4>1, <4>2
      <4> QED BY <1>1, <1>10, <3>2, <4>3 DEF Sound, VectorInv
    <3> QED BY <3>1, <3>2
  <2>4. \A p, q \in Conn : sock'[p] = sock'[q] /\ sock'[p] # NoSock => p = q
    BY <1>1, <1>9, <1>10 DEF Sound, VectorInv
  <2> QED BY <1>5, <1>11, <2>1, <2>2, <2>3, <2>4 DEF VectorInv
<1>14. ConnOnce' /\ OneBusy'
  BY <1>1, <1>2, VectorFrames
<1>15. SockIsOwn'
  BY <1>1, <1>2, <1>3, <1>10 DEF Sound, SockIsOwn, s, b
<1>16. DiscInv'
  <2> SUFFICES ASSUME NEW t \in Thread PROVE DiscKnows(disc[t])'
    BY DEF DiscInv
  <2>1. DiscKnows(disc[t])
    BY <1>1 DEF Sound, DiscInv
  <2>2. disc[t].step = "erase" =>
          /\ disc[t].index \in 1..Len(players') /\ players'[disc[t].index] = disc[t].player
          /\ sock'[disc[t].player] = disc[t].socket
    <3>1. ASSUME disc[t].step = "erase"
          PROVE  /\ disc[t].index \in 1..Len(players)
                 /\ players[disc[t].index] = disc[t].player /\ sock[disc[t].player] = disc[t].socket
                 /\ disc[t].player \in Conn
      <4>1. players \in Seq(Conn)
        BY DEF TypeOK
      <4> QED BY <2>1, <3>1, <4>1, ElementOfSeq DEF DiscKnows
    <3>2. disc[t].step = "erase" => disc[t].player # b
      BY <1>5, <1>6, <3>1
    <3> QED BY <1>6, <1>10, <1>11, <3>1, <3>2
  <2> QED BY <1>2, <2>1, <2>2 DEF DiscKnows
<1>17. AcceptedInv'
  BY <1>1 DEF AcceptedInv
<1>18. DeadBitHasCloser'
  BY <1>1, <1>2, <1>3, <1>5 DEF Sound, DeadBitHasCloser, s, b
<1>19. WatchInv'
  <2> SUFFICES ASSUME NEW r \in Sock, conn[r] # NoConn
               PROVE  r \in clientSocks' /\ sock'[conn[r]] = r
    BY <1>2 DEF WatchInv
  <2>1. CASE r = s
    BY <1>1, <1>3, <1>10, <2>1
  <2>2. CASE r # s
    <3>1. r \in clientSocks /\ sock[conn[r]] = r
      BY <1>1, <2>2 DEF Sound, WatchInv, s
    <3>2. conn[r] # b /\ conn[r] \in Conn
      BY <1>1, <1>3, <1>5, <1>8, <2>2 DEF Sound, ConnOnce
    <3> QED BY <1>1, <1>10, <3>1, <3>2
  <2> QED BY <2>1, <2>2
<1>20. PacketInv' /\ InboxInv' /\ NobodyDropped'
  BY <1>1, <1>2, QueueFrames
<1>21. CommandInv'
  <2> SUFFICES ASSUME NEW i \in 1..Len(commandQueue)
               PROVE  LET p == commandQueue[i].player
                      IN  /\ p <= b
                          /\ commandQueue[i].kind = "logout" /\ p # NoConn =>
                               p \in asked \/ sock'[p] = NoSock \/ conn[sock'[p]] = NoConn
    BY <1>2, <1>5 DEF CommandInv
  <2> DEFINE p == commandQueue[i].player
  <2>1. p \in Conn \cup {NoConn} /\ p <= b - 1
    BY <1>1, <1>5, QueueTypes DEF Sound, CommandInv
  <2>2. p # b /\ p <= b
    BY <1>5, <2>1, Specials DEF NoConn
  <2> QED BY <1>1, <1>10, <2>1, <2>2 DEF Sound, CommandInv
<1>22. SelectInv'
  <2>1. Listener \notin readSocks' /\ readSocks' \subseteq readSocks
    BY <1>1, <1>4
  <2> QED BY <1>1, <1>2, <2>1 DEF Sound, SelectInv, Ready
<1> QED BY <1>12, <1>13, <1>14, <1>15, <1>16, <1>17, <1>18, <1>19, <1>20, <1>21, <1>22 DEF Sound
-----------------------------------------------------------------------------
(* The disconnection of a player.                                          *)

\* close(): only the connection of a client who left or asked for it ends.
LEMMA CloseStep ==
  ASSUME TypeOK, Up => Sound, NEW t \in Thread, Close(t)
  PROVE  TypeOK' /\ (Up' => Sound')
<1> DEFINE s == disc[t].socket
<1>1. /\ Up /\ Sound /\ disc[t].step = "close"
      /\ conn' = [r \in Sock |-> IF r = s THEN NoConn ELSE conn[r]]
      /\ inbox' = [c \in Conn |-> IF s # NoSock /\ c = conn[s] THEN "none" ELSE inbox[c]]
      /\ disc' = [disc EXCEPT ![t].step = "clear"]
  BY DEF Close, InDisconnection
<1>2. /\ UNCHANGED <<startupVars, born, gone, packetQueue, commandQueue, pQueue, players, sock>>
      /\ UNCHANGED <<clientSocks, readSocks, at, clientSocket, readSize, asked>>
      /\ SameVector /\ SamePlace /\ Grown /\ sent' = NoConn
  BY DEF Close, InDisconnection, queues, vector, select, SameVector, SamePlace, Grown
<1>3. /\ disc \in [Thread -> DiscRec \cup {NoDisc}] /\ s \in Sock \cup {NoSock}
      /\ conn \in [Sock -> Conn \cup {NoConn}] /\ inbox \in [Conn -> Kind \cup {"none"}]
  BY DiscFacts DEF TypeOK
<1>4. /\ disc' \in [Thread -> DiscRec \cup {NoDisc}]
      /\ disc'[t].step = "clear" /\ disc'[t].socket = s
      /\ \A u \in Thread : u # t => disc'[u] = disc[u]
      /\ \A u \in Thread : disc'[u].socket = disc[u].socket
  <2>1. disc[t] \in DiscRec
    BY <1>1, <1>3 DEF NoDisc
  <2>2. [disc[t] EXCEPT !.step = "clear"] \in DiscRec
    BY <2>1 DEF DiscRec
  <2>3. disc' = [disc EXCEPT ![t] = [disc[t] EXCEPT !.step = "clear"]]
    BY <1>1
  <2>4. [disc[t] EXCEPT !.step = "clear"].step = "clear"
        /\ [disc[t] EXCEPT !.step = "clear"].socket = s
    BY <2>1 DEF DiscRec
  <2> QED BY <1>3, <2>2, <2>3, <2>4
<1>5. \A r \in Sock : conn'[r] = IF r = s THEN NoConn ELSE conn[r]
  BY <1>1
<1>6. \A u \in Thread : u # t => ~ Busy(u) /\ disc[u].step = "none" /\ disc[u].socket = NoSock
  <2>1. Busy(t)
    BY <1>1, <1>3, DiscFacts
  <2> QED BY <1>1, <1>3, <2>1, DiscFacts DEF Sound, OneBusy
<1> HIDE DEF s
<1>7. TypeOK'
  <2>1. conn' \in [Sock -> Conn \cup {NoConn}] /\ inbox' \in [Conn -> Kind \cup {"none"}]
    BY <1>1, <1>3
  <2> QED BY <1>2, <1>4, <2>1 DEF TypeOK, startupVars, MainCalls, Singleton, Races
<1>8. VectorInv'
  BY <1>1, <1>2, VectorFrames
<1>9. ConnOnce'
  <2>1. \A r \in Sock : conn'[r] <= born
    BY <1>1, <1>2, <1>3, <1>5, Specials DEF Sound, ConnOnce, TypeOK, NoConn
  <2>2. \A q, r \in Sock : conn'[r] = conn'[q] /\ conn'[q] # NoConn => r = q
    BY <1>1, <1>5 DEF Sound, ConnOnce
  <2> QED BY <1>2, <2>1, <2>2 DEF ConnOnce
<1>10. OneBusy'
  <2>1. \A u \in Thread : u # t => ~ Busy(u)'
    BY <1>4, <1>6 DEF Busy
  <2> QED BY <2>1 DEF OneBusy
<1>11. SockIsOwn'
  <2> SUFFICES ASSUME NEW p \in Conn, sock[p] # NoSock
               PROVE  \/ conn'[sock[p]] = p
                      \/ /\ conn'[sock[p]] = NoConn
                         /\ \E u \in Thread : disc'[u].socket = sock[p] /\ disc'[u].step # "close"
    BY <1>2 DEF SockIsOwn
  <2>1. sock[p] \in Sock
    BY DEF TypeOK
  <2>2. CASE sock[p] = s
    BY <1>4, <1>5, <2>1, <2>2
  <2>3. CASE sock[p] # s
    <3>1. \A u \in Thread : disc[u].socket # sock[p]
      BY <1>6, <2>3 DEF s
    <3>2. conn[sock[p]] = p
      BY <1>1, <3>1 DEF Sound, SockIsOwn
    <3> QED BY <1>5, <2>1, <2>3, <3>2
  <2> QED BY <2>2, <2>3
<1>12. DiscInv'
  <2> SUFFICES ASSUME NEW u \in Thread PROVE DiscKnows(disc[u])'
    BY DEF DiscInv
  <2>1. CASE u = t
    <3>1. s # NoSock => conn'[s] = NoConn
      BY <1>3, <1>5
    <3> QED BY <1>4, <2>1, <3>1 DEF DiscKnows
  <2>2. CASE u # t
    BY <1>4, <1>6, <2>2 DEF DiscKnows
  <2> QED BY <2>1, <2>2
<1>13. AcceptedInv'
  <2>1. at = "accepted" => clientSocket \in Sock /\ clientSocket # s
    BY <1>1 DEF Sound, AcceptedInv, s
  <2> QED BY <1>1, <1>2, <1>4, <1>5, <2>1 DEF Sound, AcceptedInv
<1>14. DeadBitHasCloser'
  <2> SUFFICES ASSUME NEW r \in clientSocks, conn'[r] = NoConn
               PROVE  \E u \in Thread : disc'[u].socket = r /\ disc'[u].step = "clear"
    BY <1>2 DEF DeadBitHasCloser
  <2>1. r \in Sock
    BY DEF TypeOK
  <2>2. CASE r = s
    BY <1>4, <2>2
  <2>3. CASE r # s
    BY <1>1, <1>4, <1>5, <2>1, <2>3 DEF Sound, DeadBitHasCloser
  <2> QED BY <2>2, <2>3
<1>15. WatchInv'
  BY <1>1, <1>2, <1>5 DEF Sound, WatchInv
<1>16. PacketInv'
  BY <1>1, <1>2, <1>5, QueueTypes DEF Sound, PacketInv
<1>17. CommandInv'
  <2>1. \A p \in Conn : sock[p] # NoSock /\ conn[sock[p]] = NoConn => conn'[sock[p]] = NoConn
    BY <1>5 DEF TypeOK
  <2>2. Enlisted' = Enlisted
    BY <1>2 DEF Enlisted
  <2> QED BY <1>1, <1>2, <2>1, <2>2, QueueTypes DEF Sound, CommandInv
<1>18. InboxInv'
  BY <1>1, <1>2 DEF Sound, InboxInv
<1>19. SelectInv'
  <2> SUFFICES ASSUME NEW r \in Sock, conn'[r] # NoConn
               PROVE  conn'[r] = conn[r] /\ inbox'[conn[r]] = inbox[conn[r]]
    BY <1>1, <1>2, SelectFrame
  <2>1. r # s /\ conn'[r] = conn[r] /\ conn[r] \in Conn
    BY <1>3, <1>5
  <2>2. s # NoSock => conn[s] # conn[r]
    BY <1>1, <1>3, <2>1 DEF Sound, ConnOnce
  <2> QED BY <1>1, <2>1, <2>2
<1>20. NobodyDropped'
  <2> SUFFICES ASSUME NEW c \in Conn, c <= born
               PROVE  Open(c)' \/ c \in gone \cup asked
    BY <1>2 DEF NobodyDropped
  <2>1. CASE s # NoSock /\ conn[s] = c
    <3>1. DiscKnows(disc[t]) /\ c # NoConn
      BY <1>1, Specials DEF Sound, DiscInv
    <3> QED BY <1>1, <2>1, <3>1 DEF DiscKnows, s
  <2>2. CASE s = NoSock \/ conn[s] # c
    <3>1. s = NoSock => s \notin Sock
      BY Specials
    <3>2. Open(c) => Open(c)'
      BY <1>5, <2>2, <3>1 DEF Open
    <3> QED BY <1>1, <3>2 DEF Sound, NobodyDropped
  <2> QED BY <2>1, <2>2
<1> QED BY <1>7, <1>8, <1>9, <1>10, <1>11, <1>12, <1>13, <1>14, <1>15, <1>16, <1>17, <1>18,
           <1>19, <1>20 DEF Sound
\* FD_CLR: the descriptor is closed already.
LEMMA ClearStep ==
  ASSUME TypeOK, Up => Sound, NEW t \in Thread, Clear(t)
  PROVE  TypeOK' /\ (Up' => Sound')
<1> DEFINE s == disc[t].socket
<1>1. /\ Up /\ Sound /\ disc[t].step = "clear"
      /\ clientSocks' = clientSocks \ {s}
      /\ disc' = [disc EXCEPT ![t].step = "search"]
  BY DEF Clear, InDisconnection, Cleared
<1>2. /\ UNCHANGED <<startupVars, conn, born, gone, inbox, packetQueue, commandQueue, pQueue>>
      /\ UNCHANGED <<players, sock, readSocks, at, clientSocket, readSize, asked>>
      /\ SameVector /\ SamePlace /\ Grown /\ sent' = NoConn
  BY DEF Clear, InDisconnection, kernel, queues, vector, SameVector, SamePlace, Grown
<1>3. /\ disc \in [Thread -> DiscRec \cup {NoDisc}] /\ s \in Sock \cup {NoSock}
  BY DiscFacts DEF TypeOK
<1>4. /\ disc' \in [Thread -> DiscRec \cup {NoDisc}]
      /\ disc'[t].step = "search" /\ disc'[t].socket = s
      /\ \A u \in Thread : u # t => disc'[u] = disc[u]
      /\ \A u \in Thread : disc'[u].socket = disc[u].socket
  <2>1. disc[t] \in DiscRec
    BY <1>1, <1>3 DEF NoDisc
  <2>2. [disc[t] EXCEPT !.step = "search"] \in DiscRec
    BY <2>1 DEF DiscRec
  <2>3. disc' = [disc EXCEPT ![t] = [disc[t] EXCEPT !.step = "search"]]
    BY <1>1
  <2>4. [disc[t] EXCEPT !.step = "search"].step = "search"
        /\ [disc[t] EXCEPT !.step = "search"].socket = s
    BY <2>1 DEF DiscRec
  <2> QED BY <1>3, <2>2, <2>3, <2>4
<1>5. DiscKnows(disc[t]) /\ (s # NoSock => conn[s] = NoConn)
  BY <1>1 DEF Sound, DiscInv, DiscKnows
<1> HIDE DEF s
<1>6. \A u \in Thread : u # t => ~ Busy(u) /\ disc[u].step = "none" /\ disc[u].socket = NoSock
  <2>1. Busy(t)
    BY <1>1, <1>3, DiscFacts
  <2> QED BY <1>1, <1>3, <2>1, DiscFacts DEF Sound, OneBusy
<1>7. TypeOK'
  BY <1>1, <1>2, <1>4 DEF TypeOK, startupVars, MainCalls, Singleton, Races
<1>8. VectorInv' /\ ConnOnce'
  BY <1>1, <1>2, VectorFrames
<1>9. OneBusy'
  <2>1. \A u \in Thread : u # t => ~ Busy(u)'
    BY <1>4, <1>6 DEF Busy
  <2> QED BY <2>1 DEF OneBusy
<1>10. SockIsOwn'
  <2>1. \A u \in Thread : disc[u].step # "close" => disc'[u].step # "close"
    BY <1>4
  <2> QED BY <1>1, <1>2, <1>4, <2>1 DEF Sound, SockIsOwn
<1>11. DiscInv'
  <2> SUFFICES ASSUME NEW u \in Thread PROVE DiscKnows(disc[u])'
    BY DEF DiscInv
  <2>1. CASE u = t
    BY <1>2, <1>4, <1>5, <2>1 DEF DiscKnows
  <2>2. CASE u # t
    BY <1>4, <1>6, <2>2 DEF DiscKnows
  <2> QED BY <2>1, <2>2
<1>12. AcceptedInv'
  BY <1>1, <1>2, <1>4 DEF Sound, AcceptedInv
<1>13. DeadBitHasCloser'
  BY <1>1, <1>2, <1>4 DEF Sound, DeadBitHasCloser, s
<1>14. WatchInv'
  <2>1. \A r \in Sock : conn[r] # NoConn => r # s
    BY <1>5, Specials
  <2> QED BY <1>1, <1>2, <2>1 DEF Sound, WatchInv
<1>15. PacketInv' /\ CommandInv' /\ InboxInv' /\ NobodyDropped'
  BY <1>1, <1>2, QueueFrames
<1>16. SelectInv'
  BY <1>1, <1>2, SelectFrame
<1> QED BY <1>7, <1>8, <1>9, <1>10, <1>11, <1>12, <1>13, <1>14, <1>15, <1>16 DEF Sound

\* The search finds a player, with the closed socket, at the index it saves.
LEMMA SearchStep ==
  ASSUME TypeOK, Up => Sound, NEW t \in Thread, Search(t)
  PROVE  TypeOK' /\ (Up' => Sound')
<1> DEFINE s == disc[t].socket
           i == IndexBySocket(s)
           d == [disc[t] EXCEPT !.step = "erase", !.player = players[i], !.index = i]
<1>1. /\ Up /\ Sound /\ disc[t].step = "search"
      /\ \/ i # 0 /\ disc' = [disc EXCEPT ![t] = d] /\ GoesOn
         \/ i = 0 /\ Ends("nobody") /\ UNCHANGED disc
  BY DEF Search, InDisconnection
<1>2. /\ UNCHANGED <<conn, born, gone, inbox, packetQueue, commandQueue, pQueue, asked>>
      /\ UNCHANGED <<players, sock, clientSocks, readSocks, at, clientSocket, readSize>>
      /\ SameVector /\ SamePlace /\ Grown /\ sent' = NoConn
  BY DEF Search, InDisconnection, kernel, queues, vector, select, SameVector, SamePlace, Grown
<1>3. /\ disc \in [Thread -> DiscRec \cup {NoDisc}] /\ s \in Sock \cup {NoSock}
      /\ players \in Seq(Conn) /\ Len(players) \in Nat
  BY DiscFacts, LenProperties DEF TypeOK
<1>4. /\ i \in 0..Len(players)
      /\ i # 0 => i \in 1..Len(players) /\ sock[players[i]] = s /\ s # NoSock /\ players[i] \in Conn
  <2>1. i \in 0..Len(players) /\ (i # 0 => sock[players[i]] = s /\ s # NoSock)
    BY <1>3, Found
  <2>2. i # 0 => i \in 1..Len(players)
    BY <1>3, <2>1
  <2> HIDE DEF i
  <2> QED BY <1>3, <2>1, <2>2, ElementOfSeq
<1>5. DiscKnows(disc[t]) /\ (s # NoSock => conn[s] = NoConn)
  BY <1>1 DEF Sound, DiscInv, DiscKnows
<1>6. \A u \in Thread : u # t => ~ Busy(u) /\ disc[u].step = "none" /\ disc[u].socket = NoSock
  <2>1. Busy(t)
    BY <1>1, <1>3, DiscFacts
  <2> QED BY <1>1, <1>3, <2>1, DiscFacts DEF Sound, OneBusy
<1>7. disc[t] \in DiscRec
  BY <1>1, <1>3 DEF NoDisc
<1>8. d.step = "erase" /\ d.socket = s /\ d.player = players[i] /\ d.index = i
  BY <1>7 DEF DiscRec
<1>9. i # 0 => d \in DiscRec
  <2>1. i # 0 => i \in 0..MaxConnections
    <3>1. Len(players) <= MaxConnections
      <4>1. Len(players) <= Enlisted /\ Enlisted <= MaxConnections /\ Enlisted \in Int
        BY <1>1, Specials DEF Sound, VectorInv, Enlisted, TypeOK
      <4> QED BY <1>3, <4>1, Specials
    <3> QED BY <1>3, <1>4, <3>1, Specials
  <2> HIDE DEF i, s
  <2> QED BY <1>4, <1>7, <2>1 DEF DiscRec
<1> HIDE DEF s, i, d
<1>10. TypeOK'
  <2>1. disc' \in [Thread -> DiscRec \cup {NoDisc}]
    BY <1>1, <1>3, <1>9
  <2>2. down' \in {"no", "bind", "start", "select", "player"} \cup Races
        /\ UNCHANGED <<called, built>>
    BY <1>1 DEF Ends, GoesOn, Races, TypeOK, startupVars
  <2> QED BY <1>2, <2>1, <2>2 DEF TypeOK, Singleton, MainCalls
<1> SUFFICES ASSUME Up' PROVE Sound'
  BY <1>10
<1>11. i # 0 /\ disc' = [disc EXCEPT ![t] = d]
  BY <1>1 DEF Ends, Up
<1>12. disc'[t] = d /\ \A u \in Thread : u # t => disc'[u] = disc[u]
  BY <1>3, <1>11
<1>13. \A u \in Thread : disc'[u].socket = disc[u].socket
  BY <1>8, <1>12 DEF s
<1>14. VectorInv' /\ ConnOnce'
  BY <1>1, <1>2, VectorFrames
<1>15. OneBusy'
  <2>1. \A u \in Thread : u # t => ~ Busy(u)'
    BY <1>6, <1>12 DEF Busy
  <2> QED BY <2>1 DEF OneBusy
<1>16. SockIsOwn'
  <2>1. \A u \in Thread : disc[u].step # "close" => disc'[u].step # "close"
    BY <1>8, <1>12
  <2> QED BY <1>1, <1>2, <1>13, <2>1 DEF Sound, SockIsOwn
<1>17. DiscInv'
  <2> SUFFICES ASSUME NEW u \in Thread PROVE DiscKnows(disc[u])'
    BY DEF DiscInv
  <2>1. CASE u = t
    BY <1>2, <1>4, <1>5, <1>8, <1>11, <1>12, <2>1 DEF DiscKnows
  <2>2. CASE u # t
    BY <1>6, <1>12, <2>2 DEF DiscKnows
  <2> QED BY <2>1, <2>2
<1>18. AcceptedInv'
  BY <1>1, <1>2, <1>13 DEF Sound, AcceptedInv
<1>19. DeadBitHasCloser'
  <2>1. \A u \in Thread : disc[u].step = "clear" => disc'[u] = disc[u]
    BY <1>1, <1>12
  <2> QED BY <1>1, <1>2, <2>1 DEF Sound, DeadBitHasCloser
<1>20. WatchInv'
  BY <1>1, <1>2, VectorFrames
<1>21. PacketInv' /\ CommandInv' /\ InboxInv' /\ NobodyDropped'
  BY <1>1, <1>2, QueueFrames
<1>22. SelectInv'
  BY <1>1, <1>2, SelectFrame
<1> QED BY <1>14, <1>15, <1>16, <1>17, <1>18, <1>19, <1>20, <1>21, <1>22 DEF Sound

\* Erasing an element of a vector that has none twice.
LEMMA Erasing ==
  ASSUME NEW S, NEW v \in Seq(S), NEW i \in 1..Len(v),
         \A j, k \in 1..Len(v) : v[j] = v[k] => j = k
  PROVE  LET w == RemoveAt(v, i)
         IN  /\ w \in Seq(S) /\ Len(w) = Len(v) - 1
             /\ \A j, k \in 1..Len(w) : w[j] = w[k] => j = k
             /\ \A x : (\E j \in 1..Len(w) : w[j] = x) <=> x # v[i] /\ \E j \in 1..Len(v) : v[j] = x
<1> DEFINE w == RemoveAt(v, i)
           n == Len(v)
<1>1. /\ w \in Seq(S) /\ Len(w) = n - 1
      /\ \A j \in 1..(n - 1) : w[j] = IF j < i THEN v[j] ELSE v[j + 1]
  BY RemoveAtProperties
<1>2. n \in Nat /\ i \in 1..n
  BY LenProperties
<1>3. \A j, k \in 1..n : v[j] = v[k] => j = k
  OBVIOUS
<1> HIDE DEF w, n
<1>4. ASSUME NEW j \in 1..(n - 1), NEW k \in 1..(n - 1), w[j] = w[k]
      PROVE  j = k
  <2>1. j \in 1..n /\ k \in 1..n /\ j + 1 \in 1..n /\ k + 1 \in 1..n
    BY <1>2
  <2>2. CASE j < i /\ k < i
    BY <1>1, <1>3, <1>4, <2>1, <2>2
  <2>3. CASE j < i /\ ~ (k < i)
    <3>1. v[j] = v[k + 1]
      BY <1>1, <1>4, <2>3
    <3>2. j = k + 1
      BY <1>3, <2>1, <3>1
    <3> QED BY <1>2, <2>3, <3>2
  <2>4. CASE ~ (j < i) /\ k < i
    <3>1. v[j + 1] = v[k]
      BY <1>1, <1>4, <2>4
    <3>2. j + 1 = k
      BY <1>3, <2>1, <3>1
    <3> QED BY <1>2, <2>4, <3>2
  <2>5. CASE ~ (j < i) /\ ~ (k < i)
    <3>1. v[j + 1] = v[k + 1]
      BY <1>1, <1>4, <2>5
    <3>2. j + 1 = k + 1
      BY <1>3, <2>1, <3>1
    <3> QED BY <3>2
  <2> QED BY <2>2, <2>3, <2>4, <2>5
<1>5. ASSUME NEW j \in 1..(n - 1)
      PROVE  w[j] # v[i] /\ \E k \in 1..n : v[k] = w[j]
  <2>1. CASE j < i
    <3>1. w[j] = v[j] /\ j \in 1..n /\ j # i
      BY <1>1, <1>2, <2>1
    <3> QED BY <1>2, <1>3, <3>1
  <2>2. CASE ~ (j < i)
    <3>1. w[j] = v[j + 1] /\ j + 1 \in 1..n /\ j + 1 # i
      BY <1>1, <1>2, <2>2
    <3> QED BY <1>2, <1>3, <3>1
  <2> QED BY <2>1, <2>2
<1>6. ASSUME NEW k \in 1..n, v[k] # v[i]
      PROVE  \E j \in 1..(n - 1) : w[j] = v[k]
  <2>1. CASE k < i
    <3>1. k \in 1..(n - 1) /\ w[k] = v[k]
      BY <1>1, <1>2, <2>1
    <3> QED BY <3>1
  <2>2. CASE k > i
    <3>1. k - 1 \in 1..(n - 1) /\ ~ (k - 1 < i) /\ (k - 1) + 1 = k
      BY <1>2, <2>2
    <3>2. w[k - 1] = v[k]
      BY <1>1, <3>1
    <3> QED BY <3>1, <3>2
  <2> QED BY <1>2, <1>6, <2>1, <2>2
<1>7. \A x : (\E j \in 1..(n - 1) : w[j] = x) <=> x # v[i] /\ \E j \in 1..n : v[j] = x
  BY <1>5, <1>6
<1> QED BY <1>1, <1>4, <1>7 DEF w, n

\* The right one is erased, and loses the descriptor.
LEMMA EraseStep ==
  ASSUME TypeOK, Up => Sound, NEW t \in Thread, Erase(t)
  PROVE  TypeOK' /\ (Up' => Sound')
<1> DEFINE s == disc[t].socket
           p == disc[t].player
           i == disc[t].index
<1>1. /\ Up /\ Sound /\ disc[t].step = "erase"
      /\ sock' = [sock EXCEPT ![p] = NoSock]
      /\ players' = RemoveAt(players, i)
      /\ disc' = [disc EXCEPT ![t] = NoDisc]
  BY DEF Erase, InDisconnection, Erased
<1>2. /\ UNCHANGED <<startupVars, conn, born, gone, inbox, packetQueue, commandQueue, pQueue>>
      /\ UNCHANGED <<clientSocks, readSocks, at, clientSocket, readSize, asked>>
      /\ SamePlace /\ Grown /\ sent' = NoConn
  BY DEF Erase, InDisconnection, kernel, queues, select, SamePlace, Grown
<1>3. /\ disc \in [Thread -> DiscRec \cup {NoDisc}] /\ s \in Sock \cup {NoSock}
      /\ sock \in [Conn -> Sock \cup {NoSock}] /\ players \in Seq(Conn)
  BY DiscFacts DEF TypeOK
<1>4. /\ s # NoSock /\ conn[s] = NoConn
      /\ i \in 1..Len(players) /\ players[i] = p /\ sock[p] = s
  BY <1>1 DEF Sound, DiscInv, DiscKnows
<1>5. p \in Conn
  <2> HIDE DEF p, i
  <2> QED BY <1>3, <1>4, ElementOfSeq
<1>6. /\ disc' \in [Thread -> DiscRec \cup {NoDisc}]
      /\ disc'[t] = NoDisc /\ NoDisc.step = "none" /\ NoDisc.socket = NoSock
      /\ \A u \in Thread : u # t => disc'[u] = disc[u]
  BY <1>1, <1>3 DEF NoDisc
<1>7. \A u \in Thread : u # t => ~ Busy(u) /\ disc[u].step = "none" /\ disc[u].socket = NoSock
  <2>1. Busy(t)
    BY <1>1, <1>3, DiscFacts
  <2> QED BY <1>1, <1>3, <2>1, DiscFacts DEF Sound, OneBusy
<1> HIDE DEF s, p, i
<1>8. \A u \in Thread : ~ Busy(u)' /\ disc'[u].step = "none" /\ disc'[u].socket = NoSock
  BY <1>6, <1>7 DEF Busy
<1>9. /\ sock' \in [Conn -> Sock \cup {NoSock}]
      /\ sock'[p] = NoSock /\ \A q \in Conn : q # p => sock'[q] = sock[q]
  BY <1>1, <1>3, <1>5
<1>10. /\ \A j, k \in 1..Len(players) : players[j] = players[k] => j = k
       /\ players \in Seq(1..Enlisted) /\ Len(players) \in Nat /\ Len(players) <= Enlisted
  BY <1>1, LenProperties DEF Sound, VectorInv
<1>11. /\ players' \in Seq(Conn) /\ players' \in Seq(1..Enlisted)
       /\ Len(players') = Len(players) - 1
       /\ \A j, k \in 1..Len(players') : players'[j] = players'[k] => j = k
       /\ \A x : (\E j \in 1..Len(players') : players'[j] = x)
                   <=> x # p /\ \E j \in 1..Len(players) : players[j] = x
  <2>1. players' \in Seq(Conn)
    BY <1>1, <1>3, <1>4, <1>10, Erasing
  <2> DEFINE E == 1..Enlisted
             w == RemoveAt(players, i)
  <2>2. players \in Seq(E) /\ i \in 1..Len(players)
    BY <1>4, <1>10
  <2> HIDE DEF E
  <2>3. /\ w \in Seq(E) /\ Len(w) = Len(players) - 1
        /\ \A j, k \in 1..Len(w) : w[j] = w[k] => j = k
        /\ \A x : (\E j \in 1..Len(w) : w[j] = x)
                    <=> x # players[i] /\ \E j \in 1..Len(players) : players[j] = x
    BY <1>10, <2>2, Erasing
  <2> HIDE DEF w
  <2>4. players' = w
    BY <1>1 DEF w
  <2> QED BY <1>4, <2>1, <2>3, <2>4 DEF E
<1>12. TypeOK'
  BY <1>2, <1>6, <1>9, <1>11 DEF TypeOK, startupVars, MainCalls, Singleton, Races
<1>13. VectorInv'
  <2>1. Enlisted' = Enlisted /\ Enlisted \in Int
    BY <1>2 DEF Enlisted, TypeOK
  <2>2. Len(players') <= Enlisted
    BY <1>10, <1>11, <2>1
  <2>3. \A q \in Conn : sock'[q] # NoSock <=> \E j \in 1..Len(players') : players'[j] = q
    BY <1>1, <1>9, <1>11 DEF Sound, VectorInv
  <2>4. \A q, r \in Conn : sock'[q] = sock'[r] /\ sock'[q] # NoSock => q = r
    BY <1>1, <1>9 DEF Sound, VectorInv
  <2> QED BY <1>11, <2>1, <2>2, <2>3, <2>4 DEF VectorInv
<1>14. ConnOnce'
  BY <1>1, <1>2, VectorFrames
<1>15. OneBusy' /\ DiscInv'
  BY <1>8 DEF OneBusy, DiscInv, DiscKnows
<1>16. SockIsOwn'
  <2> SUFFICES ASSUME NEW q \in Conn, sock'[q] # NoSock PROVE conn[sock'[q]] = q
    BY <1>2 DEF SockIsOwn
  <2>1. q # p /\ sock'[q] = sock[q]
    BY <1>9
  <2>2. sock[q] # s
    BY <1>1, <1>4, <1>5, <2>1 DEF Sound, VectorInv
  <2>3. \A u \in Thread : disc[u].socket # sock[q]
    BY <1>7, <2>1, <2>2 DEF s
  <2> QED BY <1>1, <2>1, <2>3 DEF Sound, SockIsOwn
<1>17. AcceptedInv'
  BY <1>1, <1>2, <1>8, Specials DEF Sound, AcceptedInv
<1>18. DeadBitHasCloser'
  <2>1. \A u \in Thread : disc[u].step # "clear"
    BY <1>1, <1>7
  <2> QED BY <1>1, <1>2, <2>1 DEF Sound, DeadBitHasCloser
<1>19. WatchInv'
  <2>1. \A r \in Sock : conn[r] # NoConn => r # s /\ conn[r] \in Conn
    BY <1>4 DEF TypeOK
  <2> QED BY <1>1, <1>2, <1>4, <1>9, <2>1 DEF Sound, WatchInv
<1>20. PacketInv' /\ InboxInv' /\ NobodyDropped'
  BY <1>1, <1>2, QueueFrames
<1>21. CommandInv'
  <2>1. \A q \in Conn : sock'[q] = sock[q] \/ sock'[q] = NoSock
    BY <1>9
  <2>2. Enlisted' = Enlisted
    BY <1>2 DEF Enlisted
  <2> QED BY <1>1, <1>2, <2>1, <2>2, QueueTypes DEF Sound, CommandInv
<1>22. SelectInv'
  BY <1>1, <1>2, SelectFrame
<1> QED BY <1>12, <1>13, <1>14, <1>15, <1>16, <1>17, <1>18, <1>19, <1>20, <1>21, <1>22 DEF Sound
-----------------------------------------------------------------------------
(* A thread begins a disconnection.                                        *)

\* What it holds then, and what becomes of the process.
LEMMA BeginsType ==
  ASSUME TypeOK, NEW t \in Thread, NEW s \in Sock \cup {NoSock}, Begins(t, s)
  PROVE  /\ disc' \in [Thread -> DiscRec \cup {NoDisc}]
         /\ disc'[t].step = "close" /\ disc'[t].socket = s
         /\ \A u \in Thread : u # t => disc'[u] = disc[u]
         /\ UNCHANGED <<called, built>> /\ down' \in {down, "overlap"}
         /\ down' \in {"no", "bind", "start", "select", "player"} \cup Races
         /\ down' = "no" => \A u \in Thread : ~ Busy(u)
<1> DEFINE d == [NoDisc EXCEPT !.step = "close", !.socket = s]
<1>1. NoDisc \in [step : {"none"}, socket : {NoSock}, player : {NoConn}, index : 0..MaxConnections]
  <2>1. 0 \in 0..MaxConnections
    BY Specials
  <2> QED BY <2>1 DEF NoDisc
<1>2. d \in DiscRec /\ d.step = "close" /\ d.socket = s
  BY <1>1 DEF DiscRec
<1>3. disc' = [disc EXCEPT ![t] = d] /\ disc \in [Thread -> DiscRec \cup {NoDisc}]
  BY DEF Begins, TypeOK
<1>4. /\ UNCHANGED <<called, built>> /\ down' \in {down, "overlap"}
      /\ down' = "no" => \A u \in Thread : ~ Busy(u)
  BY DEF Begins, Ends, GoesOn, startupVars
<1>5. down' \in {"no", "bind", "start", "select", "player"} \cup Races
  BY <1>4 DEF TypeOK, Races
<1> HIDE DEF d
<1> QED BY <1>2, <1>3, <1>4, <1>5

\* It begins it with somebody who left or asked for it, and not with the
\* number accept() just returned.
LEMMA BeginsSound ==
  ASSUME TypeOK, Sound, Up, Up', NEW t \in Thread, NEW s \in Sock \cup {NoSock}, Begins(t, s),
         UNCHANGED <<conn, born, gone, players, sock, clientSocks, clientSocket, asked>>,
         SamePlace,
         at = "accepted" => /\ readSocks' = readSocks /\ s # clientSocket
                            /\ \A j \in 1..Len(packetQueue') :
                                 packetQueue'[j].socket # clientSocket,
         s # NoSock /\ conn[s] # NoConn => conn[s] \in gone \cup asked
  PROVE  /\ VectorInv' /\ ConnOnce' /\ OneBusy' /\ SockIsOwn' /\ DiscInv' /\ AcceptedInv'
         /\ DeadBitHasCloser' /\ WatchInv' /\ NobodyDropped'
<1>1. /\ disc'[t].step = "close" /\ disc'[t].socket = s
      /\ \A u \in Thread : u # t => disc'[u] = disc[u]
      /\ \A u \in Thread : ~ Busy(u)
  BY BeginsType DEF Up
<1>2. \A u \in Thread : disc[u].step = "none" /\ disc[u].socket = NoSock
  BY <1>1, DiscFacts DEF TypeOK
<1>3. SameVector /\ Grown
  BY DEF SameVector, Grown
<1>4. VectorInv' /\ ConnOnce' /\ WatchInv' /\ NobodyDropped'
  BY <1>3, VectorFrames, QueueFrames
<1>5. OneBusy'
  <2>1. \A u \in Thread : u # t => ~ Busy(u)'
    BY <1>1 DEF Busy
  <2> QED BY <2>1 DEF OneBusy
<1>6. \A p \in Conn : sock[p] # NoSock => conn[sock[p]] = p
  BY <1>2 DEF Sound, SockIsOwn
<1>7. SockIsOwn'
  BY <1>6 DEF SockIsOwn
<1>8. DiscInv'
  <2> SUFFICES ASSUME NEW u \in Thread PROVE DiscKnows(disc[u])'
    BY DEF DiscInv
  <2>1. CASE u = t
    BY <1>1, <2>1 DEF DiscKnows
  <2>2. CASE u # t
    BY <1>1, <1>2, <2>2 DEF DiscKnows
  <2> QED BY <2>1, <2>2
<1>9. AcceptedInv'
  <2>1. at = "accepted" => \A u \in Thread : disc'[u].socket # clientSocket
    BY <1>1 DEF Sound, AcceptedInv
  <2> QED BY <2>1 DEF Sound, AcceptedInv, SamePlace
<1>10. DeadBitHasCloser'
  BY <1>2 DEF Sound, DeadBitHasCloser
<1> QED BY <1>4, <1>5, <1>7, <1>8, <1>9, <1>10

\* End of file on a descriptor: its client left, or it is closed already.
LEMMA ClientDisconnectedStep ==
  ASSUME TypeOK, Up => Sound, ClientDisconnected
  PROVE  TypeOK' /\ (Up' => Sound')
<1>1. /\ Up /\ Sound /\ at = "sized" /\ at' = "pass" /\ ~ readSize
      /\ readSocks' = readSocks \ {fd} /\ Begins("server", fd)
  BY DEF ClientDisconnected, ServerAt, Served
<1>2. /\ UNCHANGED <<conn, born, gone, inbox, packetQueue, commandQueue, pQueue>>
      /\ UNCHANGED <<players, sock, clientSocks, clientSocket, readSize, asked>>
      /\ sent' = NoConn /\ Grown
  BY DEF ClientDisconnected, kernel, queues, vector, Grown
<1>3. /\ fd \in readSocks \ {Listener} /\ Listener \notin readSocks
      /\ conn[fd] # NoConn => conn[fd] \in gone
  BY <1>1 DEF Sound, SelectInv
<1>4. fd \in Sock /\ readSocks \subseteq Sock \cup {Listener} /\ "server" \in Thread
  BY <1>3 DEF TypeOK, Thread
<1>5. TypeOK'
  <2>1. /\ disc' \in [Thread -> DiscRec \cup {NoDisc}] /\ UNCHANGED <<called, built>>
        /\ down' \in {"no", "bind", "start", "select", "player"} \cup Races
    BY <1>1, <1>4, BeginsType
  <2> QED BY <1>1, <1>2, <1>4, <2>1 DEF TypeOK, MainCalls, Singleton
<1> SUFFICES ASSUME Up' PROVE Sound'
  BY <1>5
<1>6. SamePlace
  BY <1>1, <1>2 DEF SamePlace
<1>7. /\ VectorInv' /\ ConnOnce' /\ OneBusy' /\ SockIsOwn' /\ DiscInv' /\ AcceptedInv'
      /\ DeadBitHasCloser' /\ WatchInv' /\ NobodyDropped'
  BY <1>1, <1>2, <1>3, <1>4, <1>6, BeginsSound
<1>8. PacketInv' /\ CommandInv' /\ InboxInv'
  BY <1>1, <1>2, <1>6, QueueFrames
<1>9. SelectInv'
  BY <1>1, <1>2, <1>3 DEF Sound, SelectInv, Ready
<1> QED BY <1>7, <1>8, <1>9 DEF Sound

\* A packet is read and queued.
LEMMA ReceiveStep ==
  ASSUME TypeOK, Up => Sound, Receive
  PROVE  TypeOK' /\ (Up' => Sound')
<1> DEFINE c == conn[fd]
           packet == [socket |-> fd, from |-> c,
                      kind |-> IF c = NoConn THEN "zeros" ELSE inbox[c]]
<1>1. /\ Up /\ Sound /\ at = "sized" /\ at' = "pass" /\ readSize
      /\ readSocks' = readSocks \ {fd}
      /\ packetQueue' = Append(packetQueue, packet)
      /\ inbox' = IF c = NoConn THEN inbox ELSE [inbox EXCEPT ![c] = "none"]
  BY DEF Receive, ServerAt, Served
<1>2. /\ UNCHANGED <<startupVars, conn, born, gone, commandQueue, pQueue, players, sock>>
      /\ UNCHANGED <<clientSocks, clientSocket, readSize, disc, asked>>
      /\ sent' = NoConn /\ Grown /\ SameVector
  BY DEF Receive, vector, Grown, SameVector
<1>3. /\ fd \in readSocks \ {Listener} /\ Listener \notin readSocks
      /\ c # NoConn => inbox[c] # "none"
  BY <1>1 DEF Sound, SelectInv
<1>4. /\ fd \in Sock /\ readSocks \subseteq Sock \cup {Listener}
      /\ c \in Conn \cup {NoConn} /\ inbox \in [Conn -> Kind \cup {"none"}]
  BY <1>3 DEF TypeOK
<1>5. packet \in Packets /\ packet.socket = fd /\ packet.from = c
      /\ packet.kind = IF c = NoConn THEN "zeros" ELSE inbox[c]
  BY <1>3, <1>4 DEF Packets
<1> HIDE DEF packet, c
<1>6. /\ packetQueue \in Seq(Packets) /\ Len(packetQueue) \in Nat
      /\ packetQueue' \in Seq(Packets) /\ Len(packetQueue') = Len(packetQueue) + 1
      /\ \A j \in 1..Len(packetQueue) : packetQueue'[j] = packetQueue[j]
      /\ packetQueue'[Len(packetQueue) + 1] = packet
  <2>1. packetQueue \in Seq(Packets) /\ Len(packetQueue) \in Nat
    BY QueueTypes
  <2> QED BY <1>1, <1>5, <2>1, AppendProperties
<1>7. TypeOK'
  <2>1. inbox' \in [Conn -> Kind \cup {"none"}]
    BY <1>1, <1>4
  <2>2. packetQueue' \in Seq([socket : Sock, kind : Kind \cup {"zeros"}, from : Conn \cup {NoConn}])
    BY <1>6 DEF Packets
  <2> QED BY <1>1, <1>2, <1>4, <2>1, <2>2 DEF TypeOK, startupVars, MainCalls, Singleton, Races
<1>8. SamePlace
  BY <1>1, <1>2 DEF SamePlace
<1>9. /\ VectorInv' /\ ConnOnce' /\ OneBusy' /\ SockIsOwn' /\ DiscInv'
      /\ DeadBitHasCloser' /\ WatchInv'
  BY <1>1, <1>2, <1>8, VectorFrames DEF SameVector
<1>10. CommandInv' /\ NobodyDropped'
  BY <1>1, <1>2, <1>8, QueueFrames
<1>11. AcceptedInv'
  BY <1>1 DEF AcceptedInv
<1>12. PacketInv'
  <2> SUFFICES ASSUME NEW j \in 1..Len(packetQueue')
               PROVE  /\ conn[packetQueue'[j].socket] \in {NoConn, packetQueue'[j].from}
                      /\ packetQueue'[j].kind \in {"bad", "logout"} => packetQueue'[j].from \in asked
    BY <1>2 DEF PacketInv
  <2>1. CASE j \in 1..Len(packetQueue)
    BY <1>1, <1>6, <2>1 DEF Sound, PacketInv
  <2>2. CASE j = Len(packetQueue) + 1
    <3>1. packetQueue'[j] = packet
      BY <1>6, <2>2
    <3>2. packet.kind \in {"bad", "logout"} => c \in asked
      BY <1>1, <1>4, <1>5 DEF Sound, InboxInv
    <3> QED BY <1>5, <3>1, <3>2 DEF c
  <2> QED BY <1>6, <2>1, <2>2
<1>13. InboxInv'
  BY <1>1, <1>2, <1>4 DEF Sound, InboxInv
<1>14. SelectInv'
  <2>1. ASSUME NEW r \in readSocks \ {fd}, conn[r] # NoConn
        PROVE  inbox'[conn[r]] # "none" \/ conn[r] \in gone
    <3>1. r \in Sock /\ conn[r] \in Conn
      BY <1>3, <1>4, <2>1 DEF TypeOK
    <3>2. conn[r] # c
      BY <1>1, <1>4, <2>1, <3>1 DEF Sound, ConnOnce, c
    <3>3. inbox[conn[r]] # "none" \/ conn[r] \in gone
      BY <1>1, <1>3, <2>1 DEF Sound, SelectInv, Ready
    <3> QED BY <1>1, <1>4, <3>1, <3>2, <3>3
  <2> QED BY <1>1, <1>2, <1>3, <2>1 DEF SelectInv, Ready
<1> QED BY <1>7, <1>9, <1>10, <1>11, <1>12, <1>13, <1>14 DEF Sound
-----------------------------------------------------------------------------
(* PacketManager and CommandManager.                                       *)

\* The head of the packet queue is taken off.
LEMMA PacketTaken ==
  ASSUME TypeOK, Sound, packetQueue # <<>>, packetQueue' = Tail(packetQueue)
  PROVE  /\ Head(packetQueue) \in Packets /\ packetQueue' \in Seq(Packets)
         /\ conn[Head(packetQueue).socket] \in {NoConn, Head(packetQueue).from}
         /\ Head(packetQueue).kind \in {"bad", "logout"} => Head(packetQueue).from \in asked
         /\ at = "accepted" => /\ Head(packetQueue).socket # clientSocket
                               /\ \A j \in 1..Len(packetQueue') :
                                    packetQueue'[j].socket # clientSocket
         /\ conn' = conn /\ asked' = asked => PacketInv'
<1>1. /\ packetQueue \in Seq(Packets) /\ Len(packetQueue) \in Nat
      /\ Head(packetQueue) \in Packets /\ packetQueue' \in Seq(Packets)
      /\ Len(packetQueue') = Len(packetQueue) - 1 /\ Head(packetQueue) = packetQueue[1]
      /\ \A j \in 1..Len(packetQueue') : packetQueue'[j] = packetQueue[j + 1]
  <2>1. packetQueue \in Seq(Packets)
    BY QueueTypes
  <2> QED BY <2>1, HeadTailProperties, LenProperties
<1>2. 1 \in 1..Len(packetQueue) /\ \A j \in 1..Len(packetQueue') : j + 1 \in 1..Len(packetQueue)
  <2>1. Len(packetQueue) # 0
    BY <1>1, EmptySeq
  <2> QED BY <1>1, <2>1
<1>3. conn' = conn /\ asked' = asked => PacketInv'
  BY <1>1, <1>2 DEF Sound, PacketInv
<1>4. at = "accepted" => /\ Head(packetQueue).socket # clientSocket
                         /\ \A j \in 1..Len(packetQueue') : packetQueue'[j].socket # clientSocket
  BY <1>1, <1>2 DEF Sound, AcceptedInv
<1> QED BY <1>1, <1>2, <1>3, <1>4 DEF Sound, PacketInv

\* A number of objects listed is no less than zero.
LEMMA EnlistedNat ==
  ASSUME TypeOK, AcceptedInv
  PROVE  Enlisted \in Nat
<1>1. CASE at = "accepted"
  BY <1>1, Specials DEF AcceptedInv, Enlisted
<1>2. CASE at # "accepted"
  BY <1>2 DEF TypeOK, Enlisted
<1> QED BY <1>1, <1>2

\* The player a packet is attributed to is its client, or is just leaving.
LEMMA PacketManagerStep ==
  ASSUME TypeOK, Up => Sound, PacketManagerTakes
  PROVE  TypeOK' /\ (Up' => Sound')
<1> DEFINE packet == Head(packetQueue)
           s == packet.socket
           p == getPlayerBySocket(s)
           command == [kind |-> packet.kind, player |-> p, from |-> packet.from]
<1>1. /\ Up /\ Sound /\ packetQueue # <<>> /\ packetQueue' = Tail(packetQueue)
      /\ \/ /\ commandQueue' = Append(commandQueue, command)
            /\ GoesOn /\ UNCHANGED disc
         \/ /\ packet.kind = "bad" /\ UNCHANGED commandQueue
            /\ \/ GoesOn /\ UNCHANGED disc
               \/ p # NoConn /\ Begins("pm", s)
  BY DEF PacketManagerTakes, Takes
<1>2. /\ UNCHANGED <<conn, born, gone, inbox, pQueue, players, sock, clientSocks, readSocks>>
      /\ UNCHANGED <<at, clientSocket, readSize, asked>>
      /\ SameVector /\ SamePlace /\ Grown /\ sent' = NoConn
  BY DEF PacketManagerTakes, kernel, vector, select, SameVector, SamePlace, Grown
<1>3. /\ packet \in Packets /\ packetQueue' \in Seq(Packets)
      /\ conn[s] \in {NoConn, packet.from}
      /\ packet.kind \in {"bad", "logout"} => packet.from \in asked
      /\ at = "accepted" => /\ s # clientSocket
                            /\ \A j \in 1..Len(packetQueue') : packetQueue'[j].socket # clientSocket
      /\ PacketInv'
  BY <1>1, <1>2, PacketTaken
<1>4. s \in Sock /\ packet.kind \in Kind \cup {"zeros"} /\ packet.from \in Conn \cup {NoConn}
  BY <1>3 DEF Packets
<1>5. /\ p \in Conn \cup {NoConn}
      /\ p # NoConn => sock[p] = s /\ p <= Enlisted
  BY <1>1, <1>4, FoundPlayer DEF Sound
<1>6. command \in Commands /\ command.kind = packet.kind /\ command.player = p
  <2> HIDE DEF packet, p
  <2> QED BY <1>4, <1>5 DEF Commands
<1> HIDE DEF command, p, s, packet
<1>7. \/ /\ commandQueue' = Append(commandQueue, command) /\ disc' = disc
         /\ UNCHANGED <<called, built, down>>
      \/ commandQueue' = commandQueue /\ disc' = disc /\ UNCHANGED <<called, built, down>>
      \/ packet.kind = "bad" /\ commandQueue' = commandQueue /\ Begins("pm", s)
  BY <1>1 DEF GoesOn, startupVars
<1>8. "pm" \in Thread /\ s \in Sock \cup {NoSock}
  BY <1>4 DEF Thread
<1>9. TypeOK'
  <2>1. commandQueue' \in Seq(Commands)
    <3>1. commandQueue \in Seq(Commands)
      BY QueueTypes
    <3>2. Append(commandQueue, command) \in Seq(Commands)
      BY <1>6, <3>1, AppendProperties
    <3> QED BY <1>7, <3>1, <3>2
  <2>2. disc' \in [Thread -> DiscRec \cup {NoDisc}] /\ UNCHANGED <<called, built>>
        /\ down' \in {"no", "bind", "start", "select", "player"} \cup Races
    <3>1. CASE Begins("pm", s)
      BY <1>8, <3>1, BeginsType
    <3>2. CASE ~ Begins("pm", s)
      BY <1>7, <3>2 DEF TypeOK
    <3> QED BY <3>1, <3>2
  <2> QED BY <1>2, <1>3, <2>1, <2>2
      DEF TypeOK, MainCalls, Singleton, Packets, Commands
<1> SUFFICES ASSUME Up' PROVE Sound'
  BY <1>9
<1>10. /\ VectorInv' /\ ConnOnce' /\ OneBusy' /\ SockIsOwn' /\ DiscInv' /\ AcceptedInv'
       /\ DeadBitHasCloser' /\ WatchInv' /\ NobodyDropped'
  <2>1. CASE Begins("pm", s) /\ packet.kind = "bad"
    <3>1. conn[s] # NoConn => conn[s] \in gone \cup asked
      BY <1>3, <2>1
    <3> QED BY <1>1, <1>2, <1>3, <1>8, <2>1, <3>1, BeginsSound
  <2>2. CASE disc' = disc
    <3>1. AcceptedInv'
      BY <1>1, <1>2, <1>3, <2>2 DEF Sound, AcceptedInv
    <3> QED BY <1>1, <1>2, <2>2, <3>1, VectorFrames, QueueFrames
  <2> QED BY <1>7, <2>1, <2>2
<1>11. InboxInv'
  BY <1>1, <1>2, QueueFrames
<1>12. SelectInv'
  BY <1>1, <1>2, SelectFrame
<1>13. CommandInv'
  <2>1. CASE commandQueue' = commandQueue
    BY <1>1, <1>2, <2>1, QueueFrames
  <2>2. CASE commandQueue' = Append(commandQueue, command)
    <3>1. /\ Len(commandQueue) \in Nat /\ Len(commandQueue') = Len(commandQueue) + 1
          /\ \A j \in 1..Len(commandQueue) : commandQueue'[j] = commandQueue[j]
          /\ commandQueue'[Len(commandQueue) + 1] = command
      BY <1>6, <2>2, QueueTypes, AppendProperties
    <3>2. p <= Enlisted
      BY <1>1, <1>5, EnlistedNat DEF Sound, NoConn
    <3>3. packet.kind = "logout" /\ p # NoConn => p \in asked \/ conn[sock[p]] = NoConn
      <4>1. ASSUME packet.kind = "logout", p # NoConn, conn[s] # NoConn
            PROVE  p \in asked
        <5>1. p \in Conn /\ sock[p] = s /\ s # NoSock
          BY <1>4, <1>5, <4>1, Specials
        <5>2. conn[s] = p
          BY <1>1, <4>1, <5>1 DEF Sound, SockIsOwn
        <5> QED BY <1>3, <4>1, <5>2
      <4> QED BY <1>5, <4>1
    <3> SUFFICES ASSUME NEW j \in 1..Len(commandQueue')
                 PROVE  LET q == commandQueue'[j].player
                        IN  /\ q <= Enlisted
                            /\ commandQueue'[j].kind = "logout" /\ q # NoConn =>
                                 q \in asked \/ sock[q] = NoSock \/ conn[sock[q]] = NoConn
      BY <1>2 DEF CommandInv, Enlisted
    <3>4. CASE j \in 1..Len(commandQueue)
      BY <1>1, <3>1, <3>4 DEF Sound, CommandInv
    <3>5. CASE j = Len(commandQueue) + 1
      BY <1>6, <3>1, <3>2, <3>3, <3>5
    <3> QED BY <3>1, <3>4, <3>5
  <2> QED BY <1>7, <2>1, <2>2
<1> QED BY <1>3, <1>10, <1>11, <1>12, <1>13 DEF Sound

\* The head of the command queue is taken off.
LEMMA CommandTaken ==
  ASSUME TypeOK, Sound, commandQueue # <<>>, commandQueue' = Tail(commandQueue)
  PROVE  /\ Head(commandQueue) \in Commands /\ commandQueue' \in Seq(Commands)
         /\ Head(commandQueue).player <= Enlisted
         /\ Head(commandQueue).kind = "logout" /\ Head(commandQueue).player # NoConn =>
              \/ Head(commandQueue).player \in asked
              \/ sock[Head(commandQueue).player] = NoSock
              \/ conn[sock[Head(commandQueue).player]] = NoConn
         /\ conn' = conn /\ asked' = asked /\ sock' = sock /\ Enlisted' = Enlisted => CommandInv'
<1>1. /\ commandQueue \in Seq(Commands) /\ Len(commandQueue) \in Nat
      /\ Head(commandQueue) \in Commands /\ commandQueue' \in Seq(Commands)
      /\ Len(commandQueue') = Len(commandQueue) - 1 /\ Head(commandQueue) = commandQueue[1]
      /\ \A j \in 1..Len(commandQueue') : commandQueue'[j] = commandQueue[j + 1]
  <2>1. commandQueue \in Seq(Commands)
    BY QueueTypes
  <2> QED BY <2>1, HeadTailProperties, LenProperties
<1>2. 1 \in 1..Len(commandQueue) /\ \A j \in 1..Len(commandQueue') : j + 1 \in 1..Len(commandQueue)
  <2>1. Len(commandQueue) # 0
    BY <1>1, EmptySeq
  <2> QED BY <1>1, <2>1
<1>3. ASSUME conn' = conn, asked' = asked, sock' = sock, Enlisted' = Enlisted
      PROVE  CommandInv'
  <2> SUFFICES ASSUME NEW j \in 1..Len(commandQueue')
               PROVE  LET q == commandQueue'[j].player
                      IN  /\ q <= Enlisted
                          /\ commandQueue'[j].kind = "logout" /\ q # NoConn =>
                               q \in asked \/ sock[q] = NoSock \/ conn[sock[q]] = NoConn
    BY <1>3 DEF CommandInv
  <2>1. commandQueue'[j] = commandQueue[j + 1] /\ j + 1 \in 1..Len(commandQueue)
    BY <1>1, <1>2
  <2> QED BY <2>1 DEF Sound, CommandInv
<1>4. LET q == commandQueue[1].player
      IN  /\ q <= Enlisted
          /\ commandQueue[1].kind = "logout" /\ q # NoConn =>
               q \in asked \/ sock[q] = NoSock \/ conn[sock[q]] = NoConn
  BY <1>2 DEF Sound, CommandInv
<1> QED BY <1>1, <1>3, <1>4

\* A logout cuts off the one who asked for it.
LEMMA CommandManagerStep ==
  ASSUME TypeOK, Up => Sound, CommandManagerTakes
  PROVE  TypeOK' /\ (Up' => Sound')
<1> DEFINE command == Head(commandQueue)
           p == command.player
           c == command.from
<1>1. /\ Up /\ Sound /\ commandQueue # <<>> /\ commandQueue' = Tail(commandQueue)
      /\ \/ GoesOn /\ UNCHANGED <<pQueue, disc>>
         \/ Ends("player") /\ UNCHANGED <<pQueue, disc>>
         \/ /\ p # NoConn
            /\ \/ pQueue' = Append(pQueue, Answer(p, c))
               \/ \E q \in ToSet(players) \ {p} : pQueue' = pQueue \o <<Answer(p, c), Answer(q, q)>>
            /\ GoesOn /\ UNCHANGED disc
         \/ /\ command.kind = "logout" /\ p # NoConn
            /\ Begins("cm", sock[p])
            /\ UNCHANGED pQueue
  BY DEF CommandManagerTakes, Takes
<1>2. /\ UNCHANGED <<conn, born, gone, inbox, packetQueue, players, sock, clientSocks, readSocks>>
      /\ UNCHANGED <<at, clientSocket, readSize, asked>>
      /\ SameVector /\ SamePlace /\ Grown /\ sent' = NoConn
  BY DEF CommandManagerTakes, kernel, vector, select, SameVector, SamePlace, Grown
<1>3. Enlisted' = Enlisted
  BY <1>2 DEF Enlisted
<1>4. /\ command \in Commands /\ commandQueue' \in Seq(Commands)
      /\ p <= Enlisted
      /\ command.kind = "logout" /\ p # NoConn =>
           p \in asked \/ sock[p] = NoSock \/ conn[sock[p]] = NoConn
      /\ CommandInv'
  BY <1>1, <1>2, <1>3, CommandTaken
<1>5. p \in Conn \cup {NoConn} /\ c \in Conn \cup {NoConn}
  <2> HIDE DEF command
  <2> QED BY <1>4 DEF Commands
<1> HIDE DEF command, p, c
<1>6. "cm" \in Thread /\ (p # NoConn => sock[p] \in Sock \cup {NoSock})
  BY <1>5 DEF Thread, TypeOK
<1>7. pQueue' \in Seq(Answers)
  <2>1. pQueue \in Seq(Answers)
    BY QueueTypes
  <2>2. ASSUME NEW q \in Conn, NEW k \in Conn \cup {NoConn}
        PROVE  Answer(q, k) \in Answers
    BY DEF Answer, Answers, TypeOK
  <2>3. CASE p # NoConn /\ pQueue' = Append(pQueue, Answer(p, c))
    BY <1>5, <2>1, <2>2, <2>3, AppendProperties
  <2>4. ASSUME p # NoConn, NEW q \in ToSet(players) \ {p},
               pQueue' = pQueue \o <<Answer(p, c), Answer(q, q)>>
        PROVE  pQueue' \in Seq(Answers)
    <3>1. q \in Conn
      <4>1. players \in Seq(Conn)
        BY DEF TypeOK
      <4> QED BY <4>1, <2>4, ElementOfSeq DEF ToSet
    <3>2. Answer(p, c) \in Answers /\ Answer(q, q) \in Answers
      BY <1>5, <2>2, <2>4, <3>1
    <3>3. <<Answer(p, c), Answer(q, q)>> \in Seq(Answers)
      BY <3>2
    <3> QED BY <2>1, <2>4, <3>3, ConcatProperties
  <2> QED BY <1>1, <2>1, <2>3, <2>4
<1>8. \/ disc' = disc /\ UNCHANGED <<called, built>> /\ down' \in {down, "player"}
      \/ command.kind = "logout" /\ p # NoConn /\ Begins("cm", sock[p])
  BY <1>1 DEF GoesOn, Ends, startupVars
<1>9. TypeOK'
  <2>1. disc' \in [Thread -> DiscRec \cup {NoDisc}] /\ UNCHANGED <<called, built>>
        /\ down' \in {"no", "bind", "start", "select", "player"} \cup Races
    <3>1. CASE p # NoConn /\ Begins("cm", sock[p])
      BY <1>6, <3>1, BeginsType
    <3>2. CASE disc' = disc /\ UNCHANGED <<called, built>> /\ down' \in {down, "player"}
      BY <3>2 DEF TypeOK
    <3> QED BY <1>8, <3>1, <3>2
  <2> QED BY <1>2, <1>4, <1>7, <2>1
      DEF TypeOK, MainCalls, Singleton, Commands, Answers
<1> SUFFICES ASSUME Up' PROVE Sound'
  BY <1>9
<1>10. /\ VectorInv' /\ ConnOnce' /\ OneBusy' /\ SockIsOwn' /\ DiscInv' /\ AcceptedInv'
       /\ DeadBitHasCloser' /\ WatchInv' /\ NobodyDropped'
  <2>1. CASE command.kind = "logout" /\ p # NoConn /\ Begins("cm", sock[p])
    <3>1. p \in Conn
      BY <1>5, <2>1
    <3>2. sock[p] # NoSock /\ conn[sock[p]] # NoConn => conn[sock[p]] \in gone \cup asked
      BY <1>1, <1>4, <2>1, <3>1 DEF Sound, SockIsOwn
    <3>3. at = "accepted" => sock[p] # clientSocket
      <4> SUFFICES ASSUME at = "accepted", sock[p] = clientSocket PROVE FALSE
        OBVIOUS
      <4>1. /\ conn[clientSocket] = born /\ clientSocket \in Sock /\ born \in Conn
            /\ Enlisted = born - 1
        BY <1>1 DEF Sound, AcceptedInv, Enlisted
      <4>2. p = born
        BY <1>1, <3>1, <4>1, Specials DEF Sound, SockIsOwn
      <4> QED BY <1>4, <4>1, <4>2, Specials
    <3>4. at = "accepted" => \A j \in 1..Len(packetQueue') : packetQueue'[j].socket # clientSocket
      BY <1>1, <1>2 DEF Sound, AcceptedInv
    <3> QED BY <1>1, <1>2, <1>6, <2>1, <3>2, <3>3, <3>4, BeginsSound
  <2>2. CASE disc' = disc
    BY <1>1, <1>2, <2>2, VectorFrames, QueueFrames
  <2> QED BY <1>8, <2>1, <2>2
<1>11. PacketInv' /\ InboxInv'
  BY <1>1, <1>2, QueueFrames
<1>12. SelectInv'
  BY <1>1, <1>2, SelectFrame
<1> QED BY <1>4, <1>10, <1>11, <1>12 DEF Sound

-----------------------------------------------------------------------------
(* The theorems.                                                           *)

\* Before main() has called anything nothing is there.
LEMMA Initial ==
  ASSUME Init
  PROVE  IInv
<1>1. called = 0 /\ built = {} /\ down = "no"
  BY DEF Init, StartupInit
<1>2. StartupInv
  BY <1>1 DEF StartupInv, InitCall, Singleton
<1>3. TypeOK
  <2>1. called \in 0..Len(MainCalls) /\ built \subseteq Singleton
    BY <1>1, CallsOfMain
  <2>2. /\ conn \in [Sock -> Conn \cup {NoConn}] /\ born \in 0..MaxConnections
        /\ disc \in [Thread -> DiscRec \cup {NoDisc}]
    BY DeliveryConnections DEF Init
  <2> QED BY <1>1, <2>1, <2>2 DEF Init, TypeOK
<1>4. Sound
  <2>1. /\ born = 0 /\ at = "copy" /\ players = <<>> /\ clientSocks = {}
        /\ packetQueue = <<>> /\ commandQueue = <<>> /\ pQueue = <<>>
        /\ conn = [r \in Sock |-> NoConn] /\ inbox = [c \in Conn |-> "none"]
        /\ sock = [p \in Conn |-> NoSock] /\ disc = [t \in Thread |-> NoDisc]
    BY DEF Init
  <2>2. Enlisted = 0 /\ Len(players) = 0
    BY <2>1 DEF Enlisted
  <2>3. VectorInv
    BY <2>1, <2>2 DEF VectorInv
  <2>4. ConnOnce
    BY <2>1 DEF ConnOnce, NoConn
  <2>5. OneBusy
    BY <2>1 DEF OneBusy, Busy
  <2>6. SockIsOwn
    BY <2>1 DEF SockIsOwn
  <2>7. AcceptedInv /\ WatchInv /\ SelectInv
    BY <2>1 DEF AcceptedInv, WatchInv, SelectInv
  <2>8. InboxInv
    BY <2>1 DEF InboxInv
  <2>9. DiscInv /\ DeadBitHasCloser
    BY <2>1 DEF DiscInv, DiscKnows, NoDisc, DeadBitHasCloser
  <2>10. PacketInv /\ CommandInv
    BY <2>1 DEF PacketInv, CommandInv
  <2>11. NobodyDropped
    BY <2>1, Specials DEF NobodyDropped
  <2> QED BY <2>3, <2>4, <2>5, <2>6, <2>7, <2>8, <2>9, <2>10, <2>11 DEF Sound
<1> QED BY <1>2, <1>3, <1>4 DEF IInv

\* Nothing changes: nothing is lost.
LEMMA Stutters ==
  ASSUME IInv, UNCHANGED <<kernel, queues, vector, select, disc, sent, asked>>, Up
  PROVE  Sound'
<1>1. Sound
  BY DEF IInv
<1>2. SameVector /\ SamePlace /\ Grown
  BY DEF SameVector, SamePlace, Grown, vector, select, kernel
<1>3. VectorInv' /\ ConnOnce' /\ OneBusy' /\ SockIsOwn' /\ DiscInv' /\ AcceptedInv'
      /\ DeadBitHasCloser' /\ WatchInv'
  BY <1>1, <1>2, VectorFrames DEF kernel, queues, vector, select
<1>4. PacketInv' /\ CommandInv' /\ InboxInv' /\ NobodyDropped'
  BY <1>1, <1>2, QueueFrames DEF kernel, queues, vector
<1>5. SelectInv'
  BY <1>1, SelectFrame DEF IInv, kernel, select
<1> QED BY <1>3, <1>4, <1>5 DEF Sound

\* A thread goes on with a disconnection.
LEMMA DisconnectsStep ==
  ASSUME TypeOK, Up => Sound, NEW t \in Thread, Disconnects(t)
  PROVE  /\ TypeOK' /\ (Up' => Sound')
         /\ UNCHANGED <<called, built>>
<1>1. UNCHANGED <<called, built>>
  BY DEF Disconnects, Close, Clear, Search, Erase, Ends, GoesOn, startupVars
<1> QED BY <1>1, CloseStep, ClearStep, SearchStep, EraseStep DEF Disconnects

\* So does the Server thread with its loop.
LEMMA ServerStep ==
  ASSUME TypeOK, Up => Sound, ServerNext
  PROVE  /\ TypeOK' /\ (Up' => Sound')
         /\ UNCHANGED <<called, built>>
<1>1. CASE CopySocks \/ SelectReturn \/ PassEnds \/ Enlist \/ AskSize \/ Receive
  <2>1. UNCHANGED <<called, built>>
    BY <1>1 DEF CopySocks, SelectReturn, PassEnds, Enlist, AskSize, Receive, startupVars
  <2> QED BY <1>1, <2>1, CopySocksStep, SelectReturnStep, PassEndsStep, EnlistStep, AskSizeStep,
             ReceiveStep
<1>2. CASE SelectCall
  BY <1>2, SelectCallStep DEF SelectCall, Ends, GoesOn, startupVars
<1>3. CASE Accept
  BY <1>3, AcceptStep DEF Accept, Ends, GoesOn, startupVars
<1>4. CASE ClientDisconnected
  BY <1>4, ClientDisconnectedStep DEF ClientDisconnected, Begins, Ends, GoesOn, startupVars
<1>5. CASE Disconnects("server")
  BY <1>5, DisconnectsStep DEF Thread
<1> QED BY <1>1, <1>2, <1>3, <1>4, <1>5 DEF ServerNext

\* And the threads that take what is queued.
LEMMA ManagersStep ==
  ASSUME TypeOK, Up => Sound, PacketManagerNext \/ CommandManagerNext \/ Send
  PROVE  /\ TypeOK' /\ (Up' => Sound')
         /\ UNCHANGED <<called, built>>
<1>1. CASE PacketManagerTakes
  BY <1>1, PacketManagerStep DEF PacketManagerTakes, Begins, Ends, GoesOn, startupVars
<1>2. CASE CommandManagerTakes
  BY <1>2, CommandManagerStep DEF CommandManagerTakes, Begins, Ends, GoesOn, startupVars
<1>3. CASE Send
  BY <1>3, SendStep DEF Send, startupVars
<1>4. CASE Disconnects("pm") \/ Disconnects("cm")
  BY <1>4, DisconnectsStep DEF Thread
<1> QED BY <1>1, <1>2, <1>3, <1>4 DEF PacketManagerNext, CommandManagerNext

\* Every step keeps the invariant.
LEMMA Inductive ==
  ASSUME IInv, [Next]_vars
  PROVE  IInv'
<1>1. TypeOK /\ StartupInv /\ (Up => Sound)
  BY DEF IInv
<1>2. UNCHANGED <<called, built>> => StartupInv'
  BY <1>1 DEF StartupInv
<1>3. CASE Starts
  <2>1. TypeOK' /\ StartupInv' /\ Up
    BY <1>1, <1>3, StartsStep
  <2>2. Sound'
    BY <1>3, <2>1, Stutters DEF Starts
  <2> QED BY <2>1, <2>2 DEF IInv
<1>4. CASE \E c \in Conn : ClientLeaves(c) \/ \E k \in Kind : ClientSends(c, k)
  <2>1. PICK c \in Conn : ClientLeaves(c) \/ \E k \in Kind : ClientSends(c, k)
    BY <1>4
  <2>2. UNCHANGED <<called, built>>
    BY <2>1 DEF ClientLeaves, ClientSends, startupVars
  <2>3. TypeOK' /\ (Up' => Sound')
    BY <1>1, <2>1, ClientLeavesStep, ClientSendsStep
  <2> QED BY <1>2, <2>2, <2>3 DEF IInv
<1>5. CASE ServerNext
  BY <1>1, <1>2, <1>5, ServerStep DEF IInv
<1>6. CASE PacketManagerNext \/ CommandManagerNext \/ Send
  BY <1>1, <1>2, <1>6, ManagersStep DEF IInv
<1>7. CASE UNCHANGED vars
  <2>1. UNCHANGED <<kernel, queues, vector, select, disc, sent, asked>> /\ UNCHANGED startupVars
    BY <1>7 DEF vars
  <2>2. TypeOK' /\ StartupInv' /\ (Up' => Up)
    BY <1>1, <2>1 DEF TypeOK, StartupInv, Up, startupVars, kernel, queues, vector, select
  <2>3. Up => Sound'
    BY <2>1, Stutters
  <2> QED BY <2>2, <2>3 DEF IInv
<1> QED BY <1>3, <1>4, <1>5, <1>6, <1>7 DEF Next

\* It holds throughout.
THEOREM Invariance == Spec => []IInv
<1>1. Init => IInv
  BY Initial
<1>2. IInv /\ [Next]_vars => IInv'
  BY Inductive
<1> QED BY <1>1, <1>2, PTL DEF Spec

\* Every variable keeps its type.
THEOREM TypeCorrect == Spec => []TypeOK
<1>1. IInv => TypeOK
  BY DEF IInv
<1> QED BY <1>1, Invariance, PTL

\* main() starts the threads in an order in which no thread polls a queue
\* that is not constructed or puts a message in one.
THEOREM QueuesAreThere == Spec => []QueueIsThere
<1>1. IInv => QueueIsThere
  BY StartedIsBuilt DEF IInv
<1> QED BY <1>1, Invariance, PTL

\* A packet of processData() is attributed by getPlayerBySocket() to the
\* client who sent it, as long as his descriptor is open.
THEOREM PacketsFindSender == Spec => []PacketFindsSender
<1>1. ASSUME IInv, Up, NEW packet \in ToSet(packetQueue)
      PROVE  LET c == conn[packet.socket]
             IN  /\ c \in {NoConn, packet.from}
                 /\ c # NoConn /\ ~ BeingClosed(packet.socket) =>
                      getPlayerBySocket(packet.socket) = c
  <2>1. TypeOK /\ Sound
    BY <1>1 DEF IInv
  <2>2. PICK j \in DOMAIN packetQueue : packetQueue[j] = packet
    BY DEF ToSet
  <2>3. j \in 1..Len(packetQueue) /\ packet.socket \in Sock
    <3>1. DOMAIN packetQueue = 1..Len(packetQueue)
      BY <2>1 DEF TypeOK
    <3> QED BY <2>1, <2>2, <3>1, QueueTypes
  <2>4. conn[packet.socket] \in {NoConn, packet.from}
    BY <2>1, <2>2, <2>3 DEF Sound, PacketInv
  <2>5. ASSUME conn[packet.socket] # NoConn
        PROVE  getPlayerBySocket(packet.socket) = conn[packet.socket]
    <3>1. ~ (at = "accepted" /\ clientSocket = packet.socket)
      BY <2>1, <2>2, <2>3 DEF Sound, AcceptedInv
    <3>2. sock[conn[packet.socket]] = packet.socket /\ conn[packet.socket] \in Conn
      BY <2>1, <2>3, <2>5, <3>1 DEF Sound, WatchInv, TypeOK
    <3> QED BY <2>1, <2>3, <3>2, FoundPlayer DEF Sound
  <2> QED BY <2>4, <2>5
<1>2. IInv => PacketFindsSender
  BY <1>1 DEF PacketFindsSender
<1> QED BY <1>2, Invariance, PTL

\* proceedPlayerDisconnection() cuts off nobody who neither left nor asked
\* for it.
THEOREM DroppedAreGone == Spec => []DroppedIsGone
<1>1. ASSUME IInv, Up, NEW c \in 1..born
      PROVE  Open(c) \/ c \in gone \cup asked
  <2>1. born \in 0..MaxConnections /\ NobodyDropped
    BY <1>1 DEF IInv, Sound, TypeOK
  <2>2. c \in Conn /\ c <= born
    BY <2>1, Specials DEF Conn
  <2> QED BY <2>1, <2>2 DEF NobodyDropped
<1>2. IInv => DroppedIsGone
  BY <1>1 DEF DroppedIsGone
<1> QED BY <1>2, Invariance, PTL

\* select() watches every open connection, and its player is listed.
THEOREM EveryoneWatched == Spec => []EveryoneIsWatched
<1>1. ASSUME IInv, Up, NEW s \in Sock, conn[s] # NoConn
      PROVE  \/ s \in clientSocks /\ getPlayerBySocket(s) = conn[s]
             \/ at = "accepted" /\ clientSocket = s
  <2>1. TypeOK /\ Sound
    BY <1>1 DEF IInv
  <2>2. CASE s \in clientSocks /\ sock[conn[s]] = s
    <3>1. conn[s] \in Conn
      BY <1>1, <2>1 DEF TypeOK
    <3> QED BY <2>1, <2>2, <3>1, FoundPlayer DEF Sound
  <2> QED BY <1>1, <2>1, <2>2 DEF Sound, WatchInv
<1>2. IInv => EveryoneIsWatched
  BY <1>1 DEF EveryoneIsWatched
<1> QED BY <1>2, Invariance, PTL

-----------------------------------------------------------------------------
(* What is queued belongs to whom it says: a second invariant, which rests *)
(* on the first.  It follows a message from its reading to its answer.     *)

\* With these descriptors open and this many objects constructed, c has its
\* object, and no descriptor but s.
Has(c, s, open, count) ==
  c \in Conn /\ c <= count /\ \A r \in Sock : open[r] = c => r = s

\* A command that was attributed to somebody was attributed to its sender,
\* unless he is gone.
IsFrom(command, open, count) ==
  /\ command.from \in Conn /\ command.from <= count
  /\ (\E r \in Sock : open[r] = command.from) => command.player = command.from

PacketsAttributed ==
  \A j \in 1..Len(packetQueue) :
    packetQueue[j].kind # "zeros" =>
      Has(packetQueue[j].from, packetQueue[j].socket, conn, Enlisted)
CommandsAttributed ==
  \A j \in 1..Len(commandQueue) :
    commandQueue[j].kind # "zeros" => IsFrom(commandQueue[j], conn, Enlisted)
AnswersAttributed ==
  \A j \in 1..Len(pQueue) : Has(pQueue[j].to, pQueue[j].socket, conn, Enlisted)

Attributed == PacketsAttributed /\ CommandsAttributed /\ AnswersAttributed

\* The process does not come back to life.
LEMMA StepsWhileUp ==
  ASSUME [Next]_vars, Up'
  PROVE  Up
<1>1. CASE UNCHANGED vars
  BY <1>1 DEF vars, startupVars, Up
<1>2. CASE Starts
  BY <1>2 DEF Starts, MainCall, Up
<1>3. ASSUME NEW c \in Conn, ClientLeaves(c) \/ \E k \in Kind : ClientSends(c, k)
      PROVE  Up
  BY <1>3 DEF ClientLeaves, ClientSends
<1>4. ASSUME NEW t \in Thread, Disconnects(t)
      PROVE  Up
  BY <1>4 DEF Disconnects, Close, Clear, Search, Erase, InDisconnection
<1>5. CASE ServerNext
  BY <1>4, <1>5
     DEF ServerNext, Thread, ServerAt, CopySocks, SelectCall, SelectReturn, PassEnds, Accept,
         Enlist, AskSize, Receive, ClientDisconnected
<1>6. CASE PacketManagerNext \/ CommandManagerNext \/ Send
  BY <1>4, <1>6
     DEF PacketManagerNext, CommandManagerNext, Thread, Takes, PacketManagerTakes,
         CommandManagerTakes, Send
<1> QED BY <1>1, <1>2, <1>3, <1>5, <1>6 DEF Next

\* An object that is constructed has the descriptor of its connection.
LEMMA OwnSocket ==
  ASSUME TypeOK, Sound, NEW c \in Conn, c <= Enlisted, NEW r \in Sock, conn[r] = c
  PROVE  sock[c] = r
<1>1. conn[r] # NoConn
  BY Specials
<1>2. ~ (at = "accepted" /\ clientSocket = r)
  <2> SUFFICES ASSUME at = "accepted", clientSocket = r PROVE FALSE
    OBVIOUS
  <2>1. c = born /\ born \in Conn /\ Enlisted = born - 1
    BY DEF Sound, AcceptedInv, Enlisted
  <2> QED BY <2>1, Specials
<1> QED BY <1>1, <1>2 DEF Sound, WatchInv

\* No connection is given back its number, and none but the next gets one.
Steady ==
  /\ Enlisted \in Nat /\ Enlisted' \in Nat /\ Enlisted <= Enlisted'
  /\ \A c \in Conn, r \in Sock : c <= Enlisted /\ conn'[r] = c => conn[r] = c

\* Descriptors are opened and closed in two places only, and objects
\* constructed in one.
LEMMA Places ==
  ASSUME [Next]_vars
  PROVE  \/ conn' = conn /\ SamePlace
         \/ Up /\ Accept
         \/ Up /\ Enlist
         \/ \E t \in Thread : Up /\ Close(t)
<1>1. CASE UNCHANGED vars
  BY <1>1 DEF vars, kernel, select, SamePlace
<1>2. CASE Starts
  BY <1>2 DEF Starts, kernel, select, SamePlace
<1>3. ASSUME NEW c \in Conn, ClientLeaves(c) \/ \E k \in Kind : ClientSends(c, k)
      PROVE  conn' = conn /\ SamePlace
  BY <1>3 DEF ClientLeaves, ClientSends, select, SamePlace
<1>4. ASSUME NEW t \in Thread, Disconnects(t)
      PROVE  \/ conn' = conn /\ SamePlace
             \/ Up /\ Close(t)
  <2>1. CASE Close(t)
    BY <2>1 DEF Close, InDisconnection
  <2>2. CASE Clear(t)
    BY <2>2 DEF Clear, kernel, SamePlace
  <2>3. CASE Search(t)
    BY <2>3 DEF Search, kernel, select, SamePlace
  <2>4. CASE Erase(t)
    BY <2>4 DEF Erase, kernel, select, SamePlace
  <2> QED BY <1>4, <2>1, <2>2, <2>3, <2>4 DEF Disconnects
<1>5. CASE ServerNext
  <2>1. CASE Disconnects("server")
    BY <1>4, <2>1 DEF Thread
  <2>2. CASE CopySocks \/ SelectCall \/ SelectReturn \/ PassEnds
    BY <2>2 DEF CopySocks, SelectCall, SelectReturn, PassEnds, ServerAt, kernel, SamePlace
  <2>3. CASE AskSize \/ Receive \/ ClientDisconnected
    BY <2>3 DEF AskSize, Receive, ClientDisconnected, ServerAt, Served, kernel, SamePlace
  <2>4. CASE Accept \/ Enlist
    BY <2>4 DEF Accept, Enlist, ServerAt
  <2> QED BY <1>5, <2>1, <2>2, <2>3, <2>4 DEF ServerNext
<1>6. CASE PacketManagerNext \/ CommandManagerNext \/ Send
  <2>1. CASE Disconnects("pm") \/ Disconnects("cm")
    BY <1>4, <2>1 DEF Thread
  <2>2. CASE PacketManagerTakes \/ CommandManagerTakes \/ Send
    BY <2>2 DEF PacketManagerTakes, CommandManagerTakes, Send, kernel, select, SamePlace
  <2> QED BY <1>6, <2>1, <2>2 DEF PacketManagerNext, CommandManagerNext
<1> QED BY <1>1, <1>2, <1>3, <1>5, <1>6 DEF Next

\* So every step is steady.
LEMMA StepIsSteady ==
  ASSUME IInv, Up, [Next]_vars
  PROVE  Steady
<1>1. TypeOK /\ Sound /\ born \in Nat /\ conn \in [Sock -> Conn \cup {NoConn}]
  BY DEF IInv, TypeOK
<1>2. Enlisted \in Nat
  BY <1>1, EnlistedNat DEF Sound
<1>3. CASE conn' = conn /\ SamePlace
  BY <1>2, <1>3 DEF Steady, Enlisted, SamePlace
<1>4. CASE Accept
  <2>1. /\ at = "pass" /\ at' = "accepted" /\ born' = born + 1
        /\ \E s \in Sock : conn' = [conn EXCEPT ![s] = born + 1]
    BY <1>4 DEF Accept, ServerAt
  <2>2. Enlisted = born /\ Enlisted' = born
    BY <1>1, <2>1 DEF Enlisted
  <2>3. ASSUME NEW c \in Conn, NEW r \in Sock, c <= born, conn'[r] = c
        PROVE  conn[r] = c
    <3>1. c # born + 1
      BY <1>1, <2>3, Specials
    <3> QED BY <1>1, <2>1, <2>3, <3>1
  <2> QED BY <1>1, <2>2, <2>3 DEF Steady
<1>5. CASE Enlist
  <2>1. at = "accepted" /\ at' = "pass" /\ born' = born /\ conn' = conn
    BY <1>5 DEF Enlist, ServerAt, Served, kernel
  <2> QED BY <1>1, <1>2, <2>1 DEF Steady, Enlisted
<1>6. ASSUME NEW t \in Thread, Close(t)
      PROVE  Steady
  <2>1. /\ conn' = [r \in Sock |-> IF r = disc[t].socket THEN NoConn ELSE conn[r]]
        /\ born' = born /\ at' = at
    BY <1>6 DEF Close, select
  <2> QED BY <1>2, <2>1, Specials DEF Steady, Enlisted
<1> QED BY <1>3, <1>4, <1>5, <1>6, Places

\* What was attributed stays attributed in a steady step.
LEMMA SteadyKeeps ==
  ASSUME Steady
  PROVE  /\ \A c, s : Has(c, s, conn, Enlisted) => Has(c, s, conn', Enlisted')
         /\ \A command :
              IsFrom(command, conn, Enlisted) => IsFrom(command, conn', Enlisted')
<1>1. \A c \in Conn : c <= Enlisted => c <= Enlisted'
  BY Specials DEF Steady
<1>2. ASSUME NEW c, NEW s, Has(c, s, conn, Enlisted)
      PROVE  Has(c, s, conn', Enlisted')
  BY <1>1, <1>2 DEF Has, Steady
<1>3. ASSUME NEW command, IsFrom(command, conn, Enlisted)
      PROVE  IsFrom(command, conn', Enlisted')
  BY <1>1, <1>3 DEF IsFrom, Steady
<1> QED BY <1>2, <1>3

\* A packet that is queued is from whom it was read.
LEMMA ReceiveAttributes ==
  ASSUME IInv, Up, Steady, PacketsAttributed, Receive
  PROVE  PacketsAttributed'
<1> DEFINE c == conn[fd]
           packet == [socket |-> fd, from |-> c,
                      kind |-> IF c = NoConn THEN "zeros" ELSE inbox[c]]
<1>1. /\ TypeOK /\ Sound /\ at = "sized" /\ fd \in Sock /\ c \in Conn \cup {NoConn}
      /\ packetQueue' = Append(packetQueue, packet) /\ packetQueue \in Seq(Packets)
  <2>1. TypeOK /\ Sound /\ at = "sized" /\ packetQueue' = Append(packetQueue, packet)
    BY DEF IInv, Receive, ServerAt
  <2>2. fd \in Sock
    BY <2>1 DEF Sound, SelectInv, TypeOK
  <2> QED BY <2>1, <2>2, QueueTypes DEF TypeOK
<1>2. c # NoConn => Has(c, fd, conn, Enlisted)
  <2>1. Enlisted = born
    BY <1>1 DEF Enlisted
  <2> QED BY <1>1, <2>1 DEF Sound, ConnOnce, Has
<1>3. packet.socket = fd /\ packet.from = c /\ (packet.kind # "zeros" => c # NoConn)
  OBVIOUS
<1>4. packet \in Packets
  <2>1. c # NoConn => inbox[c] # "none" /\ inbox[c] \in Kind \cup {"none"}
    BY <1>1 DEF Sound, SelectInv, TypeOK, Receive
  <2> QED BY <1>1, <2>1 DEF Packets
<1> HIDE DEF packet, c
<1>5. /\ Len(packetQueue) \in Nat /\ Len(packetQueue') = Len(packetQueue) + 1
      /\ \A j \in 1..Len(packetQueue) : packetQueue'[j] = packetQueue[j]
      /\ packetQueue'[Len(packetQueue) + 1] = packet
  BY <1>1, <1>4, AppendProperties, LenProperties
<1> SUFFICES ASSUME NEW j \in 1..Len(packetQueue'), packetQueue'[j].kind # "zeros"
             PROVE  Has(packetQueue'[j].from, packetQueue'[j].socket, conn', Enlisted')
  BY DEF PacketsAttributed
<1>6. CASE j \in 1..Len(packetQueue)
  BY <1>5, <1>6, SteadyKeeps DEF PacketsAttributed
<1>7. CASE j = Len(packetQueue) + 1
  BY <1>2, <1>3, <1>5, <1>7, SteadyKeeps
<1> QED BY <1>5, <1>6, <1>7

\* PacketManager's look-up finds the sender of a packet if he is there.
LEMMA PacketManagerAttributes ==
  ASSUME IInv, Up, Steady, PacketsAttributed, CommandsAttributed, PacketManagerTakes
  PROVE  PacketsAttributed' /\ CommandsAttributed'
<1> DEFINE packet == Head(packetQueue)
           p == getPlayerBySocket(packet.socket)
           command == [kind |-> packet.kind, player |-> p, from |-> packet.from]
<1>1. /\ TypeOK /\ Sound /\ packetQueue # <<>> /\ packetQueue' = Tail(packetQueue)
      /\ commandQueue' \in {commandQueue, Append(commandQueue, command)}
      /\ packetQueue \in Seq(Packets) /\ commandQueue \in Seq(Commands)
  <2>1. TypeOK /\ Sound
    BY DEF IInv
  <2>2. /\ packetQueue # <<>> /\ packetQueue' = Tail(packetQueue)
        /\ commandQueue' \in {commandQueue, Append(commandQueue, command)}
    BY DEF PacketManagerTakes, Takes
  <2> QED BY <2>1, <2>2, QueueTypes
<1>2. /\ packet \in Packets /\ packet = packetQueue[1] /\ 1 \in 1..Len(packetQueue)
      /\ \A j \in 1..Len(packetQueue') :
           packetQueue'[j] = packetQueue[j + 1] /\ j + 1 \in 1..Len(packetQueue)
  <2>1. /\ Len(packetQueue) \in Nat /\ Len(packetQueue) # 0
        /\ Len(packetQueue') = Len(packetQueue) - 1
        /\ packet \in Packets /\ packet = packetQueue[1]
        /\ \A j \in 1..Len(packetQueue') : packetQueue'[j] = packetQueue[j + 1]
    BY <1>1, HeadTailProperties, LenProperties, EmptySeq
  <2> QED BY <2>1
<1> HIDE DEF packet
<1>3. PacketsAttributed'
  BY <1>2, SteadyKeeps DEF PacketsAttributed
<1>4. /\ packet.socket \in Sock /\ packet.kind \in Kind \cup {"zeros"}
      /\ packet.from \in Conn \cup {NoConn}
  BY <1>2 DEF Packets
<1>5. packet.kind # "zeros" => Has(packet.from, packet.socket, conn, Enlisted)
  BY <1>2 DEF PacketsAttributed
<1>6. ASSUME packet.kind # "zeros", NEW r \in Sock, conn[r] = packet.from
      PROVE  p = packet.from
  <2>1. packet.from \in Conn /\ packet.from <= Enlisted /\ r = packet.socket
    BY <1>5, <1>6 DEF Has
  <2>2. sock[packet.from] = packet.socket
    BY <1>1, <1>6, <2>1, OwnSocket
  <2> QED BY <1>1, <1>4, <2>1, <2>2, FoundPlayer DEF Sound
<1>7. command.kind # "zeros" => IsFrom(command, conn, Enlisted)
  BY <1>5, <1>6 DEF Has, IsFrom
<1>8. command \in Commands
  <2>1. p \in Conn \cup {NoConn}
    BY <1>1, <1>4, FoundPlayer DEF Sound
  <2> QED BY <1>4, <2>1 DEF Commands
<1> HIDE DEF command
<1>9. CASE commandQueue' = commandQueue
  BY <1>3, <1>9, SteadyKeeps DEF CommandsAttributed
<1>10. CASE commandQueue' = Append(commandQueue, command)
  <2>1. /\ Len(commandQueue) \in Nat /\ Len(commandQueue') = Len(commandQueue) + 1
        /\ \A j \in 1..Len(commandQueue) : commandQueue'[j] = commandQueue[j]
        /\ commandQueue'[Len(commandQueue) + 1] = command
    BY <1>1, <1>8, <1>10, AppendProperties, LenProperties
  <2>2. ASSUME NEW j \in 1..Len(commandQueue'), commandQueue'[j].kind # "zeros"
        PROVE  IsFrom(commandQueue'[j], conn', Enlisted')
    <3>1. CASE j \in 1..Len(commandQueue)
      BY <2>1, <2>2, <3>1, SteadyKeeps DEF CommandsAttributed
    <3>2. CASE j = Len(commandQueue) + 1
      BY <1>7, <2>1, <2>2, <3>2, SteadyKeeps
    <3> QED BY <2>1, <3>1, <3>2
  <2> QED BY <1>3, <2>2 DEF CommandsAttributed
<1> QED BY <1>1, <1>3, <1>9, <1>10

\* Whoever registers an answer has it registered for his own descriptor.
LEMMA CommandManagerAttributes ==
  ASSUME IInv, Up, Steady, CommandsAttributed, AnswersAttributed, CommandManagerTakes
  PROVE  CommandsAttributed' /\ AnswersAttributed'
<1> DEFINE command == Head(commandQueue)
           p == command.player
           c == command.from
<1>1. /\ TypeOK /\ Sound /\ commandQueue # <<>> /\ commandQueue' = Tail(commandQueue)
      /\ conn' = conn /\ Enlisted' = Enlisted
      /\ commandQueue \in Seq(Commands) /\ pQueue \in Seq(Answers) /\ players \in Seq(1..Enlisted)
  <2>1. TypeOK /\ Sound
    BY DEF IInv
  <2>2. /\ commandQueue # <<>> /\ commandQueue' = Tail(commandQueue)
        /\ conn' = conn /\ at' = at /\ born' = born
    BY DEF CommandManagerTakes, Takes, kernel, select
  <2> QED BY <2>1, <2>2, QueueTypes DEF Sound, VectorInv, Enlisted
<1>2. \/ pQueue' = pQueue
      \/ /\ command.kind = "request" /\ p # NoConn
         /\ \/ pQueue' = Append(pQueue, Answer(p, c))
            \/ \E q \in ToSet(players) : pQueue' = pQueue \o <<Answer(p, c), Answer(q, q)>>
  BY DEF CommandManagerTakes
<1>3. /\ command \in Commands /\ command = commandQueue[1] /\ 1 \in 1..Len(commandQueue)
      /\ \A j \in 1..Len(commandQueue') :
           commandQueue'[j] = commandQueue[j + 1] /\ j + 1 \in 1..Len(commandQueue)
  <2>1. /\ Len(commandQueue) \in Nat /\ Len(commandQueue) # 0
        /\ Len(commandQueue') = Len(commandQueue) - 1
        /\ command \in Commands /\ command = commandQueue[1]
        /\ \A j \in 1..Len(commandQueue') : commandQueue'[j] = commandQueue[j + 1]
    BY <1>1, HeadTailProperties, LenProperties, EmptySeq
  <2> QED BY <2>1
<1> HIDE DEF command
<1>4. CommandsAttributed'
  BY <1>1, <1>3 DEF CommandsAttributed
<1>5. p \in Conn \cup {NoConn} /\ c \in Conn \cup {NoConn}
  BY <1>3 DEF Commands
<1>6. command.kind # "zeros" => IsFrom(command, conn, Enlisted)
  BY <1>3 DEF CommandsAttributed
<1> HIDE DEF p, c
<1>7. ASSUME NEW q \in Conn, NEW a \in Conn, a <= Enlisted, \A r \in Sock : conn[r] = a => q = a
      PROVE  /\ Answer(q, a) \in Answers
             /\ Has(Answer(q, a).to, Answer(q, a).socket, conn, Enlisted)
  <2>1. \A r \in Sock : conn[r] = a => r = sock[q]
    BY <1>1, <1>7, OwnSocket
  <2>2. Answer(q, a).to = a /\ Answer(q, a).socket = sock[q] /\ Answer(q, a) \in Answers
    BY <1>1 DEF Answer, Answers, TypeOK
  <2> QED BY <1>7, <2>1, <2>2 DEF Has
<1>8. ASSUME command.kind = "request", p # NoConn
      PROVE  /\ Answer(p, c) \in Answers
             /\ Has(Answer(p, c).to, Answer(p, c).socket, conn, Enlisted)
  <2>1. /\ c \in Conn /\ c <= Enlisted
        /\ \A r \in Sock : conn[r] = c => p = c
    BY <1>6, <1>8 DEF IsFrom, c, p
  <2> QED BY <1>5, <1>7, <1>8, <2>1
<1>9. ASSUME NEW q \in ToSet(players)
      PROVE  /\ Answer(q, q) \in Answers
             /\ Has(Answer(q, q).to, Answer(q, q).socket, conn, Enlisted)
  <2>1. PICK i \in 1..Len(players) : players[i] = q
    BY <1>1, ElementOfSeq DEF ToSet
  <2>2. q \in Conn
    <3>1. players \in Seq(Conn)
      BY <1>1 DEF TypeOK
    <3> QED BY <3>1, ElementOfSeq DEF ToSet
  <2>3. q <= Enlisted
    <3>1. players[i] \in 1..Enlisted
      BY <1>1, <2>1, ElementOfSeq
    <3> QED BY <2>1, <3>1
  <2> QED BY <1>7, <2>2, <2>3
<1>10. ASSUME NEW a \in Answers, Has(a.to, a.socket, conn, Enlisted),
              pQueue' = Append(pQueue, a)
       PROVE  AnswersAttributed'
  <2>1. /\ Len(pQueue) \in Nat /\ Len(pQueue') = Len(pQueue) + 1
        /\ \A j \in 1..Len(pQueue) : pQueue'[j] = pQueue[j]
        /\ pQueue'[Len(pQueue) + 1] = a
    BY <1>1, <1>10, AppendProperties, LenProperties
  <2>2. \A j \in 1..Len(pQueue') : j \in 1..Len(pQueue) \/ j = Len(pQueue) + 1
    BY <2>1
  <2> QED BY <1>1, <1>10, <2>1, <2>2 DEF AnswersAttributed
<1>11. ASSUME NEW a \in Answers, NEW b \in Answers, pQueue' = pQueue \o <<a, b>>,
              Has(a.to, a.socket, conn, Enlisted), Has(b.to, b.socket, conn, Enlisted)
       PROVE  AnswersAttributed'
  <2>1. <<a, b>> \in Seq(Answers) /\ Len(<<a, b>>) = 2 /\ <<a, b>>[1] = a /\ <<a, b>>[2] = b
    BY <1>11
  <2>2. /\ Len(pQueue) \in Nat /\ Len(pQueue') = Len(pQueue) + 2
        /\ \A j \in 1..Len(pQueue) : pQueue'[j] = pQueue[j]
        /\ \A j \in 1..2 : pQueue'[Len(pQueue) + j] = <<a, b>>[j]
    BY <1>1, <1>11, <2>1, ConcatProperties, LenProperties
  <2>3. pQueue'[Len(pQueue) + 1] = a /\ pQueue'[Len(pQueue) + 2] = b
    BY <2>1, <2>2
  <2>4. \A j \in 1..Len(pQueue') :
          j \in 1..Len(pQueue) \/ j = Len(pQueue) + 1 \/ j = Len(pQueue) + 2
    BY <2>2
  <2> QED BY <1>1, <1>11, <2>2, <2>3, <2>4 DEF AnswersAttributed
<1>12. CASE pQueue' = pQueue
  BY <1>1, <1>4, <1>12 DEF AnswersAttributed
<1> QED BY <1>2, <1>4, <1>8, <1>9, <1>10, <1>11, <1>12

\* The Sender takes off the head.
LEMMA SendAttributes ==
  ASSUME IInv, Up, Steady, AnswersAttributed, Send
  PROVE  AnswersAttributed'
<1>1. pQueue # <<>> /\ pQueue' = Tail(pQueue) /\ pQueue \in Seq(Answers)
  <2>1. TypeOK
    BY DEF IInv
  <2> QED BY <2>1, QueueTypes DEF Send, Takes
<1>2. \A j \in 1..Len(pQueue') : pQueue'[j] = pQueue[j + 1] /\ j + 1 \in 1..Len(pQueue)
  <2>1. /\ Len(pQueue) \in Nat /\ Len(pQueue) # 0 /\ Len(pQueue') = Len(pQueue) - 1
        /\ \A j \in 1..Len(pQueue') : pQueue'[j] = pQueue[j + 1]
    BY <1>1, HeadTailProperties, LenProperties, EmptySeq
  <2> QED BY <2>1
<1> QED BY <1>2, SteadyKeeps DEF AnswersAttributed

\* Nothing else touches the queues.
LEMMA QueuePlaces ==
  ASSUME [Next]_vars
  PROVE  \/ UNCHANGED queues
         \/ Up /\ Receive /\ UNCHANGED <<commandQueue, pQueue>>
         \/ Up /\ PacketManagerTakes /\ UNCHANGED pQueue
         \/ Up /\ CommandManagerTakes /\ UNCHANGED packetQueue
         \/ Up /\ Send /\ UNCHANGED <<packetQueue, commandQueue>>
<1>1. CASE UNCHANGED vars
  BY <1>1 DEF vars
<1>2. CASE Starts
  BY <1>2 DEF Starts
<1>3. ASSUME NEW c \in Conn, ClientLeaves(c) \/ \E k \in Kind : ClientSends(c, k)
      PROVE  UNCHANGED queues
  BY <1>3 DEF ClientLeaves, ClientSends
<1>4. ASSUME NEW t \in Thread, Disconnects(t)
      PROVE  UNCHANGED queues
  BY <1>4 DEF Disconnects, Close, Clear, Search, Erase
<1>5. CASE ServerNext
  <2>1. CASE Disconnects("server")
    BY <1>4, <2>1 DEF Thread
  <2>2. CASE \/ CopySocks \/ SelectCall \/ SelectReturn \/ PassEnds \/ Accept \/ Enlist
             \/ AskSize \/ ClientDisconnected
    BY <2>2 DEF CopySocks, SelectCall, SelectReturn, PassEnds, Accept, Enlist, AskSize,
                ClientDisconnected
  <2>3. CASE Receive
    BY <2>3 DEF Receive, ServerAt
  <2> QED BY <1>5, <2>1, <2>2, <2>3 DEF ServerNext
<1>6. CASE PacketManagerNext \/ CommandManagerNext \/ Send
  <2>1. CASE Disconnects("pm") \/ Disconnects("cm")
    BY <1>4, <2>1 DEF Thread
  <2>2. CASE PacketManagerTakes
    BY <2>2 DEF PacketManagerTakes, Takes
  <2>3. CASE CommandManagerTakes
    BY <2>3 DEF CommandManagerTakes, Takes
  <2>4. CASE Send
    BY <2>4 DEF Send, Takes
  <2> QED BY <1>6, <2>1, <2>2, <2>3, <2>4 DEF PacketManagerNext, CommandManagerNext
<1> QED BY <1>1, <1>2, <1>3, <1>5, <1>6 DEF Next

\* The attribution is kept by every step.
LEMMA AttributionInductive ==
  ASSUME IInv, Up => Attributed, [Next]_vars
  PROVE  Up' => Attributed'
<1> SUFFICES ASSUME Up' PROVE Attributed'
  OBVIOUS
<1>1. Up
  BY StepsWhileUp
<1>2. Steady /\ Attributed
  BY <1>1, StepIsSteady
<1>3. /\ packetQueue' = packetQueue => PacketsAttributed'
      /\ commandQueue' = commandQueue => CommandsAttributed'
      /\ pQueue' = pQueue => AnswersAttributed'
  BY <1>2, SteadyKeeps
     DEF Attributed, PacketsAttributed, CommandsAttributed, AnswersAttributed
<1>4. \/ UNCHANGED queues
      \/ Receive /\ UNCHANGED <<commandQueue, pQueue>>
      \/ PacketManagerTakes /\ UNCHANGED pQueue
      \/ CommandManagerTakes /\ UNCHANGED packetQueue
      \/ Send /\ UNCHANGED <<packetQueue, commandQueue>>
  BY QueuePlaces
<1>5. CASE UNCHANGED queues
  BY <1>3, <1>5 DEF queues, Attributed
<1>6. CASE Receive /\ UNCHANGED <<commandQueue, pQueue>>
  BY <1>1, <1>2, <1>3, <1>6, ReceiveAttributes DEF Attributed
<1>7. CASE PacketManagerTakes /\ UNCHANGED pQueue
  BY <1>1, <1>2, <1>3, <1>7, PacketManagerAttributes DEF Attributed
<1>8. CASE CommandManagerTakes /\ UNCHANGED packetQueue
  BY <1>1, <1>2, <1>3, <1>8, CommandManagerAttributes DEF Attributed
<1>9. CASE Send /\ UNCHANGED <<packetQueue, commandQueue>>
  BY <1>1, <1>2, <1>3, <1>9, SendAttributes DEF Attributed
<1> QED BY <1>4, <1>5, <1>6, <1>7, <1>8, <1>9

\* The answer to a request goes to the client who made it, as long as he is
\* there, whatever happened to descriptors while it was under way.
THEOREM AnswersReachAddressee == Spec => []AnswerReachesAddressee
<1>1. Init => (Up => Attributed)
  BY DEF Init, Attributed, PacketsAttributed, CommandsAttributed, AnswersAttributed
<1>2. IInv /\ (Up => Attributed) /\ [Next]_vars => (Up => Attributed)'
  BY AttributionInductive
<1>3. ASSUME IInv, Up, Attributed, NEW answer \in ToSet(pQueue), Open(answer.to)
      PROVE  answer.socket # NoSock /\ conn[answer.socket] = answer.to
  <2>1. PICK r \in Sock : conn[r] = answer.to
    BY <1>3 DEF Open
  <2>2. PICK j \in DOMAIN pQueue : pQueue[j] = answer
    BY DEF ToSet
  <2>3. DOMAIN pQueue = 1..Len(pQueue)
    BY <1>3 DEF IInv, TypeOK
  <2>4. r = answer.socket
    BY <1>3, <2>1, <2>2, <2>3 DEF Attributed, AnswersAttributed, Has
  <2> QED BY <2>1, <2>4, Specials
<1>4. IInv /\ (Up => Attributed) => AnswerReachesAddressee
  BY <1>3 DEF AnswerReachesAddressee
<1> QED BY <1>1, <1>2, <1>4, Invariance, PTL DEF Spec

-----------------------------------------------------------------------------
(* How a closed descriptor gets to select(): a third invariant, which also *)
(* rests on the first.                                                     *)

\* Somebody who logged out or sent garbage has been cut off.
SomebodyCut == \E c \in asked : ~ Open(c)

\* PacketManager and CommandManager cut off nobody else, and leave the bit to
\* be cleared only of somebody they did cut off.
CutBy(d) ==
  /\ d.step = "close" /\ d.socket # NoSock /\ conn[d.socket] # NoConn =>
       conn[d.socket] \in asked
  /\ d.step = "clear" /\ d.socket \in clientSocks => SomebodyCut

CutInv ==
  /\ \A c \in asked : c <= born
  /\ Busy("server") => at = "pass"
  /\ \A t \in {"pm", "cm"} : CutBy(disc[t])
  /\ at = "call" /\ Closed # {} => SomebodyCut

\* Who is cut off stays so.
LEMMA CutForGood ==
  ASSUME IInv, Up, CutInv, Steady, asked \subseteq asked', SomebodyCut
  PROVE  SomebodyCut'
<1>1. PICK c \in asked : ~ Open(c)
  BY DEF SomebodyCut
<1>2. c \in Conn /\ c <= born /\ born \in Nat /\ Sound
  BY <1>1 DEF IInv, TypeOK, CutInv
<1>3. at = "accepted" => c # born
  BY <1>1, <1>2 DEF Sound, AcceptedInv, Open
<1>4. c <= Enlisted
  BY <1>2, <1>3, Specials DEF Enlisted
<1>5. ~ Open(c)'
  BY <1>1, <1>2, <1>4 DEF Steady, Open
<1> QED BY <1>1, <1>5 DEF SomebodyCut

\* Nothing is lost by a step that leaves all this alone.
LEMMA CutFrame ==
  ASSUME CutInv, UNCHANGED <<conn, born, asked, clientSocks, disc>>,
         at' = "call" => at = "call" /\ readSocks' = readSocks,
         Busy("server") => at' = "pass"
  PROVE  CutInv'
<1>1. SomebodyCut' <=> SomebodyCut
  BY DEF SomebodyCut, Open
<1>2. \A t \in {"pm", "cm"} : CutBy(disc[t])'
  BY <1>1 DEF CutInv, CutBy
<1>3. at' = "call" => Closed' = Closed
  BY DEF Closed
<1> QED BY <1>1, <1>2, <1>3 DEF CutInv, Busy

\* Nor by the steps of a disconnection after the close().
LEMMA CutMoves ==
  ASSUME CutInv, NEW t \in Thread, Busy(t),
         UNCHANGED <<conn, born, asked, readSocks, at>>, clientSocks' \subseteq clientSocks,
         \A u \in Thread \ {t} : disc'[u] = disc[u], disc'[t].step \notin {"close", "clear"}
  PROVE  CutInv'
<1>1. (SomebodyCut' <=> SomebodyCut) /\ Closed' = Closed
  BY DEF SomebodyCut, Open, Closed
<1>2. ASSUME NEW u \in {"pm", "cm"}
      PROVE  CutBy(disc[u])'
  <2>1. CASE u = t
    BY <2>1 DEF CutBy
  <2>2. CASE u # t
    <3>1. disc'[u] = disc[u] /\ CutBy(disc[u])
      BY <2>2 DEF Thread, CutInv
    <3> QED BY <1>1, <3>1 DEF CutBy
  <2> QED BY <2>1, <2>2
<1>3. Busy("server")' => at' = "pass"
  <2>1. "server" \in Thread
    BY DEF Thread
  <2> QED BY <2>1 DEF Busy, CutInv
<1> QED BY <1>1, <1>2, <1>3 DEF CutInv

\* PacketManager or CommandManager begins with somebody who asked for it.
LEMMA CutBegins ==
  ASSUME TypeOK, CutInv, NEW t \in {"pm", "cm"}, NEW s \in Sock \cup {NoSock}, Begins(t, s),
         UNCHANGED <<conn, born, asked, clientSocks, readSocks, at>>,
         s # NoSock /\ conn[s] # NoConn => conn[s] \in asked
  PROVE  CutInv'
<1>1. t \in Thread /\ t # "server" /\ "server" \in Thread /\ disc \in [Thread -> DiscRec \cup {NoDisc}]
  BY DEF Thread, TypeOK
<1>2. /\ disc'[t].step = "close" /\ disc'[t].socket = s
      /\ \A u \in Thread \ {t} : disc'[u] = disc[u]
  BY <1>1 DEF Begins, NoDisc
<1>3. (SomebodyCut' <=> SomebodyCut) /\ Closed' = Closed
  BY DEF SomebodyCut, Open, Closed
<1>4. ASSUME NEW u \in {"pm", "cm"}
      PROVE  CutBy(disc[u])'
  <2>1. CASE u = t
    BY <1>2, <2>1 DEF CutBy
  <2>2. CASE u # t
    <3>1. disc'[u] = disc[u] /\ CutBy(disc[u])
      BY <1>2, <2>2 DEF Thread, CutInv
    <3> QED BY <1>3, <3>1 DEF CutBy
  <2> QED BY <2>1, <2>2
<1>5. Busy("server")' => at' = "pass"
  BY <1>1, <1>2 DEF Busy, CutInv
<1> QED BY <1>3, <1>4, <1>5 DEF CutInv

\* The close() cuts off the client it is for, if his number is still open.
LEMMA CutCloses ==
  ASSUME IInv, Up, CutInv, Steady, NEW t \in Thread, Close(t)
  PROVE  CutInv'
<1> DEFINE s == disc[t].socket
<1>1. /\ TypeOK /\ Sound /\ disc[t].step = "close"
      /\ conn' = [r \in Sock |-> IF r = s THEN NoConn ELSE conn[r]]
      /\ disc' = [disc EXCEPT ![t].step = "clear"]
      /\ UNCHANGED <<born, asked, clientSocks, readSocks, at>>
  BY DEF IInv, Close, InDisconnection, select
<1>2. s \in Sock \cup {NoSock} /\ Busy(t) /\ "server" \in Thread /\ {"pm", "cm"} \subseteq Thread
  BY <1>1, DiscFacts DEF TypeOK, Thread
<1>3. disc \in [Thread -> DiscRec \cup {NoDisc}]
  BY <1>1 DEF TypeOK
<1>4. /\ disc'[t].step = "clear" /\ disc'[t].socket = s
      /\ \A u \in Thread \ {t} : disc'[u] = disc[u]
  <2>1. disc[t] \in DiscRec
    BY <1>1, <1>3 DEF NoDisc
  <2> QED BY <1>1, <1>3, <2>1 DEF DiscRec
<1> HIDE DEF s
<1>5. SomebodyCut => SomebodyCut'
  BY <1>1, CutForGood
<1>6. ASSUME t \in {"pm", "cm"}, s \in Sock, conn[s] # NoConn
      PROVE  SomebodyCut'
  <2>1. conn[s] \in asked /\ conn[s] \in Conn
    BY <1>1, <1>6, Specials DEF CutInv, CutBy, TypeOK, s
  <2>2. PICK c \in asked : c = conn[s] /\ c # NoConn
    BY <1>6, <2>1
  <2>3. \A r \in Sock : conn'[r] # c
    BY <1>1, <1>6, <2>2 DEF Sound, ConnOnce
  <2> QED BY <1>1, <2>2, <2>3 DEF SomebodyCut, Open
<1>7. ASSUME NEW u \in {"pm", "cm"}
      PROVE  CutBy(disc[u])'
  <2>1. CASE u = t
    <3> SUFFICES ASSUME s \in clientSocks, conn[s] = NoConn PROVE SomebodyCut'
      BY <1>1, <1>2, <1>4, <1>6, <2>1 DEF CutBy, TypeOK
    <3>1. PICK v \in Thread : disc[v].socket = s /\ disc[v].step = "clear"
      BY <1>1 DEF Sound, DeadBitHasCloser
    <3>2. Busy(v)
      BY <1>3, <3>1, DiscFacts
    <3>3. v = t
      BY <1>1, <1>2, <3>2 DEF Sound, OneBusy
    <3> QED BY <1>1, <3>1, <3>3
  <2>2. CASE u # t
    <3>1. disc'[u] = disc[u] /\ CutBy(disc[u]) /\ u \in Thread
      BY <1>2, <1>4, <2>2 DEF CutInv
    <3>2. ~ Busy(u)
      BY <1>1, <1>2, <2>2, <3>1 DEF Sound, OneBusy
    <3>3. disc'[u].step = "none"
      BY <1>3, <3>1, <3>2, DiscFacts
    <3> QED BY <3>3 DEF CutBy
  <2> QED BY <2>1, <2>2
<1>8. ASSUME at' = "call", Closed' # {}
      PROVE  SomebodyCut'
  <2>1. t # "server"
    BY <1>1, <1>2, <1>8 DEF CutInv
  <2>2. CASE s \in Sock /\ conn[s] # NoConn
    BY <1>6, <2>1, <2>2 DEF Thread
  <2>3. CASE ~ (s \in Sock /\ conn[s] # NoConn)
    <3>1. readSocks \subseteq Sock \cup {Listener}
      BY <1>1 DEF TypeOK
    <3>2. Closed' = Closed
      BY <1>1, <2>3, <3>1 DEF Closed
    <3> QED BY <1>1, <1>5, <1>8, <3>2 DEF CutInv
  <2> QED BY <2>2, <2>3
<1>9. Busy("server")' => at' = "pass"
  <2>1. Busy("server")' => Busy("server")
    BY <1>2, <1>4 DEF Busy
  <2> QED BY <1>1, <2>1 DEF CutInv
<1> QED BY <1>1, <1>7, <1>8, <1>9 DEF CutInv

\* The other steps of proceedPlayerDisconnection().
LEMMA CutDisconnects ==
  ASSUME IInv, Up, Up', CutInv, Steady, NEW t \in Thread, Disconnects(t)
  PROVE  CutInv'
<1>1. disc \in [Thread -> DiscRec \cup {NoDisc}]
  BY DEF IInv, TypeOK
<1>2. ASSUME NEW place \in {"close", "clear", "search", "erase"}, disc[t].step = place
      PROVE  Busy(t) /\ disc[t] \in DiscRec
  <2>1. disc[t].step # "none"
    BY <1>2
  <2> QED BY <1>1, <2>1 DEF NoDisc, Busy
<1>3. CASE Clear(t)
  <2>1. /\ disc[t].step = "clear" /\ disc' = [disc EXCEPT ![t].step = "search"]
        /\ clientSocks' \subseteq clientSocks
        /\ UNCHANGED <<conn, born, asked, readSocks, at>>
    BY <1>3 DEF Clear, InDisconnection, Cleared, kernel
  <2>2. Busy(t) /\ disc[t] \in DiscRec
    BY <1>2, <2>1
  <2>3. disc'[t].step = "search" /\ \A u \in Thread \ {t} : disc'[u] = disc[u]
    BY <1>1, <2>1, <2>2 DEF DiscRec
  <2> QED BY <2>1, <2>2, <2>3, CutMoves
<1>4. CASE Search(t)
  <2>1. /\ disc[t].step = "search"
        /\ UNCHANGED <<conn, born, asked, clientSocks, readSocks, at>>
    BY <1>4 DEF Search, InDisconnection, kernel, select
  <2> DEFINE i == IndexBySocket(disc[t].socket)
  <2>2. disc' = [disc EXCEPT ![t].step = "erase", ![t].player = players[i], ![t].index = i]
    BY <1>4 DEF Search, Ends, Up
  <2> HIDE DEF i
  <2>3. Busy(t) /\ disc[t] \in DiscRec
    BY <1>2, <2>1
  <2>4. disc'[t].step = "erase" /\ \A u \in Thread \ {t} : disc'[u] = disc[u]
    BY <1>1, <2>2, <2>3 DEF DiscRec
  <2> QED BY <2>1, <2>3, <2>4, CutMoves
<1>5. CASE Erase(t)
  <2>1. /\ disc[t].step = "erase" /\ disc' = [disc EXCEPT ![t] = NoDisc]
        /\ UNCHANGED <<conn, born, asked, clientSocks, readSocks, at>>
    BY <1>5 DEF Erase, InDisconnection, kernel, select
  <2>2. Busy(t)
    BY <1>2, <2>1
  <2>3. disc'[t].step = "none" /\ \A u \in Thread \ {t} : disc'[u] = disc[u]
    BY <1>1, <2>1 DEF NoDisc
  <2> QED BY <2>1, <2>2, <2>3, CutMoves
<1> QED BY <1>3, <1>4, <1>5, CutCloses DEF Disconnects

\* The Server thread.  It copies the set while it is not cutting anybody off
\* itself, so a closed descriptor in it is there because of another thread.
LEMMA CutServer ==
  ASSUME IInv, Up, Up', CutInv, Steady, ServerNext
  PROVE  CutInv'
<1>1. TypeOK /\ Sound /\ "server" \in Thread
  BY DEF IInv, Thread
<1>2. CASE CopySocks
  <2>1. /\ ~ Busy("server") /\ readSocks' = clientSocks \cup {Listener}
        /\ UNCHANGED <<conn, born, asked, clientSocks, disc>>
    BY <1>2 DEF CopySocks, ServerAt, kernel
  <2>2. SomebodyCut' <=> SomebodyCut
    BY <2>1 DEF SomebodyCut, Open
  <2>3. ASSUME NEW s \in clientSocks, conn[s] = NoConn
        PROVE  SomebodyCut
    <3>1. PICK t \in Thread : disc[t].socket = s /\ disc[t].step = "clear"
      BY <1>1, <2>3 DEF Sound, DeadBitHasCloser
    <3>2. t \in {"pm", "cm"}
      <4>1. Busy(t)
        BY <1>1, <3>1, DiscFacts DEF TypeOK
      <4> QED BY <2>1, <4>1 DEF Thread
    <3> QED BY <3>1, <3>2 DEF CutInv, CutBy
  <2>4. Closed' # {} => SomebodyCut
    BY <2>1, <2>3 DEF Closed
  <2>5. \A t \in {"pm", "cm"} : CutBy(disc[t])'
    BY <2>1, <2>2 DEF CutInv, CutBy
  <2> QED BY <2>1, <2>2, <2>4, <2>5 DEF CutInv, Busy
<1>3. CASE SelectCall \/ SelectReturn \/ PassEnds \/ AskSize \/ Receive
  <2>1. /\ UNCHANGED <<conn, born, asked, clientSocks, disc>> /\ ~ Busy("server")
        /\ at' = "call" => at = "call" /\ readSocks' = readSocks
    BY <1>3 DEF SelectCall, SelectReturn, PassEnds, AskSize, Receive, ServerAt, Served, kernel
  <2> QED BY <2>1, CutFrame
<1>4. CASE Accept
  <2>1. /\ ~ Busy("server") /\ at' = "accepted" /\ born' = born + 1
        /\ UNCHANGED <<asked, clientSocks, disc>>
    BY <1>4 DEF Accept, ServerAt
  <2>2. PICK s \in Sock : conn[s] = NoConn /\ conn' = [conn EXCEPT ![s] = born + 1] /\ ~ InMind(s)
    BY <1>4 DEF Accept, Ends, Up
  <2>3. \A t \in Thread : disc[t].socket # s
    BY <1>1, <2>2, MindIsBusy
  <2>4. SomebodyCut => SomebodyCut'
    BY <2>1, CutForGood
  <2>5. ASSUME NEW t \in {"pm", "cm"}
        PROVE  CutBy(disc[t])'
    <3>1. t \in Thread /\ disc[t].socket \in Sock \cup {NoSock}
      BY <1>1, DiscFacts DEF Thread, TypeOK
    <3>2. disc[t].socket # NoSock => conn'[disc[t].socket] = conn[disc[t].socket]
      BY <1>1, <2>2, <2>3, <3>1 DEF TypeOK
    <3> QED BY <2>1, <2>4, <3>2 DEF CutInv, CutBy
  <2>6. \A c \in asked : c <= born'
    BY <1>1, <2>1 DEF TypeOK, CutInv, Conn
  <2> QED BY <2>1, <2>5, <2>6 DEF CutInv, Busy
<1>5. CASE Enlist
  <2>1. /\ at = "accepted" /\ at' = "pass" /\ clientSocks' = clientSocks \cup {clientSocket}
        /\ UNCHANGED <<conn, born, asked, disc>>
    BY <1>5 DEF Enlist, ServerAt, Served, Watched, kernel
  <2>2. \A t \in Thread : disc[t].socket # clientSocket
    BY <1>1, <2>1 DEF Sound, AcceptedInv
  <2>3. SomebodyCut' <=> SomebodyCut
    BY <2>1 DEF SomebodyCut, Open
  <2>4. \A t \in {"pm", "cm"} : CutBy(disc[t])'
    BY <2>1, <2>2, <2>3 DEF CutInv, CutBy, Thread
  <2> QED BY <2>1, <2>4 DEF CutInv
<1>6. CASE ClientDisconnected
  <2>1. /\ at' = "pass" /\ disc' = [disc EXCEPT !["server"] = [NoDisc EXCEPT !.step = "close", !.socket = fd]]
        /\ UNCHANGED <<conn, born, asked, clientSocks>>
    BY <1>6 DEF ClientDisconnected, Served, Begins, kernel
  <2>2. \A t \in {"pm", "cm"} : disc'[t] = disc[t]
    BY <1>1, <2>1 DEF TypeOK, Thread
  <2>3. SomebodyCut' <=> SomebodyCut
    BY <2>1 DEF SomebodyCut, Open
  <2>4. \A t \in {"pm", "cm"} : CutBy(disc[t])'
    BY <2>1, <2>2, <2>3 DEF CutInv, CutBy
  <2> QED BY <2>1, <2>4 DEF CutInv
<1>7. CASE Disconnects("server")
  BY <1>1, <1>7, CutDisconnects
<1> QED BY <1>2, <1>3, <1>4, <1>5, <1>6, <1>7 DEF ServerNext

\* The threads that take what is queued, and begin with disconnections.
LEMMA CutManagers ==
  ASSUME IInv, Up, Up', CutInv, Steady, PacketManagerNext \/ CommandManagerNext \/ Send
  PROVE  CutInv'
<1>1. TypeOK /\ Sound /\ {"pm", "cm"} \subseteq Thread
  BY DEF IInv, Thread
<1>2. CASE PacketManagerTakes
  <2> DEFINE packet == Head(packetQueue)
  <2>1. /\ packetQueue # <<>> /\ packetQueue' = Tail(packetQueue)
        /\ UNCHANGED <<conn, born, asked, clientSocks, readSocks, at>>
        /\ \/ disc' = disc
           \/ packet.kind = "bad" /\ Begins("pm", packet.socket)
    BY <1>2 DEF PacketManagerTakes, Takes, kernel, select
  <2>2. /\ packet \in Packets
        /\ conn[packet.socket] \in {NoConn, packet.from}
        /\ packet.kind \in {"bad", "logout"} => packet.from \in asked
    BY <1>1, <2>1, PacketTaken
  <2> HIDE DEF packet
  <2>3. packet.socket \in Sock
    BY <2>2 DEF Packets
  <2>4. CASE disc' = disc
    BY <2>1, <2>4, CutFrame DEF CutInv
  <2>5. CASE packet.kind = "bad" /\ Begins("pm", packet.socket)
    <3>1. conn[packet.socket] # NoConn => conn[packet.socket] \in asked
      BY <2>2, <2>5
    <3> QED BY <1>1, <2>1, <2>3, <2>5, <3>1, CutBegins
  <2> QED BY <2>1, <2>4, <2>5
<1>3. CASE CommandManagerTakes
  <2> DEFINE command == Head(commandQueue)
             p == command.player
  <2>1. /\ commandQueue # <<>> /\ commandQueue' = Tail(commandQueue)
        /\ UNCHANGED <<conn, born, asked, clientSocks, readSocks, at>>
        /\ \/ disc' = disc
           \/ command.kind = "logout" /\ p # NoConn /\ Begins("cm", sock[p])
    BY <1>3 DEF CommandManagerTakes, Takes, kernel, select
  <2>2. /\ command \in Commands
        /\ command.kind = "logout" /\ p # NoConn =>
             p \in asked \/ sock[p] = NoSock \/ conn[sock[p]] = NoConn
    BY <1>1, <2>1, CommandTaken
  <2> HIDE DEF command
  <2>3. p \in Conn \cup {NoConn}
    BY <2>2 DEF Commands
  <2> HIDE DEF p
  <2>4. CASE disc' = disc
    BY <2>1, <2>4, CutFrame DEF CutInv
  <2>5. CASE command.kind = "logout" /\ p # NoConn /\ Begins("cm", sock[p])
    <3>1. p \in Conn
      BY <2>3, <2>5
    <3>2. sock[p] \in Sock \cup {NoSock}
      BY <1>1, <3>1 DEF TypeOK
    <3>3. sock[p] # NoSock /\ conn[sock[p]] # NoConn => conn[sock[p]] \in asked
      BY <1>1, <2>2, <2>5, <3>1 DEF Sound, SockIsOwn
    <3> QED BY <1>1, <2>1, <2>5, <3>2, <3>3, CutBegins
  <2> QED BY <2>1, <2>4, <2>5
<1>4. CASE Send
  BY <1>4, CutFrame DEF Send, CutInv, kernel, select
<1>5. CASE Disconnects("pm") \/ Disconnects("cm")
  BY <1>1, <1>5, CutDisconnects
<1> QED BY <1>2, <1>3, <1>4, <1>5 DEF PacketManagerNext, CommandManagerNext

\* Every step keeps it.
LEMMA CutInductive ==
  ASSUME IInv, Up => CutInv, [Next]_vars
  PROVE  Up' => CutInv'
<1> SUFFICES ASSUME Up' PROVE CutInv'
  OBVIOUS
<1>1. Up /\ CutInv /\ Steady
  BY StepsWhileUp, StepIsSteady
<1>2. CASE UNCHANGED vars \/ Starts \/ \E c \in Conn : ClientLeaves(c)
  <2>1. UNCHANGED <<conn, born, asked, clientSocks, disc, at, readSocks>>
    BY <1>2 DEF vars, Starts, ClientLeaves, kernel, select
  <2> QED BY <1>1, <2>1, CutFrame DEF CutInv
<1>3. ASSUME NEW c \in Conn, NEW k \in Kind, ClientSends(c, k)
      PROVE  CutInv'
  <2>1. /\ Open(c) /\ asked \subseteq asked' /\ asked' \subseteq asked \cup {c}
        /\ UNCHANGED <<conn, born, clientSocks, disc, at, readSocks>>
    BY <1>3 DEF ClientSends, select
  <2>2. SomebodyCut => SomebodyCut'
    BY <1>1, <2>1, CutForGood
  <2>3. c <= born
    BY <2>1, <1>1 DEF Open, IInv, Sound, ConnOnce
  <2>4. \A t \in {"pm", "cm"} : CutBy(disc[t])'
    BY <1>1, <2>1, <2>2 DEF CutInv, CutBy
  <2>5. Closed' = Closed
    BY <2>1 DEF Closed
  <2> QED BY <1>1, <2>1, <2>2, <2>3, <2>4, <2>5 DEF CutInv, Busy
<1> QED BY <1>1, <1>2, <1>3, CutServer, CutManagers DEF Next

\* select() fails with EBADF only after PacketManager or CommandManager cut
\* somebody off; that clients leave is never the cause.
THEOREM SelectFailuresHaveCauses == Spec => []SelectFailureHasCause
<1>1. ASSUME Init
      PROVE  CutInv
  <2>1. disc = [t \in Thread |-> NoDisc] /\ asked = {} /\ at = "copy"
    BY <1>1 DEF Init
  <2>2. \A t \in Thread : disc[t].step = "none" /\ ~ Busy(t)
    BY <2>1 DEF NoDisc, Busy
  <2> QED BY <2>1, <2>2 DEF CutInv, CutBy, Thread
<1>2. IInv /\ (Up => CutInv) /\ [Next]_vars => (Up => CutInv)'
  BY CutInductive
<1>3. ASSUME IInv, Up, CutInv, at = "call", NEW s \in Closed
      PROVE  /\ \E c \in asked : ~ Open(c)
             /\ s \in clientSocks =>
                  \E t \in {"pm", "cm"} : disc[t].socket = s /\ disc[t].step = "clear"
  <2>1. \E c \in asked : ~ Open(c)
    BY <1>3 DEF CutInv, SomebodyCut
  <2>2. ASSUME s \in clientSocks
        PROVE  \E t \in {"pm", "cm"} : disc[t].socket = s /\ disc[t].step = "clear"
    <3>1. PICK t \in Thread : disc[t].socket = s /\ disc[t].step = "clear"
      BY <1>3, <2>2 DEF IInv, Sound, DeadBitHasCloser, Closed
    <3>2. Busy(t)
      BY <1>3, <3>1, DiscFacts DEF IInv, TypeOK
    <3>3. t # "server"
      BY <1>3, <3>2 DEF CutInv
    <3> QED BY <3>1, <3>3 DEF Thread
  <2> QED BY <2>1, <2>2
<1>4. IInv /\ (Up => CutInv) => SelectFailureHasCause
  BY <1>3 DEF SelectFailureHasCause
<1> QED BY <1>1, <1>2, <1>4, Invariance, PTL DEF Spec

=============================================================================
