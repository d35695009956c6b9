------------------------------ MODULE Delivery ------------------------------
(***************************************************************************)
(* Whose bytes are whose: the way of a message from a client through the   *)
(* Server thread, PacketManager and CommandManager to the Sender and back, *)
(* at the grain of the system calls on descriptors.                        *)
(*                                                                         *)
(* Between these threads a client is known by the number of his descriptor *)
(* only, and the kernel hands a number out again as soon as it is closed.  *)
(* Here every packet, command and answer also carries, as a ghost, the     *)
(* connection it is really from or for.                                    *)
(*                                                                         *)
(* A behaviour is followed to its first race (Races names them); module    *)
(* TraxServer goes on after them, at the grain of handlers.  Here players  *)
(* are outside games, a handler answers its player and perhaps one more,   *)
(* and any unreadable packet may be the tenth.                             *)
(***************************************************************************)
EXTENDS Startup, Integers, SequencesExt

CONSTANTS
  MaxConnections,  \* bound: how many connections are accepted in a behaviour
  Sock,            \* the descriptors accept() can return
  Kind,            \* what clients send in this instance
  MaxInFlight      \* bound: messages under way when a client sends another

ASSUME DeliveryConnections == MaxConnections \in Nat \ {0}
ASSUME DeliverySock        == Sock \subseteq Nat \ {0}
ASSUME DeliveryKind        == Kind \subseteq {"request", "logout", "bad"}
ASSUME DeliveryInFlight    == MaxInFlight \in Nat

\* A connection and the Player object constructed for it have one number.
Conn     == 1..MaxConnections
NoConn   == 0
NoSock   == -1
Listener == 0     \* serverSocket: lower than the descriptor of any client
Thread   == {"server", "pm", "cm"}

VARIABLES
  conn,          \* the connection each descriptor is open for, NoConn if closed
  born,          \* how many connections were accepted
  gone,          \* the connections closed by the client
  inbox,         \* what the client sent and the server has not read
  clientSocks,   \* the descriptors select() is to watch
  readSocks,     \* what select() answered, less the descriptors already served
  at,            \* where the Server thread is
  clientSocket,  \* what accept() returned last
  readSize,      \* is the number FIONREAD last wrote positive?
  players,       \* the vector Server::players
  sock,          \* the socket of each Player object
  disc,          \* what each thread holds inside proceedPlayerDisconnection
  packetQueue,   \* PacketManager::packetQueue
  commandQueue,  \* CommandManager::commandQueue
  pQueue,        \* Sender::pQueue
  sent,          \* ghost: the connection the last step wrote to
  asked          \* ghost: the connections that sent a logout or garbage

kernel == <<conn, born, gone, inbox>>
queues == <<packetQueue, commandQueue, pQueue>>
vector == <<players, sock>>
select == <<clientSocks, readSocks, at, clientSocket, readSize>>
vars   == <<startupVars, kernel, queues, vector, select, disc, sent, asked>>

NoDisc  == [step |-> "none", socket |-> NoSock, player |-> NoConn, index |-> 0]
DiscRec == [step : {"close", "clear", "search", "erase"}, socket : Sock \cup {NoSock},
            player : Conn \cup {NoConn}, index : 0..MaxConnections]

\* reuse: accept() returns a number somebody takes for another client's.
\* overlap: two threads are disconnecting players at once.
\* nobody: a disconnection finds no player, and pl is left uninitialised.
Races == {"reuse", "overlap", "nobody"}

TypeOK ==
  /\ called \in 0..Len(MainCalls) /\ built \subseteq Singleton
  /\ down \in {"no", "bind", "start", "select", "player"} \cup Races
  /\ conn \in [Sock -> Conn \cup {NoConn}] /\ born \in 0..MaxConnections
  /\ gone \subseteq Conn /\ asked \subseteq Conn
  /\ inbox \in [Conn -> Kind \cup {"none"}]
  /\ clientSocks \subseteq Sock /\ readSocks \subseteq Sock \cup {Listener}
  /\ at \in {"copy", "call", "wait", "pass", "accepted", "sized"} /\ readSize \in BOOLEAN
  /\ clientSocket \in Sock \cup {NoSock}
  /\ players \in Seq(Conn) /\ sock \in [Conn -> Sock \cup {NoSock}]
  /\ disc \in [Thread -> DiscRec \cup {NoDisc}]
  /\ packetQueue \in Seq([socket : Sock, kind : Kind \cup {"zeros"}, from : Conn \cup {NoConn}])
  /\ commandQueue \in Seq([kind : Kind \cup {"zeros"}, player : Conn \cup {NoConn},
                            from : Conn \cup {NoConn}])
  /\ pQueue \in Seq([socket : Sock \cup {NoSock}, to : Conn \cup {NoConn}])
  /\ sent \in Conn \cup {NoConn}

Init ==
  /\ StartupInit
  /\ conn = [s \in Sock |-> NoConn] /\ born = 0 /\ gone = {}
  /\ inbox = [c \in Conn |-> "none"]
  /\ clientSocks = {} /\ readSocks = {} /\ at = "copy" /\ readSize \in BOOLEAN
  /\ clientSocket = NoSock
  /\ players = <<>> /\ sock = [p \in Conn |-> NoSock]
  /\ disc = [t \in Thread |-> NoDisc]
  /\ packetQueue = <<>> /\ commandQueue = <<>> /\ pQueue = <<>>
  /\ sent = NoConn /\ asked = {}

Up == down = "no"
Open(c) == \E s \in Sock : conn[s] = c
Ends(reason) == down' = reason /\ UNCHANGED <<called, built>>
GoesOn == UNCHANGED startupVars

IndexBySocket(s) == SelectInSeq(players, LAMBDA p : sock[p] = s /\ s # NoSock)
getPlayerBySocket(s) == IF IndexBySocket(s) = 0 THEN NoConn ELSE players[IndexBySocket(s)]

Starts ==
  /\ MainCall
  /\ UNCHANGED <<kernel, queues, vector, select, disc, sent, asked>>

-----------------------------------------------------------------------------
(* The clients.                                                            *)

InFlight == Len(packetQueue) + Len(commandQueue) + Len(pQueue)
            + Cardinality({c \in Conn : inbox[c] # "none"})

ClientSends(c, k) ==
  /\ Up /\ Open(c) /\ c \notin gone
  /\ inbox[c] = "none" /\ InFlight < MaxInFlight
  /\ inbox' = [inbox EXCEPT ![c] = k]
  /\ asked' = IF k = "request" THEN asked ELSE asked \cup {c}
  /\ sent' = NoConn
  /\ UNCHANGED <<startupVars, conn, born, gone, queues, vector, select, disc>>

\* What was sent before can still be read; the end of file comes after it.
ClientLeaves(c) ==
  /\ Up /\ Open(c) /\ c \notin gone
  /\ gone' = gone \cup {c}
  /\ sent' = NoConn
  /\ UNCHANGED <<startupVars, conn, born, inbox, queues, vector, select, disc, asked>>

-----------------------------------------------------------------------------
(* proceedPlayerDisconnection(s) on thread t, one system call or one pass  *)
(* over the vector at a time.                                              *)

Busy(t) == disc[t] # NoDisc

Begins(t, s) ==
  /\ disc' = [disc EXCEPT ![t] = [NoDisc EXCEPT !.step = "close", !.socket = s]]
  /\ IF \E u \in Thread : Busy(u) THEN Ends("overlap") ELSE GoesOn

InDisconnection(t, step) == Up /\ disc[t].step = step /\ sent' = NoConn

\* close(socket) drops what was not read; on a number that is not open it
\* does nothing.
Close(t) ==
  LET s == disc[t].socket
  IN  /\ InDisconnection(t, "close")
      /\ conn' = [r \in Sock |-> IF r = s THEN NoConn ELSE conn[r]]
      /\ inbox' = [c \in Conn |-> IF s # NoSock /\ c = conn[s] THEN "none" ELSE inbox[c]]
      /\ disc' = [disc EXCEPT ![t].step = "clear"]
      /\ UNCHANGED <<startupVars, born, gone, queues, vector, select, asked>>

\* FD_CLR.  A mutant: it is forgotten.
Cleared_Not(s) == clientSocks
Cleared(s) == clientSocks \ {s}

Clear(t) ==
  /\ InDisconnection(t, "clear")
  /\ clientSocks' = Cleared(disc[t].socket)
  /\ disc' = [disc EXCEPT ![t].step = "search"]
  /\ UNCHANGED <<startupVars, kernel, queues, vector, readSocks, at, clientSocket, readSize, asked>>

\* The search.  The index is used in the next step.
Search(t) ==
  LET i == IndexBySocket(disc[t].socket)
  IN  /\ InDisconnection(t, "search")
      /\ \/ /\ i # 0
            /\ disc' = [disc EXCEPT ![t].step = "erase", ![t].player = players[i], ![t].index = i]
            /\ GoesOn
         \/ i = 0 /\ Ends("nobody") /\ UNCHANGED disc
      /\ UNCHANGED <<kernel, queues, vector, select, asked>>

\* erase(begin() + i).  A mutant: it is always the newest that goes.
Erased_Newest(i) == Front(players)
Erased(i) == RemoveAt(players, i)

\* removeSocket() and the erasing.
Erase(t) ==
  /\ InDisconnection(t, "erase")
  /\ sock' = [sock EXCEPT ![disc[t].player] = NoSock]
  /\ players' = Erased(disc[t].index)
  /\ disc' = [disc EXCEPT ![t] = NoDisc]
  /\ UNCHANGED <<startupVars, kernel, queues, select, asked>>

Disconnects(t) == Close(t) \/ Clear(t) \/ Search(t) \/ Erase(t)

-----------------------------------------------------------------------------
(* Server::run.                                                            *)

ServerAt(place) == Up /\ Started("server") /\ ~Busy("server") /\ at = place

\* readSocks = clientSocks
CopySocks ==
  /\ ServerAt("copy")
  /\ readSocks' = clientSocks \cup {Listener}
  /\ at' = "call"
  /\ sent' = NoConn
  /\ UNCHANGED <<startupVars, kernel, queues, vector, clientSocks, clientSocket, readSize, disc, asked>>

Closed == {s \in readSocks \ {Listener} : conn[s] = NoConn}

\* select() fails with EBADF when it is called with a closed descriptor.
SelectCall ==
  /\ ServerAt("call")
  /\ \/ Closed = {} /\ at' = "wait" /\ GoesOn
     \/ Closed # {} /\ Ends("select") /\ UNCHANGED at
  /\ sent' = NoConn
  /\ UNCHANGED <<kernel, queues, vector, clientSocks, readSocks, clientSocket, readSize, disc, asked>>

\* The descriptors the loop will find set.  A mutant: FD_ISSET asks the set
\* that was passed to select, not its answer.
Answered_AsPassed(ready, l) == (readSocks \ {Listener}) \cup l
Answered(ready, l) == ready \cup l

\* It returns when a descriptor has data or its end of file, or somebody
\* connects.  Of one that was closed while it waited it may say anything.
SelectReturn ==
  /\ ServerAt("wait")
  /\ LET ready == {s \in readSocks \ ({Listener} \cup Closed) :
                       inbox[conn[s]] # "none" \/ conn[s] \in gone}
         waiting == born < MaxConnections /\ \E s \in Sock : conn[s] = NoConn
     IN  \E junk \in SUBSET Closed, l \in SUBSET {Listener} :
           /\ l # {} => waiting
           /\ ready \cup junk \cup l # {}
           /\ readSocks' = Answered(ready \cup junk, l)
  /\ at' = "pass"
  /\ sent' = NoConn
  /\ UNCHANGED <<startupVars, kernel, queues, vector, clientSocks, clientSocket, readSize, disc, asked>>

\* The loop over the descriptors, from the lowest: fd is the one served now.
fd == Min(readSocks)
Serves(s) == readSocks # {} /\ fd = s
Served == readSocks' = readSocks \ {fd} /\ at' = "pass"

PassEnds ==
  /\ ServerAt("pass") /\ readSocks = {}
  /\ at' = "copy"
  /\ sent' = NoConn
  /\ UNCHANGED <<startupVars, kernel, queues, vector, clientSocks, readSocks, clientSocket, readSize, disc, asked>>

\* The numbers by which a client is still served.  Those of pQueue are not
\* among them: an answer to somebody who is gone goes to whoever has his number.
InMind(s) ==
  \/ s \in readSocks
  \/ \E t \in Thread : Busy(t) /\ disc[t].socket = s
  \/ \E i \in DOMAIN packetQueue : packetQueue[i].socket = s

\* acceptNewConnection: the lowest number that is not open.  The failure of a
\* setsockopt(), which ends the process, is left out.
Accept ==
  /\ ServerAt("pass") /\ Serves(Listener)
  /\ \E s \in Sock :
       /\ conn[s] = NoConn /\ \A r \in Sock : conn[r] = NoConn => s <= r
       /\ conn' = [conn EXCEPT ![s] = born + 1]
       /\ clientSocket' = s
       /\ IF InMind(s) THEN Ends("reuse") ELSE GoesOn
  /\ born' = born + 1
  /\ at' = "accepted"
  /\ sent' = NoConn
  /\ UNCHANGED <<gone, inbox, queues, vector, clientSocks, readSocks, readSize, disc, asked>>

\* FD_SET and players->push_back of the new Player.
\* Mutants: the bit is not set; it is the bit of the listening socket.
Watched_Not(s) == clientSocks
Watched_Listener(s) == clientSocks \cup {Listener}
Watched(s) == clientSocks \cup {s}

Enlist ==
  /\ ServerAt("accepted")
  /\ clientSocks' = Watched(clientSocket)
  /\ sock' = [sock EXCEPT ![born] = clientSocket]
  /\ players' = Append(players, born)
  /\ Served
  /\ sent' = NoConn
  /\ UNCHANGED <<startupVars, kernel, queues, clientSocket, readSize, disc, asked>>

\* ioctl(fd, FIONREAD, &readSize): on a number that another thread has closed
\* it fails and leaves the answer to the ioctl before.
AskSize ==
  /\ ServerAt("pass") /\ readSocks # {} /\ ~Serves(Listener)
  /\ readSize' = IF conn[fd] = NoConn THEN readSize ELSE inbox[conn[fd]] # "none"
  /\ at' = "sized"
  /\ sent' = NoConn
  /\ UNCHANGED <<startupVars, kernel, queues, vector, clientSocks, readSocks, clientSocket, disc, asked>>

\* recv() and processData.  On a closed number recv() fails and the packet has
\* the zeros of memset, which read as an H_C_NACK.
Receive ==
  LET c == conn[fd]
  IN  /\ ServerAt("sized") /\ readSize
      /\ packetQueue' = Append(packetQueue,
           [socket |-> fd, from |-> c,
            kind |-> IF c = NoConn THEN "zeros" ELSE inbox[c]])
      /\ inbox' = IF c = NoConn THEN inbox ELSE [inbox EXCEPT ![c] = "none"]
      /\ Served
      /\ sent' = NoConn
      /\ UNCHANGED <<startupVars, conn, born, gone, commandQueue, pQueue, vector, clientSocks,
                     clientSocket, readSize, disc, asked>>

\* Nothing to read: "Client disconnected".
ClientDisconnected ==
  /\ ServerAt("sized") /\ ~readSize
  /\ Begins("server", fd)
  /\ Served
  /\ sent' = NoConn
  /\ UNCHANGED <<kernel, queues, vector, clientSocks, clientSocket, readSize, asked>>

ServerNext ==
  CopySocks \/ SelectCall \/ SelectReturn \/ PassEnds \/ Accept \/ Enlist \/ AskSize \/ Receive
  \/ ClientDisconnected \/ Disconnects("server")

-----------------------------------------------------------------------------
(* PacketManager::run, CommandManager::run and Sender::run.                *)

Takes(t, queue) == Up /\ Started(t) /\ queue # <<>>

PacketManagerTakes ==
  LET packet == Head(packetQueue)
      p == getPlayerBySocket(packet.socket)
  IN  /\ Takes("pm", packetQueue) /\ ~Busy("pm")
      /\ packetQueue' = Tail(packetQueue)
      /\ sent' = NoConn
      /\ \/ /\ packet.kind # "bad"
            /\ commandQueue' = Append(commandQueue, [kind |-> packet.kind, player |-> p,
                                                    from |-> packet.from])
            /\ GoesOn /\ UNCHANGED disc
         \/ /\ packet.kind = "bad" /\ UNCHANGED commandQueue
            /\ \/ GoesOn /\ UNCHANGED disc
               \/ p # NoConn /\ Begins("pm", packet.socket)
      /\ UNCHANGED <<kernel, pQueue, vector, select, asked>>

\* registerMessage: the descriptor is read now and used when the Sender
\* comes to it.  A mutant: the answer goes to the newest connection.
Answer_Newest(p, c) == [socket |-> sock[born], to |-> c]
Answer(p, c) == [socket |-> sock[p], to |-> c]

\* A handler answers the player; some also write to another listed player.
CommandManagerTakes ==
  LET command == Head(commandQueue)
      p == command.player
      answer == Answer(p, command.from)
  IN  /\ Takes("cm", commandQueue) /\ ~Busy("cm")
      /\ commandQueue' = Tail(commandQueue)
      /\ sent' = NoConn
      /\ \/ command.kind = "zeros" /\ GoesOn /\ UNCHANGED <<pQueue, disc>>
         \/ command.kind # "zeros" /\ p = NoConn /\ Ends("player") /\ UNCHANGED <<pQueue, disc>>
         \/ /\ command.kind = "request" /\ p # NoConn
            /\ \/ pQueue' = Append(pQueue, answer)
               \/ \E q \in ToSet(players) \ {p} : pQueue' = pQueue \o <<answer, Answer(q, q)>>
            /\ GoesOn /\ UNCHANGED disc
         \/ /\ command.kind = "logout" /\ p # NoConn
            /\ Begins("cm", sock[p])
            /\ UNCHANGED pQueue
      /\ UNCHANGED <<kernel, packetQueue, vector, select, asked>>

\* send() to a number that is not open fails, which nobody looks at.
Send ==
  LET packet == Head(pQueue)
  IN  /\ Takes("sender", pQueue)
      /\ pQueue' = Tail(pQueue)
      /\ sent' = IF packet.socket = NoSock THEN NoConn ELSE conn[packet.socket]
      /\ UNCHANGED <<startupVars, kernel, packetQueue, commandQueue, vector, select, disc, asked>>

PacketManagerNext  == PacketManagerTakes \/ Disconnects("pm")
CommandManagerNext == CommandManagerTakes \/ Disconnects("cm")

Next ==
  \/ Starts
  \/ \E c \in Conn : ClientLeaves(c) \/ \E k \in Kind : ClientSends(c, k)
  \/ ServerNext \/ PacketManagerNext \/ CommandManagerNext \/ Send

Spec == Init /\ [][Next]_vars

\* main and the threads go on.  The clients are free to do nothing.
Fairness ==
  /\ WF_vars(Starts) /\ WF_vars(ServerNext) /\ WF_vars(PacketManagerNext)
  /\ WF_vars(CommandManagerNext) /\ WF_vars(Send)

FairSpec == Spec /\ Fairness

-----------------------------------------------------------------------------
(* What is right as long as no race has happened and the process runs.     *)

BeingClosed(s) == \E t \in Thread : disc[t].socket = s

\* A queued packet is from the client its descriptor is still open for, and
\* PacketManager will find that client's player: the packet is not taken for
\* one of the client who had the number before or has it next.
PacketFindsSender ==
  Up => \A packet \in ToSet(packetQueue) :
    LET c == conn[packet.socket]
    IN  /\ c \in {NoConn, packet.from}
        /\ c # NoConn /\ ~BeingClosed(packet.socket) => getPlayerBySocket(packet.socket) = c

\* What is queued for a client has his descriptor as long as he is there: the
\* answer to a request goes to the client who made it, although his packet was
\* matched with a player, the player with a descriptor, and the answer with the
\* wire, each by a number and each at another time.  The answer to a client who
\* is gone may go to the next owner of his number.
AnswerReachesAddressee ==
  Up => \A answer \in ToSet(pQueue) :
    Open(answer.to) => answer.socket # NoSock /\ conn[answer.socket] = answer.to

\* "Client disconnected" is concluded of nobody else: a client is cut off
\* only when he left, logged out, or sent garbage.
DroppedIsGone == Up => \A c \in 1..born : Open(c) \/ c \in gone \cup asked

\* An open connection is watched by select() and its player is listed, but
\* for the moments of its beginning and of its end.
EveryoneIsWatched ==
  Up => \A s \in Sock : conn[s] # NoConn =>
    \/ s \in clientSocks /\ getPlayerBySocket(s) = conn[s]
    \/ at = "accepted" /\ clientSocket = s
    \/ BeingClosed(s)

\* A closed descriptor is passed to select(), which then fails and ends the
\* process, only after PacketManager or CommandManager cut somebody off who
\* logged out or sent garbage: between their close() and FD_CLR, or when the set
\* was copied before.  That clients leave does not do it, however many.
SelectFailureHasCause ==
  Up /\ at = "call" => \A s \in Closed :
    /\ \E c \in asked : ~Open(c)
    /\ s \in clientSocks => \E t \in {"pm", "cm"} : disc[t].socket = s /\ disc[t].step = "clear"

\* No thread polls a queue that is not constructed, and none can be handed a
\* message for such a queue: the Server thread is where messages come from.
QueueIsThere ==
  /\ \A t \in Singleton : Started(t) => t \in built
  /\ Started("server") => built = Singleton

\* A request is read, attributed, handled and answered on the wire, unless
\* the client leaves or is cut off for something else he sent.
RequestIsAnswered ==
  \A c \in Conn :
    inbox[c] = "request" ~> sent = c \/ c \in gone \cup asked \/ ~Up

\* The end of file of a client who left is noticed and his descriptor closed.
GoneIsClosed == \A c \in Conn : c \in gone ~> ~Open(c) \/ ~Up
=============================================================================
