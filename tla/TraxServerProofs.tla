-------------------------- MODULE TraxServerProofs --------------------------
(***************************************************************************)
(* Theorems about TraxServer, for any number of connections, names,        *)
(* descriptors and queued messages.                                        *)
(***************************************************************************)
EXTENDS TraxServer, SequenceLemmas

-----------------------------------------------------------------------------
(* The lookups.                                                            *)

\* getPlayerByName and deletePlayer find a first player with the name, or none.
LEMMA FirstByName ==
  ASSUME NEW S, NEW objs, NEW vec \in Seq(S), NEW n
  PROVE  LET i == IndexByName(objs, vec, n)
         IN  /\ i \in 0..Len(vec)
             /\ i # 0 => objs[vec[i]].name = n
             /\ i = 0 => \A j \in 1..Len(vec) : objs[vec[j]].name # n
<1> DEFINE I == {j \in 1..Len(vec) : objs[vec[j]].name = n}
<1>1. IndexByName(objs, vec, n) = IF I # {} THEN Min(I) ELSE 0
  BY Zenon DEF IndexByName, SelectInSeq
<1>2. Len(vec) \in Nat /\ I \in SUBSET (1..Len(vec))
  BY LenProperties
<1>3. I # {} => Min(I) \in I
  <2> HIDE DEF I
  <2> QED BY <1>2, MinOfIndices
<1>4. CASE I = {}
  BY <1>1, <1>2, <1>4
<1>5. CASE I # {}
  BY <1>1, <1>2, <1>3, <1>5
<1> QED BY <1>4, <1>5

\* getPlayerBySocket finds a listed player who holds the descriptor, or none.
LEMMA FirstBySocket ==
  ASSUME NEW S, players \in Seq(S), NEW s
  PROVE  /\ IndexBySocket(s) \in 0..Len(players)
         /\ IndexBySocket(s) # 0 => player[players[IndexBySocket(s)]].socket = s
         /\ IndexBySocket(s) = 0 /\ s # NoSock =>
              \A j \in 1..Len(players) : player[players[j]].socket # s
<1> DEFINE I == {j \in 1..Len(players) : player[players[j]].socket = s /\ s # NoSock}
<1>1. IndexBySocket(s) = IF I # {} THEN Min(I) ELSE 0
  BY Zenon DEF IndexBySocket, SelectInSeq
<1>2. Len(players) \in Nat /\ I \in SUBSET (1..Len(players))
  BY LenProperties
<1>3. I # {} => Min(I) \in I
  <2> HIDE DEF I
  <2> QED BY <1>2, MinOfIndices
<1>4. CASE I = {}
  BY <1>1, <1>2, <1>4
<1>5. CASE I # {}
  BY <1>1, <1>2, <1>3, <1>5
<1> QED BY <1>4, <1>5

\* getGameByPlayer finds a last game with the name of the player, or none.
LEMMA LastGame ==
  ASSUME NEW S, games \in Seq(S), NEW objs, NEW p
  PROVE  LET i == GameIndex(objs, p)
         IN  /\ i \in 0..Len(games)
             /\ i # 0 => objs[p].name \in {objs[games[i].p1].name, objs[games[i].p2].name}
             /\ i = 0 => \A j \in 1..Len(games) :
                          objs[p].name \notin {objs[games[j].p1].name, objs[games[j].p2].name}
<1> DEFINE I == {j \in 1..Len(games) :
                   objs[p].name \in {objs[games[j].p1].name, objs[games[j].p2].name}}
<1>1. GameIndex(objs, p) = IF I # {} THEN Max(I) ELSE 0
  BY Zenon DEF GameIndex, SelectLastInSeq
<1>2. Len(games) \in Nat /\ I \in SUBSET (1..Len(games))
  BY LenProperties
<1>3. I # {} => Max(I) \in I
  <2> HIDE DEF I
  <2> QED BY <1>2, MaxOfIndices
<1>4. CASE I = {}
  <2>1. GameIndex(objs, p) = 0
    BY <1>1, <1>4
  <2>2. \A j \in 1..Len(games) :
          objs[p].name \notin {objs[games[j].p1].name, objs[games[j].p2].name}
    BY <1>4, Zenon
  <2> HIDE DEF I
  <2>3. 0 \in 0..Len(games)
    BY <1>2
  <2> QED BY <2>1, <2>2, <2>3, Zenon
<1>5. CASE I # {}
  <2>1. GameIndex(objs, p) \in I
    BY <1>1, <1>3, <1>5
  <2>2. GameIndex(objs, p) \in 1..Len(games)
    BY <1>2, <2>1
  <2>3. objs[p].name \in {objs[games[GameIndex(objs, p)].p1].name,
                         objs[games[GameIndex(objs, p)].p2].name}
    BY <2>1
  <2> HIDE DEF I
  <2> QED BY <1>2, <2>2, <2>3
<1> QED BY <1>4, <1>5

\* getPlayerByName answers with a player or nullptr.
LEMMA ByNameType ==
  ASSUME TypeOK, NEW n
  PROVE  getPlayerByName(n) \in Conn \cup {NoConn}
<1>1. players \in Seq(1..born) /\ born \in 0..MaxConnections
  BY DEF TypeOK
<1>2. IndexByName(player, players, n) \in 0..Len(players)
  BY <1>1, FirstByName
<1>3. \A i \in 1..Len(players) : players[i] \in Conn
  BY <1>1, ElementOfSeq, ConnectionsAssumption DEF Conn
<1> QED BY <1>1, <1>2, <1>3, LenProperties DEF getPlayerByName, At, NoConn

\* getPlayerBySocket answers with a player or nullptr.
LEMMA BySocketType ==
  ASSUME TypeOK, NEW s
  PROVE  getPlayerBySocket(s) \in Conn \cup {NoConn}
<1>1. players \in Seq(1..born) /\ born \in 0..MaxConnections
  BY DEF TypeOK
<1>2. IndexBySocket(s) \in 0..Len(players)
  BY <1>1, FirstBySocket
<1>3. \A i \in 1..Len(players) : players[i] \in Conn
  BY <1>1, ElementOfSeq, ConnectionsAssumption DEF Conn
<1> QED BY <1>1, <1>2, <1>3, LenProperties DEF getPlayerBySocket, At, NoConn

\* What WithoutPlayer returns is a shorter list of the same objects.
LEMMA WithoutPlayerType ==
  ASSUME NEW S, NEW objs, NEW vec \in Seq(S), NEW p
  PROVE  /\ WithoutPlayer(objs, vec, p) \in Seq(S)
         /\ Len(WithoutPlayer(objs, vec, p)) <= Len(vec)
<1> DEFINE i == IndexByName(objs, vec, objs[p].name)
           k == IF i = 0 THEN Len(vec) ELSE i
<1>1. Len(vec) \in Nat /\ i \in 0..Len(vec)
  BY FirstByName, LenProperties
<1>2. CASE vec = <<>>
  BY <1>1, <1>2 DEF WithoutPlayer
<1>3. CASE vec # <<>>
  <2>1. Len(vec) # 0
    BY <1>3, EmptySeq
  <2>2. WithoutPlayer(objs, vec, p) = RemoveAt(vec, k)
    BY <1>3, Zenon DEF WithoutPlayer
  <2>3. k \in 1..Len(vec)
    BY <1>1, <2>1
  <2> HIDE DEF k
  <2>4. RemoveAt(vec, k) \in Seq(S) /\ Len(RemoveAt(vec, k)) = Len(vec) - 1
    BY <2>3, RemoveAtProperties
  <2> QED BY <1>1, <2>2, <2>4
<1> QED BY <1>2, <1>3

-----------------------------------------------------------------------------
(* Types.                                                                  *)

\* TypeOK is inductive together with two bounds: the vector holds no more
\* entries than objects were constructed, and so its indices fit in disc; and
\* a thread only disconnects an object that was constructed.
TypeInv ==
  /\ TypeOK
  /\ Len(players) <= born
  /\ \A t \in Thread : disc[t].player <= born

\* The server starts with well-typed, empty state.
LEMMA TypeInit == Init => TypeInv
<1> SUFFICES ASSUME Init PROVE TypeInv
  OBVIOUS
<1>1. player \in [Conn -> PlayerRec]
  <2>1. NewPlayer(NoSock) \in PlayerRec
    BY BoundsAssumption DEF NewPlayer, PlayerRec
  <2> QED BY <2>1 DEF Init
<1>2. disc \in [Thread -> DiscRec \cup {NoDisc}]
  BY DEF Init
<1>3. born = 0 /\ born \in 0..MaxConnections
  BY ConnectionsAssumption DEF Init
<1>4. players \in Seq(1..born) /\ Len(players) <= born
  BY <1>3, EmptySeq DEF Init
<1>5. /\ games \in Seq(GameRec) /\ packetQueue \in Seq(PacketRec)
      /\ commandQueue \in Seq(MessRec \cup LostRec) /\ out \in Seq(OutRec)
  BY EmptySeq DEF Init
<1>6. TypeOK
  BY <1>1, <1>2, <1>3, <1>4, <1>5 DEF Init, TypeOK
<1>7. \A t \in Thread : disc[t].player <= born
  BY <1>3 DEF Init, NoDisc, NoConn
<1> QED BY <1>4, <1>6, <1>7 DEF TypeInv

\* A new connection is numbered within Conn and listed once more.
LEMMA AcceptType ==
  ASSUME TypeInv, Accept
  PROVE  TypeInv'
<1> USE DEF Accept, TypeInv, TypeOK
<1>1. born' = born + 1 /\ born' \in 0..MaxConnections /\ born + 1 \in Conn
  BY ConnectionsAssumption DEF Conn
<1>2. PICK s \in Sock : /\ clientSocks' = clientSocks \cup {s}
                        /\ player' = [player EXCEPT ![born + 1] = NewPlayer(s)]
  BY DEF Accept
<1>3. player' \in [Conn -> PlayerRec]
  <2>1. NewPlayer(s) \in PlayerRec
    BY BoundsAssumption DEF NewPlayer, PlayerRec
  <2> QED BY <1>2, <2>1
<1>4. players' \in Seq(1..born') /\ Len(players') = Len(players) + 1
  <2>1. players \in Seq(1..(born + 1)) /\ born + 1 \in 1..(born + 1)
    <3>1. 1..born \subseteq 1..(born + 1)
      OBVIOUS
    <3> QED BY <3>1, SeqMonotonic
  <2> QED BY <2>1, <1>1, AppendProperties
<1>5. Len(players') <= born'
  BY <1>1, <1>4, LenProperties
<1>6. out' \in Seq(OutRec)
  BY EmptySeq
<1>7. \A t \in Thread : disc'[t].player <= born'
  BY <1>1 DEF DiscRec, NoDisc, NoConn, Conn
<1> QED BY <1>1, <1>2, <1>3, <1>4, <1>5, <1>6, <1>7

\* A packet received is well typed.
LEMMA ReceiveType ==
  ASSUME TypeInv, Receive
  PROVE  TypeInv'
<1> USE DEF Receive, TypeInv, TypeOK
<1>1. packetQueue' \in Seq(PacketRec)
  <2>1. PICK s \in clientSocks, h \in Headers, a \in Name \cup {NoName} :
          packetQueue' = Append(packetQueue, [socket |-> s, header |-> h, arg |-> a])
    BY DEF Args
  <2>2. [socket |-> s, header |-> h, arg |-> a] \in PacketRec
    BY DEF PacketRec
  <2> QED BY <2>1, <2>2, AppendProperties
<1>2. out' \in Seq(OutRec)
  BY EmptySeq
<1> QED BY <1>1, <1>2

\* The first step of a disconnection, wherever it is taken.
LEMMA BeginType ==
  ASSUME TypeInv, NEW t \in Thread, NEW s, DisconnectBegin(t, s), UNCHANGED born
  PROVE  /\ clientSocks' \subseteq Sock
         /\ disc' \in [Thread -> DiscRec \cup {NoDisc}]
         /\ crashed' \in {"no", "player", "pl", "vector", "asking", "game"}
         /\ \A u \in Thread : disc'[u].player <= born'
<1> USE DEF TypeInv, TypeOK
<1>1. clientSocks' \subseteq Sock
  BY DEF DisconnectBegin, Cleared
<1>2. IndexBySocket(s) \in 0..Len(players) /\ Len(players) \in 0..MaxConnections
  <2>1. players \in Seq(1..born) /\ born \in 0..MaxConnections /\ Len(players) <= born
    OBVIOUS
  <2>2. IndexBySocket(s) \in 0..Len(players)
    BY <2>1, FirstBySocket
  <2>3. Len(players) \in Nat
    BY <2>1, LenProperties
  <2>4. Len(players) \in 0..MaxConnections
    <3> HIDE DEF TypeInv, TypeOK
    <3> QED BY <2>1, <2>3, ConnectionsAssumption
  <2> QED BY <2>2, <2>4
<1>3. ASSUME NEW p \in 1..born, NEW k \in 0..Len(players),
             disc' = [disc EXCEPT ![t] =
                       [player |-> p, index |-> k, inGame |-> player[p].inGame]]
      PROVE  /\ disc' \in [Thread -> DiscRec \cup {NoDisc}]
             /\ \A u \in Thread : disc'[u].player <= born'
  <2>1. p \in Conn /\ k \in 0..MaxConnections
    BY <1>2, ConnectionsAssumption DEF Conn
  <2>2. player[p].inGame \in BOOLEAN
    BY <2>1 DEF PlayerRec
  <2>3. [player |-> p, index |-> k, inGame |-> player[p].inGame] \in DiscRec
    BY <2>1, <2>2 DEF DiscRec
  <2> QED BY <1>3, <2>3
<1>4. \/ UNCHANGED disc
      \/ \E p \in 1..born, k \in 0..Len(players) :
           disc' = [disc EXCEPT ![t] =
                     [player |-> p, index |-> k, inGame |-> player[p].inGame]]
  <2>1. CASE IndexBySocket(s) # 0
    <3>1. players[IndexBySocket(s)] \in 1..born
      BY <2>1, <1>2, ElementOfSeq
    <3> QED BY <2>1, <3>1, <1>2 DEF DisconnectBegin
  <2>2. CASE IndexBySocket(s) = 0
    <3>1. Len(players) \in 0..Len(players)
      BY <1>2
    <3> QED BY <2>2, <3>1 DEF DisconnectBegin
  <2> QED BY <2>1, <2>2
<1>5. crashed' \in {"no", "player", "pl", "vector", "asking", "game"}
  BY DEF DisconnectBegin
<1>6. CASE UNCHANGED disc
  BY <1>1, <1>5, <1>6
<1> QED BY <1>1, <1>3, <1>4, <1>5, <1>6

\* The Server thread begins a disconnection on well-typed state.
LEMMA ClientGoneType ==
  ASSUME TypeInv, ClientGone
  PROVE  TypeInv'
<1>1. PICK s \in clientSocks : DisconnectBegin("server", s)
  BY DEF ClientGone
<1>2. "server" \in Thread /\ UNCHANGED born
  BY DEF ClientGone, Thread
<1>3. /\ clientSocks' \subseteq Sock
      /\ disc' \in [Thread -> DiscRec \cup {NoDisc}]
      /\ crashed' \in {"no", "player", "pl", "vector", "asking", "game"}
      /\ \A u \in Thread : disc'[u].player <= born'
  BY <1>1, <1>2, BeginType
<1>4. out' \in Seq(OutRec)
  BY EmptySeq DEF ClientGone
<1> QED BY <1>3, <1>4 DEF ClientGone, TypeInv, TypeOK

\* erase() leaves a vector of players, whatever the index it is given.
LEMMA EraseAtType ==
  ASSUME TypeInv, NEW i \in Nat, EraseAt(i)
  PROVE  /\ players' \in Seq(1..born)
         /\ Len(players') <= born
         /\ crashed' \in {"no", "player", "pl", "vector", "asking", "game"}
<1>1. players \in Seq(1..born) /\ Len(players) <= born /\ Len(players) \in Nat /\ born \in Nat
      /\ crashed \in {"no", "player", "pl", "vector", "asking", "game"}
  BY LenProperties DEF TypeInv, TypeOK
<1>2. CASE i \in DOMAIN players /\ players' = Erased(i) /\ UNCHANGED crashed
  <2>1. i \in 1..Len(players)
    BY <1>1, <1>2, LenProperties
  <2>2. RemoveAt(players, i) \in Seq(1..born) /\ Len(RemoveAt(players, i)) = Len(players) - 1
    BY <1>1, <2>1, RemoveAtProperties
  <2> QED BY <1>1, <1>2, <2>2 DEF Erased
<1>3. CASE players # <<>> /\ players' = Front(players) /\ UNCHANGED crashed
  <2>1. Front(players) \in Seq(1..born) /\ Len(Front(players)) = Len(players) - 1
    BY <1>1, <1>3, FrontProperties
  <2> QED BY <1>1, <1>3, <2>1
<1>4. CASE crashed' = "vector" /\ UNCHANGED players
  BY <1>1, <1>4
<1> QED BY <1>2, <1>3, <1>4 DEF EraseAt

\* A thread ends the disconnection it holds on well-typed state.
LEMMA DisconnectEndType ==
  ASSUME TypeInv, NEW t \in Thread, DisconnectEnd(t)
  PROVE  TypeInv'
<1> DEFINE d == disc[t]
<1>1. d \in DiscRec /\ d.player \in Conn /\ d.index \in Nat /\ d.inGame \in BOOLEAN
  BY ConnectionsAssumption DEF TypeInv, TypeOK, DisconnectEnd, DiscRec
<1>2. player' \in [Conn -> PlayerRec]
  <2>1. player \in [Conn -> PlayerRec] /\ player' = Unplugged(d)
    BY DEF TypeInv, TypeOK, DisconnectEnd
  <2> HIDE DEF d
  <2> QED BY <1>1, <2>1 DEF Unplugged, PlayerRec
<1>3. disc' \in [Thread -> DiscRec \cup {NoDisc}] /\ \A u \in Thread : disc'[u].player <= born'
  <2>1. 0 <= born
    BY ConnectionsAssumption DEF TypeInv, TypeOK
  <2> QED BY <2>1 DEF TypeInv, TypeOK, DisconnectEnd, NoDisc, NoConn
<1>4. /\ players' \in Seq(1..born')
      /\ Len(players') <= born'
      /\ crashed' \in {"no", "player", "pl", "vector", "asking", "game"}
  <2>1. CASE EraseAt(d.index)
    BY <2>1, <1>1, EraseAtType DEF DisconnectEnd
  <2>2. CASE UNCHANGED <<players, crashed>>
    BY <2>2 DEF TypeInv, TypeOK, DisconnectEnd
  <2> QED BY <2>1, <2>2 DEF DisconnectEnd
<1>5. commandQueue' \in Seq(MessRec \cup LostRec)
  <2>1. CASE commandQueue' = Noticed(d)
    <3>1. [header |-> "PL_LOST", arg |-> NoName, player |-> d.player] \in MessRec \cup LostRec
      BY <1>1 DEF LostRec
    <3>2. commandQueue \in Seq(MessRec \cup LostRec)
      BY DEF TypeInv, TypeOK
    <3> QED BY <2>1, <3>1, <3>2, AppendProperties DEF Noticed
  <2>2. CASE UNCHANGED commandQueue
    BY <2>2 DEF TypeInv, TypeOK
  <2> QED BY <2>1, <2>2 DEF DisconnectEnd
<1>6. out' \in Seq(OutRec)
  BY EmptySeq DEF DisconnectEnd
<1> QED BY <1>2, <1>3, <1>4, <1>5, <1>6 DEF DisconnectEnd, TypeInv, TypeOK

-----------------------------------------------------------------------------

\* The packet that is popped, and those that stay, are well typed.
LEMMA PacketType ==
  ASSUME TypeInv, PmReady
  PROVE  /\ Head(packetQueue) \in PacketRec
         /\ Tail(packetQueue) \in Seq(PacketRec)
BY HeadTailProperties DEF TypeInv, TypeOK, PmReady

\* The message made from a packet is well typed, nullptr included.
LEMMA LookUpType ==
  ASSUME TypeInv, LookUp
  PROVE  TypeInv'
<1>1. Head(packetQueue) \in PacketRec /\ packetQueue' \in Seq(PacketRec)
  BY PacketType DEF LookUp
<1>2. getPlayerBySocket(Head(packetQueue).socket) \in Conn \cup {NoConn}
  BY BySocketType DEF TypeInv
<1>3. pmMess' \in MessRec
  BY <1>1, <1>2 DEF LookUp, PacketRec, MessRec
<1>4. out' \in Seq(OutRec)
  BY EmptySeq DEF LookUp
<1> QED BY <1>1, <1>3, <1>4 DEF LookUp, TypeInv, TypeOK

\* The command queue takes the message PacketManager holds.
LEMMA RegisterType ==
  ASSUME TypeInv, Register
  PROVE  TypeInv'
<1>1. pmMess \in MessRec \cup LostRec /\ commandQueue \in Seq(MessRec \cup LostRec)
  BY DEF Register, TypeInv, TypeOK
<1>2. commandQueue' \in Seq(MessRec \cup LostRec)
  BY <1>1, AppendProperties DEF Register
<1>3. out' \in Seq(OutRec)
  BY EmptySeq DEF Register
<1> QED BY <1>2, <1>3 DEF Register, TypeInv, TypeOK

\* The count of unreadable messages stays within BullshitLimit.
LEMMA UnreadableType ==
  ASSUME TypeInv, Unreadable
  PROVE  TypeInv'
<1> DEFINE s == Head(packetQueue).socket
           p == getPlayerBySocket(s)
           n == IF p # NoConn /\ player[p].bullshitMessages < BullshitLimit
                THEN player[p].bullshitMessages + 1 ELSE BullshitLimit
<1>1. packetQueue' \in Seq(PacketRec)
  BY PacketType DEF Unreadable
<1>2. p \in Conn \cup {NoConn}
  BY BySocketType DEF TypeInv
<1>3. player' \in [Conn -> PlayerRec]
  <2>1. CASE p = NoConn
    BY <2>1, Zenon DEF Unreadable, TypeInv, TypeOK
  <2>2. CASE p # NoConn
    <3>1. player' = [player EXCEPT ![p].bullshitMessages = n]
      BY <2>2, Zenon DEF Unreadable
    <3>2. player \in [Conn -> PlayerRec] /\ p \in Conn
      BY <1>2, <2>2 DEF TypeInv, TypeOK
    <3>3. n \in 0..BullshitLimit
      <4> HIDE DEF p
      <4> QED BY <3>2, BoundsAssumption DEF PlayerRec
    <3> HIDE DEF p, n
    <3> QED BY <3>1, <3>2, <3>3 DEF PlayerRec
  <2> QED BY <2>1, <2>2
<1>4. out' \in Seq(OutRec) /\ UNCHANGED <<born, players, games, pmMess, commandQueue>>
  BY EmptySeq DEF Unreadable
<1>5. CASE DisconnectBegin("pm", s)
  <2>1. "pm" \in Thread
    BY DEF Thread
  <2>2. /\ clientSocks' \subseteq Sock
        /\ disc' \in [Thread -> DiscRec \cup {NoDisc}]
        /\ crashed' \in {"no", "player", "pl", "vector", "asking", "game"}
        /\ \A u \in Thread : disc'[u].player <= born'
    BY <1>4, <1>5, <2>1, BeginType
  <2> QED BY <1>1, <1>3, <1>4, <2>2 DEF TypeInv, TypeOK
<1>6. CASE UNCHANGED <<clientSocks, disc, crashed>>
  BY <1>1, <1>3, <1>4, <1>6 DEF TypeInv, TypeOK
<1> QED BY <1>5, <1>6, Zenon DEF Unreadable

-----------------------------------------------------------------------------
(* What the handlers assign to the objects.                                *)

\* The fields these invariants speak of are the same.
Keeps(new, old) ==
  \A r \in Conn : /\ new[r].name = old[r].name
                  /\ new[r].socket = old[r].socket
                  /\ new[r].lost = old[r].lost
                  /\ new[r].bullshitMessages = old[r].bullshitMessages

\* The objects of Q have b in the field inGame; names, descriptors, marks and
\* counters are as they were.
Sets(new, old, Q, b) ==
  /\ new \in [Conn -> PlayerRec]
  /\ Keeps(new, old)
  /\ \A r \in Conn : new[r].inGame = IF r \in Q THEN b ELSE old[r].inGame

\* Assigning to a field of an object, one at a time.
LEMMA FieldType ==
  ASSUME NEW objs \in [Conn -> PlayerRec], NEW p \in Conn
  PROVE  /\ \A n \in Name \cup {NoName} : [objs EXCEPT ![p].name = n] \in [Conn -> PlayerRec]
         /\ \A b \in BOOLEAN :
              /\ [objs EXCEPT ![p].inGame = b] \in [Conn -> PlayerRec]
              /\ [objs EXCEPT ![p].availible = b] \in [Conn -> PlayerRec]
              /\ [objs EXCEPT ![p].lost = b] \in [Conn -> PlayerRec]
         /\ \A q \in Conn \cup {NoConn} :
              /\ [objs EXCEPT ![p].joiningPlayer = q] \in [Conn -> PlayerRec]
              /\ [objs EXCEPT ![p].askedForJoiningBy = q] \in [Conn -> PlayerRec]
<1>1. \A n \in Name \cup {NoName} : [objs EXCEPT ![p].name = n] \in [Conn -> PlayerRec]
  BY DEF PlayerRec
<1>2. \A b \in BOOLEAN : [objs EXCEPT ![p].inGame = b] \in [Conn -> PlayerRec]
  BY DEF PlayerRec
<1>3. \A b \in BOOLEAN : [objs EXCEPT ![p].availible = b] \in [Conn -> PlayerRec]
  BY DEF PlayerRec
<1>4. \A b \in BOOLEAN : [objs EXCEPT ![p].lost = b] \in [Conn -> PlayerRec]
  BY DEF PlayerRec
<1>5. \A q \in Conn \cup {NoConn} : [objs EXCEPT ![p].joiningPlayer = q] \in [Conn -> PlayerRec]
  BY DEF PlayerRec
<1>6. \A q \in Conn \cup {NoConn} : [objs EXCEPT ![p].askedForJoiningBy = q] \in [Conn -> PlayerRec]
  BY DEF PlayerRec
<1> QED BY <1>1, <1>2, <1>3, <1>4, <1>5, <1>6

\* Keeps is reflexive.
LEMMA KeepsItself ==
  ASSUME NEW objs
  PROVE  Keeps(objs, objs)
BY DEF Keeps

\* Keeps is transitive: a handler may set several fields.
LEMMA KeepsTransitive ==
  ASSUME NEW x, NEW y, NEW z, Keeps(x, y), Keeps(y, z)
  PROVE  Keeps(x, z)
BY DEF Keeps

\* The fields the protocol sets on an object are none of those Keeps is about.
LEMMA FieldKept ==
  ASSUME NEW objs \in [Conn -> PlayerRec], NEW p, NEW v
  PROVE  /\ Keeps([objs EXCEPT ![p].inGame = v], objs)
         /\ Keeps([objs EXCEPT ![p].availible = v], objs)
         /\ Keeps([objs EXCEPT ![p].joiningPlayer = v], objs)
         /\ Keeps([objs EXCEPT ![p].askedForJoiningBy = v], objs)
<1>1. Keeps([objs EXCEPT ![p].inGame = v], objs)
  BY DEF Keeps, PlayerRec
<1>2. Keeps([objs EXCEPT ![p].availible = v], objs)
  BY DEF Keeps, PlayerRec
<1>3. Keeps([objs EXCEPT ![p].joiningPlayer = v], objs)
  BY DEF Keeps, PlayerRec
<1>4. Keeps([objs EXCEPT ![p].askedForJoiningBy = v], objs)
  BY DEF Keeps, PlayerRec
<1> QED BY <1>1, <1>2, <1>3, <1>4

\* No assignment.
LEMMA SetsNone ==
  ASSUME NEW objs \in [Conn -> PlayerRec], NEW b
  PROVE  Sets(objs, objs, {}, b)
BY DEF Sets, Keeps

\* Assignments to fields of an object, one at a time.
LEMMA FieldSets ==
  ASSUME NEW objs \in [Conn -> PlayerRec], NEW p \in Conn, NEW b \in BOOLEAN
  PROVE  /\ \A v \in BOOLEAN : Sets([objs EXCEPT ![p].availible = v], objs, {}, b)
         /\ \A q \in Conn \cup {NoConn} :
              /\ Sets([objs EXCEPT ![p].joiningPlayer = q], objs, {}, b)
              /\ Sets([objs EXCEPT ![p].askedForJoiningBy = q], objs, {}, b)
         /\ Sets([objs EXCEPT ![p].inGame = b], objs, {p}, b)
<1>1. ASSUME NEW v \in BOOLEAN
      PROVE  Sets([objs EXCEPT ![p].availible = v], objs, {}, b)
  <2> DEFINE a == [objs EXCEPT ![p].availible = v]
  <2>1. a \in [Conn -> PlayerRec] /\ Keeps(a, objs)
    BY FieldType, FieldKept
  <2>2. \A r \in Conn : a[r].inGame = objs[r].inGame
    BY DEF PlayerRec
  <2> HIDE DEF a
  <2>3. Sets(a, objs, {}, b)
    BY <2>1, <2>2 DEF Sets
  <2> QED BY <2>3 DEF a
<1>2. ASSUME NEW q \in Conn \cup {NoConn}
      PROVE  Sets([objs EXCEPT ![p].joiningPlayer = q], objs, {}, b)
  <2> DEFINE a == [objs EXCEPT ![p].joiningPlayer = q]
  <2>1. a \in [Conn -> PlayerRec] /\ Keeps(a, objs)
    BY FieldType, FieldKept
  <2>2. \A r \in Conn : a[r].inGame = objs[r].inGame
    BY DEF PlayerRec
  <2> HIDE DEF a
  <2>3. Sets(a, objs, {}, b)
    BY <2>1, <2>2 DEF Sets
  <2> QED BY <2>3 DEF a
<1>3. ASSUME NEW q \in Conn \cup {NoConn}
      PROVE  Sets([objs EXCEPT ![p].askedForJoiningBy = q], objs, {}, b)
  <2> DEFINE a == [objs EXCEPT ![p].askedForJoiningBy = q]
  <2>1. a \in [Conn -> PlayerRec] /\ Keeps(a, objs)
    BY FieldType, FieldKept
  <2>2. \A r \in Conn : a[r].inGame = objs[r].inGame
    BY DEF PlayerRec
  <2> HIDE DEF a
  <2>3. Sets(a, objs, {}, b)
    BY <2>1, <2>2 DEF Sets
  <2> QED BY <2>3 DEF a
<1>4. Sets([objs EXCEPT ![p].inGame = b], objs, {p}, b)
  <2> DEFINE a == [objs EXCEPT ![p].inGame = b]
  <2>1. a \in [Conn -> PlayerRec] /\ Keeps(a, objs)
    BY FieldType, FieldKept
  <2>2. \A r \in Conn : a[r].inGame = IF r \in {p} THEN b ELSE objs[r].inGame
    BY DEF PlayerRec
  <2> HIDE DEF a
  <2>3. Sets(a, objs, {p}, b)
    BY <2>1, <2>2 DEF Sets
  <2> QED BY <2>3 DEF a
<1> QED BY <1>1, <1>2, <1>3, <1>4

\* One assignment after another.
LEMMA SetsThen ==
  ASSUME NEW x, NEW y, NEW z, NEW Q, NEW R, NEW b, Sets(x, y, Q, b), Sets(y, z, R, b)
  PROVE  Sets(x, z, Q \cup R, b)
BY DEF Sets, Keeps

\* Nothing is added to Q by a protocol field.
LEMMA SetsAlso ==
  ASSUME NEW x, NEW y, NEW z, NEW R, NEW b, Sets(x, y, {}, b), Sets(y, z, R, b)
  PROVE  Sets(x, z, R, b)
BY DEF Sets, Keeps

\* Nor when it was assigned before.
LEMMA SetsBefore ==
  ASSUME NEW x, NEW y, NEW z, NEW R, NEW b, Sets(x, y, R, b), Sets(y, z, {}, b)
  PROVE  Sets(x, z, R, b)
BY DEF Sets, Keeps

\* The objects stay well typed.
LEMMA SetsType ==
  ASSUME NEW x, NEW y, NEW Q, NEW b, Sets(x, y, Q, b)
  PROVE  x \in [Conn -> PlayerRec]
BY DEF Sets

\* Two objects enter a game, or leave it.
LEMMA InGameSets ==
  ASSUME NEW objs \in [Conn -> PlayerRec], NEW p \in Conn, NEW q \in Conn, NEW b \in BOOLEAN
  PROVE  Sets([objs EXCEPT ![p].inGame = b, ![q].inGame = b], objs, {p, q}, b)
<1> DEFINE a == [objs EXCEPT ![p].inGame = b]
           c == [a EXCEPT ![q].inGame = b]
<1>1. Sets(a, objs, {p}, b)
  BY FieldSets
<1> HIDE DEF a
<1>2. a \in [Conn -> PlayerRec]
  BY <1>1 DEF Sets
<1>3. Sets(c, a, {q}, b)
  BY <1>2, FieldSets
<1> HIDE DEF c
<1>4. Sets(c, objs, {q} \cup {p}, b)
  BY <1>1, <1>3, SetsThen
<1>5. {q} \cup {p} = {p, q}
  OBVIOUS
<1> QED BY <1>4, <1>5, Zenon DEF a, c

\* The player who asked is a constructed object or nullptr.
LEMMA AskingType ==
  ASSUME TypeInv, NEW p \in Conn
  PROVE  /\ player \in [Conn -> PlayerRec]
         /\ player[p].askedForJoiningBy \in Conn \cup {NoConn}
BY DEF TypeInv, TypeOK, PlayerRec

\* The game a handler found and the two in it.
LEMMA GameType ==
  ASSUME TypeInv, NEW objs, NEW p, GameIndex(objs, p) # 0
  PROVE  LET i == GameIndex(objs, p)
         IN  /\ i \in 1..Len(games)
             /\ games[i] \in GameRec
             /\ OponentIn(objs, games[i], p) \in Conn
             /\ RemoveAt(games, i) \in Seq(GameRec)
<1> DEFINE i == GameIndex(objs, p)
<1>1. games \in Seq(GameRec)
  BY DEF TypeInv, TypeOK
<1>2. i \in 1..Len(games)
  <2>1. i \in 0..Len(games) /\ Len(games) \in Nat
    BY <1>1, LastGame, LenProperties
  <2> HIDE DEF i
  <2>2. i # 0
    BY DEF i
  <2> QED BY <2>1, <2>2
<1> HIDE DEF i
<1>3. games[i] \in GameRec
  BY <1>1, <1>2, ElementOfSeq
<1>4. OponentIn(objs, games[i], p) \in Conn
  BY <1>3 DEF OponentIn, GameRec
<1>5. RemoveAt(games, i) \in Seq(GameRec)
  BY <1>1, <1>2, RemoveAtProperties
<1> QED BY <1>2, <1>3, <1>4, <1>5 DEF i

\* A request to join sets protocol fields only.
LEMMA JoiningSets ==
  ASSUME TypeInv, NEW p \in Conn, Joining(p)
  PROVE  Sets(player', player, {}, FALSE)
<1> DEFINE q == getPlayerByName(Command.arg)
           a == [player EXCEPT ![p].availible = FALSE]
           b == [a EXCEPT ![p].joiningPlayer = q]
           c == [b EXCEPT ![q].askedForJoiningBy = p]
           d == [c EXCEPT ![q].availible = FALSE]
<1>1. player \in [Conn -> PlayerRec] /\ q \in Conn \cup {NoConn}
  BY ByNameType DEF TypeInv, TypeOK
<1>2. CASE UNCHANGED player
  BY <1>1, <1>2, SetsNone
<1>3. CASE q # NoConn /\ player' = d
  <2>1. q \in Conn
    BY <1>1, <1>3
  <2> HIDE DEF q
  <2>2. Sets(a, player, {}, FALSE) /\ a \in [Conn -> PlayerRec]
    BY <1>1, FieldSets, SetsType
  <2> HIDE DEF a
  <2>3. Sets(b, a, {}, FALSE) /\ b \in [Conn -> PlayerRec]
    BY <2>1, <2>2, FieldSets, SetsType
  <2> HIDE DEF b
  <2>4. Sets(c, b, {}, FALSE) /\ c \in [Conn -> PlayerRec]
    BY <2>1, <2>3, FieldSets, SetsType
  <2> HIDE DEF c
  <2>5. Sets(d, c, {}, FALSE)
    BY <2>1, <2>4, FieldSets
  <2> HIDE DEF d
  <2> QED BY <1>3, <2>2, <2>3, <2>4, <2>5, SetsAlso
<1> QED BY <1>2, <1>3, Zenon DEF Joining

\* An accepted request puts both players in a game, which joins the vector, or
\* finds that the asking player is gone.
LEMMA AcceptJoinSets ==
  ASSUME TypeInv, NEW p \in Conn, AcceptJoin(p)
  PROVE  LET asking == player[p].askedForJoiningBy
         IN  /\ asking \in Conn
             /\ \/ Sets(player', player, {}, TRUE) /\ UNCHANGED games
                \/ /\ Sets(player', player, {asking, p}, TRUE)
                   /\ games' = Append(games, [p1 |-> asking, p2 |-> p, playerOnTurn |-> asking])
<1> DEFINE asking == player[p].askedForJoiningBy
           a == [player EXCEPT ![p].askedForJoiningBy = NoConn]
           b == [a EXCEPT ![p].joiningPlayer = NoConn]
           c == [b EXCEPT ![asking].availible = FALSE]
           answered == [c EXCEPT ![p].availible = FALSE]
           e == [answered EXCEPT ![asking].inGame = TRUE, ![p].inGame = TRUE]
           g == Append(games, [p1 |-> asking, p2 |-> p, playerOnTurn |-> asking])
           k == answered[asking].joiningPlayer
<1>1. player \in [Conn -> PlayerRec] /\ asking \in Conn
  BY AskingType DEF AcceptJoin
<1>2. \/ k # NoConn /\ player' = e /\ games' = g
      \/ k = NoConn /\ player' = answered /\ games' = games
  BY ZenonT(60) DEF AcceptJoin
<1> HIDE DEF asking, g, k
<1>3. Sets(a, player, {}, TRUE) /\ a \in [Conn -> PlayerRec]
  BY <1>1, FieldSets, SetsType
<1> HIDE DEF a
<1>4. Sets(b, a, {}, TRUE) /\ b \in [Conn -> PlayerRec]
  BY <1>3, FieldSets, SetsType
<1> HIDE DEF b
<1>5. Sets(c, b, {}, TRUE) /\ c \in [Conn -> PlayerRec]
  BY <1>1, <1>4, FieldSets, SetsType
<1> HIDE DEF c
<1>6. Sets(answered, c, {}, TRUE) /\ answered \in [Conn -> PlayerRec]
  BY <1>5, FieldSets, SetsType
<1> HIDE DEF answered
<1>7. Sets(e, answered, {asking, p}, TRUE)
  BY <1>1, <1>6, InGameSets
<1> HIDE DEF e
<1>8. Sets(answered, player, {}, TRUE)
  BY <1>3, <1>4, <1>5, <1>6, SetsAlso
<1>9. Sets(e, player, {asking, p}, TRUE)
  BY <1>7, <1>8, SetsBefore
<1> QED BY <1>1, <1>2, <1>8, <1>9 DEF asking, g

\* A declined request sets protocol fields only.
LEMMA DeclineJoinSets ==
  ASSUME TypeInv, NEW p \in Conn, DeclineJoin(p)
  PROVE  player[p].askedForJoiningBy \in Conn /\ Sets(player', player, {}, FALSE)
<1> DEFINE asking == player[p].askedForJoiningBy
           a == [player EXCEPT ![p].askedForJoiningBy = NoConn]
           b == [a EXCEPT ![p].joiningPlayer = NoConn]
           c == [b EXCEPT ![asking].availible = TRUE]
           d == [c EXCEPT ![p].availible = TRUE]
<1>1. player \in [Conn -> PlayerRec] /\ asking \in Conn
  BY AskingType DEF DeclineJoin
<1>2. player' = d
  BY Zenon DEF DeclineJoin
<1> HIDE DEF asking
<1>3. Sets(a, player, {}, FALSE) /\ a \in [Conn -> PlayerRec]
  BY <1>1, FieldSets, SetsType
<1> HIDE DEF a
<1>4. Sets(b, a, {}, FALSE) /\ b \in [Conn -> PlayerRec]
  BY <1>3, FieldSets, SetsType
<1> HIDE DEF b
<1>5. Sets(c, b, {}, FALSE) /\ c \in [Conn -> PlayerRec]
  BY <1>1, <1>4, FieldSets, SetsType
<1> HIDE DEF c
<1>6. Sets(d, c, {}, FALSE)
  BY <1>5, FieldSets
<1> HIDE DEF d
<1>7. Sets(player', player, {}, FALSE)
  BY <1>2, <1>3, <1>4, <1>5, <1>6, SetsAlso
<1> QED BY <1>1, <1>7 DEF asking

\* The end of a game takes both players out of it.
LEMMA FreedSets ==
  ASSUME NEW p \in Conn, NEW q \in Conn, player \in [Conn -> PlayerRec]
  PROVE  Sets(Freed(p, q), player, {p, q}, FALSE)
<1> DEFINE a == [player EXCEPT ![p].inGame = FALSE, ![q].inGame = FALSE]
           b == [a EXCEPT ![p].availible = TRUE]
           c == [b EXCEPT ![q].availible = TRUE]
<1>1. Freed(p, q) = c
  BY DEF Freed
<1>2. Sets(a, player, {p, q}, FALSE) /\ a \in [Conn -> PlayerRec]
  BY InGameSets, SetsType
<1> HIDE DEF a
<1>3. Sets(b, a, {}, FALSE) /\ b \in [Conn -> PlayerRec]
  BY <1>2, FieldSets, SetsType
<1> HIDE DEF b
<1>4. Sets(c, b, {}, FALSE)
  BY <1>3, FieldSets
<1> HIDE DEF c
<1>5. Sets(c, player, {p, q}, FALSE)
  BY <1>2, <1>3, <1>4, SetsAlso
<1> QED BY <1>1, <1>5, Zenon

\* A player who leaves a game takes the opponent out of it, who is told, or is
\* lost and erased.
LEMMA GameEndingSets ==
  ASSUME TypeInv, NEW p \in Conn, GameEnding(p)
  PROVE  LET q == OponentIn(player, games[GameIndex(player, p)], p)
         IN  /\ q \in Conn
             /\ \/ /\ player[q].lost
                   /\ Sets(player', player, {p}, FALSE)
                   /\ players' = WithoutPlayer(player, players, q)
                \/ /\ Sets(player', player, {p, q}, FALSE)
                   /\ out' = EndNotice(p, q)
                   /\ UNCHANGED <<players, crashed>>
<1> DEFINE q == OponentIn(player, games[GameIndex(player, p)], p)
           a == [player EXCEPT ![p].inGame = FALSE]
           b == [a EXCEPT ![p].availible = TRUE]
<1>1. player \in [Conn -> PlayerRec] /\ q \in Conn
  BY GameType DEF GameEnding, TypeInv, TypeOK
<1>2. \/ player[q].lost /\ player' = b /\ players' = WithoutPlayer(player, players, q)
      \/ player' = Freed(p, q) /\ out' = EndNotice(p, q) /\ UNCHANGED <<players, crashed>>
  BY Zenon DEF GameEnding, Sends
<1> HIDE DEF q
<1>3. Sets(a, player, {p}, FALSE) /\ a \in [Conn -> PlayerRec]
  BY <1>1, FieldSets, SetsType
<1> HIDE DEF a
<1>4. Sets(b, a, {}, FALSE)
  BY <1>3, FieldSets
<1> HIDE DEF b
<1>5. Sets(b, player, {p}, FALSE)
  BY <1>3, <1>4, SetsAlso
<1>6. Sets(Freed(p, q), player, {p, q}, FALSE)
  BY <1>1, FreedSets
<1> QED BY <1>1, <1>2, <1>5, <1>6, Zenon DEF q

\* A loss marks the player; when his opponent is lost as well the game ends.
LEMMA PlayerLostSets ==
  ASSUME TypeInv, NEW p \in Conn, PlayerLost(p)
  PROVE  LET i == GameIndex(player, p)
             q == OponentIn(player, games[i], p)
             marked == [player EXCEPT ![p].lost = TRUE]
         IN  /\ q \in Conn
             /\ marked \in [Conn -> PlayerRec]
             /\ marked[p].lost
             /\ \A r \in Conn : /\ marked[r].name = player[r].name
                                /\ marked[r].socket = player[r].socket
                                /\ marked[r].lost = player[r].lost \/ r = p
                                /\ marked[r].bullshitMessages = player[r].bullshitMessages
                                /\ marked[r].inGame = player[r].inGame
             /\ \/ Sets(player', marked, {}, FALSE) /\ UNCHANGED <<players, games>>
                \/ /\ marked[q].lost
                   /\ Sets(player', marked, {p, q}, FALSE)
                   /\ games' = RemoveAt(games, i)
                   /\ players' = WithoutPlayer(player, WithoutPlayer(player, players, q), p)
<1> DEFINE i == GameIndex(player, p)
           q == OponentIn(player, games[i], p)
           marked == [player EXCEPT ![p].lost = TRUE]
           a == [marked EXCEPT ![p].inGame = FALSE, ![q].inGame = FALSE]
           w == WithoutPlayer(player, WithoutPlayer(player, players, q), p)
<1>1. player \in [Conn -> PlayerRec] /\ q \in Conn
  BY GameType DEF PlayerLost, TypeInv, TypeOK
<1>2. marked \in [Conn -> PlayerRec]
  BY <1>1, FieldType
<1>3. \A r \in Conn : /\ marked[r].name = player[r].name
                      /\ marked[r].socket = player[r].socket
                      /\ marked[r].lost = player[r].lost \/ r = p
                      /\ marked[r].bullshitMessages = player[r].bullshitMessages
                      /\ marked[r].inGame = player[r].inGame
  BY <1>1 DEF PlayerRec
<1>4. marked[p].lost
  BY <1>1 DEF PlayerRec
<1>5. \/ player' = marked /\ UNCHANGED <<players, games>>
      \/ marked[q].lost /\ player' = a /\ games' = RemoveAt(games, i) /\ players' = w
  BY Zenon DEF PlayerLost
<1> HIDE DEF q, marked, i, w
<1>6. Sets(a, marked, {p, q}, FALSE)
  BY <1>1, <1>2, InGameSets
<1>7. Sets(marked, marked, {}, FALSE)
  BY <1>2, SetsNone
<1> HIDE DEF a
<1> QED BY <1>1, <1>2, <1>3, <1>4, <1>5, <1>6, <1>7, Zenon DEF q, marked, i, w

\* What a reconnection makes of the object of the new connection.
LEMMA RenamedIs ==
  ASSUME TypeInv, NEW p \in Conn, Command.arg \in Name \cup {NoName}
  PROVE  LET n == Command.arg
             renamed == [player EXCEPT ![p].name = Command.arg,
                                       ![p].availible = FALSE,
                                       ![p].inGame = TRUE]
         IN  /\ renamed \in [Conn -> PlayerRec]
             /\ \A r \in Conn :
                  /\ renamed[r].name = IF r = p THEN n ELSE player[r].name
                  /\ renamed[r].socket = player[r].socket
                  /\ renamed[r].lost = player[r].lost
                  /\ renamed[r].bullshitMessages = player[r].bullshitMessages
                  /\ renamed[r].inGame = IF r = p THEN TRUE ELSE player[r].inGame
<1> DEFINE n == Command.arg
           a == [player EXCEPT ![p].name = n]
           b == [a EXCEPT ![p].availible = FALSE]
           renamed == [b EXCEPT ![p].inGame = TRUE]
<1>1. player \in [Conn -> PlayerRec]
  BY DEF TypeInv, TypeOK
<1>2. a \in [Conn -> PlayerRec]
  BY <1>1, FieldType
<1> HIDE DEF n
<1>3. \A r \in Conn :
        /\ a[r].name = IF r = p THEN n ELSE player[r].name
        /\ a[r].socket = player[r].socket
        /\ a[r].lost = player[r].lost
        /\ a[r].bullshitMessages = player[r].bullshitMessages
        /\ a[r].inGame = player[r].inGame
  BY <1>1 DEF PlayerRec
<1> HIDE DEF a
<1>4. Sets(b, a, {}, TRUE) /\ b \in [Conn -> PlayerRec]
  BY <1>2, FieldSets, SetsType
<1> HIDE DEF b
<1>5. Sets(renamed, b, {p}, TRUE)
  BY <1>4, FieldSets
<1> HIDE DEF renamed
<1>6. Sets(renamed, a, {p}, TRUE)
  BY <1>4, <1>5, SetsBefore
<1>7. /\ renamed \in [Conn -> PlayerRec]
      /\ \A r \in Conn :
           /\ renamed[r].name = IF r = p THEN n ELSE player[r].name
           /\ renamed[r].socket = player[r].socket
           /\ renamed[r].lost = player[r].lost
           /\ renamed[r].bullshitMessages = player[r].bullshitMessages
           /\ renamed[r].inGame = IF r = p THEN TRUE ELSE player[r].inGame
  BY <1>3, <1>6, ZenonT(30) DEF Sets, Keeps
<1> QED BY <1>7, Zenon DEF renamed, b, a, n

-----------------------------------------------------------------------------

\* A handler takes a well-typed command off the queue.
LEMMA HandlesType ==
  ASSUME TypeInv, NEW h, Handles(h)
  PROVE  /\ Command \in MessRec \cup LostRec
         /\ Command.player \in Conn \cup {NoConn}
         /\ Command.arg \in Name \cup {NoName}
         /\ commandQueue' \in Seq(MessRec \cup LostRec)
         /\ UNCHANGED <<born, packetQueue, pmMess>>
<1>1. Command \in MessRec \cup LostRec /\ commandQueue' \in Seq(MessRec \cup LostRec)
  BY HeadTailProperties DEF TypeInv, TypeOK, Handles, Command
<1> QED BY <1>1 DEF MessRec, LostRec, Handles

\* A handler that sends one message sends a sequence of messages.
LEMMA OneMessage ==
  ASSUME NEW m \in OutRec
  PROVE  <<m>> \in Seq(OutRec)
OBVIOUS

\* So does a handler that sends two.
LEMMA TwoMessages ==
  ASSUME NEW m \in OutRec, NEW n \in OutRec
  PROVE  <<m, n>> \in Seq(OutRec)
OBVIOUS

\* What is left to show of a handler that only changes the objects, the games
\* and the batch of messages.
LEMMA HandlerType ==
  ASSUME TypeInv, NEW h, Handles(h),
         player' \in [Conn -> PlayerRec],
         games' \in Seq(GameRec),
         out' \in Seq(OutRec),
         players' \in Seq(1..born), Len(players') <= born,
         crashed' \in {"no", "player", "pl", "vector", "asking", "game"},
         UNCHANGED <<clientSocks, disc>>
  PROVE  TypeInv'
<1>1. /\ commandQueue' \in Seq(MessRec \cup LostRec)
      /\ UNCHANGED <<born, packetQueue, pmMess>>
  BY HandlesType
<1> QED BY <1>1 DEF TypeInv, TypeOK

\* The actions for a bad access keep the type invariant.
LEMMA CrashesType ==
  ASSUME TypeInv, NEW h, Handles(h),
         NEW r \in {"player", "asking", "game"}, Crashes(r)
  PROVE  TypeInv'
<1>1. /\ UNCHANGED <<player, players, games, clientSocks, disc>>
      /\ crashed' \in {"no", "player", "pl", "vector", "asking", "game"}
      /\ out' \in Seq(OutRec)
  BY EmptySeq DEF Crashes, Sends
<1> QED BY <1>1, HandlerType DEF TypeInv, TypeOK

\* The handler of NEW_PL keeps the type invariant.
LEMMA NewPlayerConnectionType ==
  ASSUME TypeInv, NEW p \in Conn, NewPlayerConnection(p)
  PROVE  TypeInv'
<1>1. Handles("NEW_PL") /\ UNCHANGED <<players, games, clientSocks, disc, crashed>>
  BY DEF NewPlayerConnection, HandlesFor
<1>2. Command.arg \in Name \cup {NoName}
  BY <1>1, HandlesType
<1>3. player' \in [Conn -> PlayerRec]
  <2> DEFINE a == [player EXCEPT ![p].name = Command.arg]
  <2>1. player \in [Conn -> PlayerRec]
    BY DEF TypeInv, TypeOK
  <2>2. UNCHANGED player \/ player' = [a EXCEPT ![p].availible = TRUE]
    BY DEF NewPlayerConnection
  <2>3. a \in [Conn -> PlayerRec]
    BY <1>2, <2>1, FieldType
  <2> HIDE DEF a
  <2>4. [a EXCEPT ![p].availible = TRUE] \in [Conn -> PlayerRec]
    BY <2>3, FieldType
  <2> QED BY <2>1, <2>2, <2>4, Zenon
<1>4. out' \in Seq(OutRec)
  <2>1. Msg(p, "ACK", {}) \in OutRec /\ Msg(p, "NACK_REAS", {}) \in OutRec
    BY DEF Msg, OutRec
  <2> QED BY <2>1, OneMessage DEF NewPlayerConnection, Sends, Refusal
<1> QED BY <1>1, <1>3, <1>4, HandlerType DEF TypeInv, TypeOK

\* The handler of PL_LIST_REQ keeps the type invariant.
LEMMA ListRequestType ==
  ASSUME TypeInv, NEW p \in Conn, ListRequest(p)
  PROVE  TypeInv'
<1>1. /\ Handles("PL_LIST_REQ")
      /\ UNCHANGED <<player, players, games, clientSocks, disc, crashed>>
  BY DEF ListRequest, HandlesFor
<1>2. ToSet(players) \subseteq Conn
  BY ElementOfSeq, LenProperties, ConnectionsAssumption DEF ToSet, TypeInv, TypeOK, Conn
<1>3. ASSUME NEW names \in Listed(p)
      PROVE  Msg(p, "PL_LIST_ANS", names) \in OutRec
  <2>1. names \subseteq Conn
    BY <1>2 DEF Listed
  <2> QED BY <2>1 DEF Msg, OutRec
<1>4. out' \in Seq(OutRec)
  BY <1>3, OneMessage DEF ListRequest, Sends
<1> QED BY <1>1, <1>4, HandlerType DEF TypeInv, TypeOK

\* The handler of JOIN_PLAYER keeps the type invariant.
LEMMA JoiningType ==
  ASSUME TypeInv, NEW p \in Conn, Joining(p)
  PROVE  TypeInv'
<1> DEFINE q == getPlayerByName(Command.arg)
<1>1. Handles("JOIN_PLAYER") /\ UNCHANGED <<players, games, clientSocks, disc, crashed>>
  BY DEF Joining, HandlesFor
<1>2. q \in Conn \cup {NoConn}
  BY ByNameType DEF TypeInv
<1>3. CASE /\ q # NoConn
           /\ player' = [player EXCEPT ![p].availible = FALSE,
                                       ![p].joiningPlayer = q,
                                       ![q].askedForJoiningBy = p,
                                       ![q].availible = FALSE]
           /\ Sends(<<Msg(p, "ACK", {}), Msg(q, "JOIN_PLAYER", {p})>>)
  <2>1. player \in [Conn -> PlayerRec] /\ q \in Conn
    BY <1>2, <1>3 DEF TypeInv, TypeOK
  <2> HIDE DEF q
  <2>2. player' \in [Conn -> PlayerRec]
    BY JoiningSets DEF Sets
  <2>3. Msg(p, "ACK", {}) \in OutRec /\ Msg(q, "JOIN_PLAYER", {p}) \in OutRec
    BY <2>1 DEF Msg, OutRec
  <2>4. out' \in Seq(OutRec)
    BY <2>3, <1>3, TwoMessages DEF Sends
  <2> QED BY <1>1, <2>2, <2>4, HandlerType DEF TypeInv, TypeOK
<1>4. CASE Sends(<<Msg(p, "NACK", {})>>) /\ UNCHANGED player
  <2>1. Msg(p, "NACK", {}) \in OutRec
    BY DEF Msg, OutRec
  <2>2. out' \in Seq(OutRec)
    BY <2>1, <1>4, OneMessage DEF Sends
  <2> QED BY <1>1, <1>4, <2>2, HandlerType DEF TypeInv, TypeOK
<1> QED BY <1>3, <1>4, Zenon DEF Joining

\* The handler of ACCEPT_JOIN keeps the type invariant.
LEMMA AcceptJoinType ==
  ASSUME TypeInv, NEW p \in Conn, AcceptJoin(p)
  PROVE  TypeInv'
<1> DEFINE asking == player[p].askedForJoiningBy
<1>1. Handles("ACCEPT_JOIN") /\ UNCHANGED <<players, clientSocks, disc, crashed>>
  BY DEF AcceptJoin, HandlesFor
<1>2. asking \in Conn /\ player \in [Conn -> PlayerRec]
  BY AskingType DEF AcceptJoin
<1>3. player' \in [Conn -> PlayerRec]
  BY AcceptJoinSets DEF Sets
<1>4. games' \in Seq(GameRec)
  <2>1. [p1 |-> asking, p2 |-> p, playerOnTurn |-> asking] \in GameRec
    BY <1>2 DEF GameRec
  <2>2. games \in Seq(GameRec)
    BY DEF TypeInv, TypeOK
  <2>3. \/ UNCHANGED games
        \/ games' = Append(games, [p1 |-> asking, p2 |-> p, playerOnTurn |-> asking])
    BY Zenon DEF AcceptJoin
  <2> HIDE DEF asking
  <2> QED BY <2>1, <2>2, <2>3, AppendProperties
<1>5. out' \in Seq(OutRec)
  <2>1. /\ Msg(asking, "GAME_START", {p}) \in OutRec
        /\ Msg(p, "GAME_START", {asking}) \in OutRec
        /\ Msg(p, "GONE", {asking}) \in OutRec
    BY <1>2 DEF Msg, OutRec
  <2>2. \/ out' = <<Msg(asking, "GAME_START", {p}), Msg(p, "GAME_START", {asking})>>
        \/ out' = <<Msg(p, "GONE", {asking})>>
        \/ out' = <<>>
    BY Zenon DEF AcceptJoin, Sends
  <2> HIDE DEF asking
  <2> QED BY <2>1, <2>2, OneMessage, TwoMessages, EmptySeq
<1> QED BY <1>1, <1>3, <1>4, <1>5, HandlerType DEF TypeInv, TypeOK

\* The handler of DECLIN_JOIN keeps the type invariant.
LEMMA DeclineJoinType ==
  ASSUME TypeInv, NEW p \in Conn, DeclineJoin(p)
  PROVE  TypeInv'
<1> DEFINE asking == player[p].askedForJoiningBy
<1>1. Handles("DECLIN_JOIN") /\ UNCHANGED <<players, games, clientSocks, disc, crashed>>
  BY DEF DeclineJoin, HandlesFor
<1>2. asking \in Conn /\ player \in [Conn -> PlayerRec]
  BY AskingType DEF DeclineJoin
<1>3. player' \in [Conn -> PlayerRec]
  BY DeclineJoinSets DEF Sets
<1>4. out' \in Seq(OutRec)
  <2>1. Msg(asking, "NACK_REAS", {p}) \in OutRec
    BY <1>2 DEF Msg, OutRec
  <2>2. out' = <<Msg(asking, "NACK_REAS", {p})>> \/ out' = <<>>
    BY DEF DeclineJoin, Sends
  <2> HIDE DEF asking
  <2> QED BY <2>1, <2>2, OneMessage, EmptySeq
<1> QED BY <1>1, <1>3, <1>4, HandlerType DEF TypeInv, TypeOK

-----------------------------------------------------------------------------

\* The handler of GAME_MOVE keeps the type invariant.
LEMMA GameMoveType ==
  ASSUME TypeInv, NEW p \in Conn, GameMove(p)
  PROVE  TypeInv'
<1> DEFINE i == GameIndex(player, p)
           q == OponentIn(player, games[i], p)
<1>1. Handles("GAME_MOVE") /\ UNCHANGED <<players, clientSocks, disc, crashed>> /\ i # 0
  BY DEF GameMove, HandlesFor
<1>2. /\ i \in 1..Len(games) /\ games[i] \in GameRec
      /\ q \in Conn /\ RemoveAt(games, i) \in Seq(GameRec)
  BY <1>1, GameType
<1>3. player \in [Conn -> PlayerRec] /\ games \in Seq(GameRec)
  BY DEF TypeInv, TypeOK
<1>4. CASE /\ player' = Freed(p, q) /\ games' = RemoveAt(games, i)
           /\ out' = <<Msg(p, "GAME_WON", {p}), Msg(q, "GAME_WON", {p})>>
  <2> HIDE DEF q, i
  <2>1. Msg(p, "GAME_WON", {p}) \in OutRec /\ Msg(q, "GAME_WON", {p}) \in OutRec
    BY <1>2 DEF Msg, OutRec
  <2>2. out' \in Seq(OutRec)
    BY <2>1, <1>4, TwoMessages
  <2>3. player' \in [Conn -> PlayerRec] /\ games' \in Seq(GameRec)
    BY <1>2, <1>3, <1>4, FreedSets DEF Sets
  <2> QED BY <1>1, <2>2, <2>3, HandlerType DEF TypeInv, TypeOK
<1>5. CASE /\ games' = [games EXCEPT ![i].playerOnTurn = q]
           /\ out' = <<Msg(q, "GAME_MOVE", {})>> /\ UNCHANGED player
  <2> DEFINE g == [games[i] EXCEPT !.playerOnTurn = q]
  <2>1. g \in GameRec /\ games' = [games EXCEPT ![i] = g]
    <3> HIDE DEF q, i
    <3> QED BY <1>2, <1>5 DEF GameRec
  <2> HIDE DEF q, i, g
  <2>2. Msg(q, "GAME_MOVE", {}) \in OutRec
    BY <1>2 DEF Msg, OutRec
  <2>3. out' \in Seq(OutRec)
    BY <2>2, <1>5, OneMessage
  <2>4. games' \in Seq(GameRec)
    BY <1>2, <1>3, <2>1, ExceptSeq
  <2> QED BY <1>1, <1>5, <2>3, <2>4, HandlerType DEF TypeInv, TypeOK
<1> QED BY <1>4, <1>5, Zenon DEF GameMove, Sends

\* The handler of PL_LOGOUT in a game keeps the type invariant.
LEMMA GameEndingType ==
  ASSUME TypeInv, NEW p \in Conn, GameEnding(p)
  PROVE  TypeInv'
<1> DEFINE i == GameIndex(player, p)
           q == OponentIn(player, games[i], p)
<1>1. Handles("PL_LOGOUT") /\ UNCHANGED <<clientSocks, disc>> /\ i # 0
  BY DEF GameEnding, HandlesFor
<1>2. q \in Conn /\ games' \in Seq(GameRec)
  BY <1>1, GameType DEF GameEnding
<1>3. /\ player \in [Conn -> PlayerRec] /\ players \in Seq(1..born)
      /\ Len(players) <= born /\ Len(players) \in Nat /\ born \in Nat
  BY LenProperties DEF TypeInv, TypeOK
<1>4. CASE /\ player' = [player EXCEPT ![p].inGame = FALSE, ![p].availible = TRUE]
           /\ players' = WithoutPlayer(player, players, q)
           /\ crashed' = IF players = <<>> THEN "vector" ELSE "no"
           /\ out' = <<>>
  <2> HIDE DEF q, i
  <2>3. player' \in [Conn -> PlayerRec]
    BY GameEndingSets DEF Sets
  <2>4. WithoutPlayer(player, players, q) \in Seq(1..born)
        /\ Len(WithoutPlayer(player, players, q)) <= Len(players)
    BY <1>3, WithoutPlayerType
  <2>5. players' \in Seq(1..born) /\ Len(players') <= born
    BY <1>3, <1>4, <2>4, LenProperties
  <2>6. out' \in Seq(OutRec) /\ crashed' \in {"no", "player", "pl", "vector", "asking", "game"}
    BY <1>4, EmptySeq
  <2> QED BY <1>1, <1>2, <2>3, <2>5, <2>6, HandlerType
<1>5. CASE player' = Freed(p, q) /\ out' = EndNotice(p, q) /\ UNCHANGED <<players, crashed>>
  <2> HIDE DEF q, i
  <2>1. Msg(q, "GAME_ENDED", {}) \in OutRec
    BY <1>2 DEF Msg, OutRec
  <2>2. out' \in Seq(OutRec)
    BY <2>1, <1>5, OneMessage DEF EndNotice
  <2>3. player' \in [Conn -> PlayerRec]
    BY GameEndingSets DEF Sets
  <2> QED BY <1>1, <1>2, <1>5, <2>2, <2>3, HandlerType DEF TypeInv, TypeOK
<1> QED BY <1>4, <1>5, Zenon DEF GameEnding, Sends

\* The handler of PL_LOGOUT outside a game keeps the type invariant.
LEMMA LogoutType ==
  ASSUME TypeInv, NEW p \in Conn, Logout(p)
  PROVE  TypeInv'
<1>1. /\ Handles("PL_LOGOUT") /\ DisconnectBegin("cm", player[p].socket)
      /\ out' = <<>> /\ UNCHANGED <<player, players, games>>
  BY DEF Logout, HandlesFor, Sends
<1>2. /\ commandQueue' \in Seq(MessRec \cup LostRec)
      /\ UNCHANGED <<born, packetQueue, pmMess>>
  BY <1>1, HandlesType
<1>3. "cm" \in Thread
  BY DEF Thread
<1>4. /\ clientSocks' \subseteq Sock
      /\ disc' \in [Thread -> DiscRec \cup {NoDisc}]
      /\ crashed' \in {"no", "player", "pl", "vector", "asking", "game"}
      /\ \A u \in Thread : disc'[u].player <= born'
  BY <1>1, <1>2, <1>3, BeginType
<1>5. out' \in Seq(OutRec)
  BY <1>1, EmptySeq
<1> QED BY <1>1, <1>2, <1>4, <1>5 DEF TypeInv, TypeOK

\* The handler of PL_LOST keeps the type invariant.
LEMMA PlayerLostType ==
  ASSUME TypeInv, NEW p \in Conn, PlayerLost(p)
  PROVE  TypeInv'
<1> DEFINE i == GameIndex(player, p)
           q == OponentIn(player, games[i], p)
           marked == [player EXCEPT ![p].lost = TRUE]
<1>1. Handles("PL_LOST") /\ UNCHANGED <<clientSocks, disc>> /\ i # 0
  BY DEF PlayerLost, HandlesFor
<1>2. q \in Conn /\ RemoveAt(games, i) \in Seq(GameRec)
  BY <1>1, GameType
<1>3. /\ player \in [Conn -> PlayerRec] /\ players \in Seq(1..born) /\ games \in Seq(GameRec)
      /\ Len(players) <= born /\ Len(players) \in Nat /\ born \in Nat
      /\ crashed \in {"no", "player", "pl", "vector", "asking", "game"}
  BY LenProperties DEF TypeInv, TypeOK
<1>4. marked \in [Conn -> PlayerRec]
  BY <1>3, FieldType
<1>5. CASE /\ player' = marked /\ out' = <<Msg(q, "PL_LOSS", {})>>
           /\ UNCHANGED <<players, games, crashed>>
  <2> HIDE DEF q, i, marked
  <2>1. Msg(q, "PL_LOSS", {}) \in OutRec
    BY <1>2 DEF Msg, OutRec
  <2>2. out' \in Seq(OutRec)
    BY <2>1, <1>5, OneMessage
  <2> QED BY <1>1, <1>3, <1>4, <1>5, <2>2, HandlerType
<1>6. CASE /\ player' = [marked EXCEPT ![p].inGame = FALSE, ![q].inGame = FALSE]
           /\ games' = RemoveAt(games, i)
           /\ players' = WithoutPlayer(player, WithoutPlayer(player, players, q), p)
           /\ crashed' = IF Len(players) < 2 THEN "vector" ELSE "no"
           /\ out' = <<>>
  <2> DEFINE w == WithoutPlayer(player, players, q)
  <2> HIDE DEF q, i, marked
  <2>3. player' \in [Conn -> PlayerRec]
    BY PlayerLostSets DEF Sets
  <2>4. w \in Seq(1..born) /\ Len(w) <= Len(players) /\ players' = WithoutPlayer(player, w, p)
    BY <1>3, <1>6, WithoutPlayerType
  <2> HIDE DEF w
  <2>5. players' \in Seq(1..born) /\ Len(players') <= Len(w)
    BY <2>4, WithoutPlayerType
  <2>6. Len(players') <= born
    BY <1>3, <2>4, <2>5, LenProperties
  <2>7. out' \in Seq(OutRec) /\ crashed' \in {"no", "player", "pl", "vector", "asking", "game"}
    BY <1>6, EmptySeq
  <2>8. games' \in Seq(GameRec)
    BY <1>2, <1>6
  <2> QED BY <1>1, <2>3, <2>5, <2>6, <2>7, <2>8, HandlerType
<1> QED BY <1>5, <1>6, Zenon DEF PlayerLost, Sends

\* The handler of PL_RECONN keeps the type invariant.
LEMMA ReconnectionType ==
  ASSUME TypeInv, NEW p \in Conn, Reconnection(p)
  PROVE  TypeInv'
<1> DEFINE old == getPlayerByName(Command.arg)
           renamed == [player EXCEPT ![p].name = Command.arg,
                                     ![p].availible = FALSE,
                                     ![p].inGame = TRUE]
           i == GameIndex(renamed, old)
           game == Seated(games[i], renamed, p)
           q == OponentIn(renamed, game, p)
<1>1. Handles("PL_RECONN") /\ UNCHANGED <<clientSocks, disc>>
  BY DEF Reconnection, HandlesFor
<1>2. /\ player \in [Conn -> PlayerRec] /\ players \in Seq(1..born) /\ games \in Seq(GameRec)
      /\ Len(players) <= born /\ Len(players) \in Nat /\ born \in Nat
      /\ crashed \in {"no", "player", "pl", "vector", "asking", "game"}
  BY LenProperties DEF TypeInv, TypeOK
<1>3. renamed \in [Conn -> PlayerRec]
  BY <1>1, HandlesType, RenamedIs
<1>4. CASE out' = <<Msg(p, "NACK", {})>> /\ UNCHANGED <<player, players, games, crashed>>
  <2>1. Msg(p, "NACK", {}) \in OutRec
    BY DEF Msg, OutRec
  <2>2. out' \in Seq(OutRec)
    BY <2>1, <1>4, OneMessage
  <2> QED BY <1>1, <1>2, <1>4, <2>2, HandlerType
<1>5. CASE crashed' = "game" /\ out' = <<>> /\ UNCHANGED <<player, players, games>>
  <2>1. out' \in Seq(OutRec)
    BY <1>5, EmptySeq
  <2> QED BY <1>1, <1>2, <1>5, <2>1, HandlerType
<1>6. CASE /\ i # 0 /\ player' = renamed /\ games' = [games EXCEPT ![i] = game]
           /\ players' = WithoutPlayer(renamed, players, old)
           /\ out' = <<Msg(p, "GAME_CON", {q}), Msg(q, "GAME_CON", {p})>>
           /\ UNCHANGED crashed
  <2> HIDE DEF old, renamed
  <2>1. i \in 1..Len(games) /\ games[i] \in GameRec
    BY <1>6, GameType
  <2> HIDE DEF i
  <2>2. game \in GameRec
    BY <2>1 DEF Seated, GameRec
  <2> HIDE DEF game
  <2>3. q \in Conn
    BY <2>2 DEF OponentIn, GameRec
  <2> HIDE DEF q
  <2>4. games' \in Seq(GameRec)
    BY <1>2, <1>6, <2>1, <2>2, ExceptSeq
  <2>5. Msg(p, "GAME_CON", {q}) \in OutRec /\ Msg(q, "GAME_CON", {p}) \in OutRec
    BY <2>3 DEF Msg, OutRec
  <2>6. out' \in Seq(OutRec)
    BY <2>5, <1>6, TwoMessages
  <2>7. players' \in Seq(1..born) /\ Len(players') <= Len(players)
    BY <1>2, <1>6, WithoutPlayerType
  <2>8. Len(players') <= born
    BY <1>2, <2>7, LenProperties
  <2> QED BY <1>1, <1>2, <1>3, <1>6, <2>4, <2>6, <2>7, <2>8, HandlerType
<1> QED BY <1>4, <1>5, <1>6, Zenon DEF Reconnection, Sends

-----------------------------------------------------------------------------

\* TypeInv is inductive.
LEMMA TypeStep == TypeInv /\ [Next]_vars => TypeInv'
<1> SUFFICES ASSUME TypeInv, [Next]_vars PROVE TypeInv'
  OBVIOUS
<1>1. CASE ServerNext
  <2>1. "server" \in Thread
    BY DEF Thread
  <2> QED BY <1>1, <2>1, AcceptType, ReceiveType, ClientGoneType, DisconnectEndType
          DEF ServerNext
<1>2. CASE PacketManagerNext
  <2>1. "pm" \in Thread
    BY DEF Thread
  <2> QED BY <1>2, <2>1, LookUpType, RegisterType, UnreadableType, DisconnectEndType
          DEF PacketManagerNext
<1>3. CASE NullPlayer
  BY <1>3, CrashesType DEF NullPlayer
<1>4. CASE DisconnectEnd("cm")
  <2>1. "cm" \in Thread
    BY DEF Thread
  <2> QED BY <1>4, <2>1, DisconnectEndType
<1>5. ASSUME NEW p \in Conn,
             \/ NewPlayerConnection(p) \/ ListRequest(p) \/ Reconnection(p)
             \/ Joining(p) \/ AcceptJoin(p) \/ DeclineJoin(p)
             \/ GameMove(p) \/ GameEnding(p) \/ Logout(p) \/ PlayerLost(p)
      PROVE  TypeInv'
  BY <1>5, NewPlayerConnectionType, ListRequestType, ReconnectionType, JoiningType,
     AcceptJoinType, DeclineJoinType, GameMoveType, GameEndingType, LogoutType, PlayerLostType
<1>6. ASSUME NEW p \in Conn, NullAsking(p) \/ NullGame(p)
      PROVE  TypeInv'
  <2>1. CASE NullAsking(p)
    BY <2>1, CrashesType DEF NullAsking, HandlesFor
  <2>2. CASE NullGame(p)
    BY <2>2, CrashesType DEF NullGame, HandlesFor
  <2> QED BY <1>6, <2>1, <2>2
<1>7. CASE UNCHANGED vars
  BY <1>7 DEF vars, TypeInv, TypeOK
<1> QED BY <1>1, <1>2, <1>3, <1>4, <1>5, <1>6, <1>7 DEF Next, CommandManagerNext

\* The memory of the server keeps its types: pointers point to constructed
\* objects, indices held across steps stay within the bounds of the vector's
\* capacity, and only messages of the protocol are queued.
THEOREM TypeCorrect == Spec => []TypeOK
<1>1. Init => TypeInv
  BY TypeInit
<1>2. TypeInv /\ [Next]_vars => TypeInv'
  BY TypeStep
<1>3. TypeInv => TypeOK
  BY DEF TypeInv
<1> QED BY <1>1, <1>2, <1>3, PTL DEF Spec

-----------------------------------------------------------------------------
(* Names, and losses.                                                      *)

\* NamesUnique is not inductive alone: renaming an object that is listed
\* twice would break it.  LostHasNoSocket needs that the notices that set the
\* mark are about objects that lost their descriptor.
ListedOnce == \A i, j \in DOMAIN players : i # j => players[i] # players[j]

NoticeIsTrue ==
  \A i \in DOMAIN commandQueue :
    commandQueue[i].header = "PL_LOST" =>
      /\ commandQueue[i].player \in 1..born
      /\ ~Connected(commandQueue[i].player)

\* An object is not marked lost before it is constructed, so that no mark is
\* taken back.
UnbornNotLost == \A p \in Conn : p > born => ~player[p].lost

\* NoisyIsDropped, of every object.
NoisyIsLeaving ==
  \A p \in Conn :
    player[p].bullshitMessages = BullshitLimit => ~Connected(p) \/ p \in Leaving

IInv ==
  /\ TypeInv /\ ListedOnce /\ NamesUnique
  /\ NoticeIsTrue /\ LostHasNoSocket /\ UnbornNotLost
  /\ NoisyIsLeaving

\* No thread forgets a disconnection it has begun.
DiscGrows == \A t \in Thread : disc[t] # NoDisc => disc'[t] = disc[t]

\* The names and the marks, as NameRegistry sees a step that gives none.
Releases == Holds' \subseteq Holds /\ Lost \subseteq Lost'

\* Different entries of s are different entries of t.
Thins(s, t) ==
  /\ \A j \in DOMAIN s : \E a \in DOMAIN t : s[j] = t[a]
  /\ \A j, k \in DOMAIN s : j # k =>
       \E a, b \in DOMAIN t : a # b /\ s[j] = t[a] /\ s[k] = t[b]

\* Thins is reflexive.
LEMMA ThinsItself ==
  ASSUME NEW s
  PROVE  Thins(s, s)
BY DEF Thins

\* Thins is transitive: two erasures in a row thin the vector.
LEMMA ThinsTransitive ==
  ASSUME NEW s, NEW t, NEW u, Thins(s, t), Thins(t, u)
  PROVE  Thins(s, u)
BY DEF Thins

\* Erasing an element thins a vector, and no element moves past another.
LEMMA RemoveAtThins ==
  ASSUME NEW S, NEW s \in Seq(S), NEW i \in 1..Len(s)
  PROVE  /\ Thins(RemoveAt(s, i), s)
         /\ \A j, k \in DOMAIN RemoveAt(s, i) : j # k =>
              \E a, b \in DOMAIN s : /\ a # b /\ a # i /\ b # i
                                     /\ RemoveAt(s, i)[j] = s[a]
                                     /\ RemoveAt(s, i)[k] = s[b]
<1> DEFINE t == RemoveAt(s, i)
           from(j) == IF j < i THEN j ELSE j + 1
<1>1. /\ Len(s) \in Nat /\ DOMAIN s = 1..Len(s)
      /\ DOMAIN t = 1..(Len(s) - 1)
      /\ \A j \in 1..(Len(s) - 1) : t[j] = IF j < i THEN s[j] ELSE s[j + 1]
  <2>1. t \in Seq(S) /\ Len(t) = Len(s) - 1
    BY RemoveAtProperties
  <2>2. DOMAIN t = 1..Len(t)
    BY <2>1, LenProperties
  <2> QED BY <2>1, <2>2, RemoveAtProperties, LenProperties
<1> HIDE DEF t
<1>2. \A j \in DOMAIN t : from(j) \in DOMAIN s /\ from(j) # i /\ t[j] = s[from(j)]
  BY <1>1
<1>3. \A j, k \in DOMAIN t : j # k => from(j) # from(k)
  BY <1>1
<1> HIDE DEF from
<1>4. \A j, k \in DOMAIN t : j # k =>
        \E a, b \in DOMAIN s : a # b /\ a # i /\ b # i /\ t[j] = s[a] /\ t[k] = s[b]
  BY <1>2, <1>3, Zenon
<1>5. Thins(t, s)
  <2>1. ASSUME NEW j \in DOMAIN t PROVE \E a \in DOMAIN s : t[j] = s[a]
    BY <1>2, Zenon
  <2>2. ASSUME NEW j \in DOMAIN t, NEW k \in DOMAIN t, j # k
        PROVE  \E a, b \in DOMAIN s : a # b /\ t[j] = s[a] /\ t[k] = s[b]
    BY <1>4, <2>2, Zenon
  <2> QED BY <2>1, <2>2, Zenon DEF Thins
<1> QED BY <1>4, <1>5, SMTT(30) DEF t

\* Losing the last element thins a vector.
LEMMA FrontThins ==
  ASSUME NEW S, NEW s \in Seq(S), s # <<>>
  PROVE  Thins(Front(s), s)
<1>1. Front(s) \in Seq(S) /\ Len(Front(s)) = Len(s) - 1 /\ Len(s) \in Nat
  BY FrontProperties, LenProperties
<1>2. DOMAIN Front(s) = 1..(Len(s) - 1) /\ DOMAIN s = 1..Len(s)
  BY <1>1, LenProperties
<1>3. \A j \in DOMAIN Front(s) : j \in DOMAIN s /\ Front(s)[j] = s[j]
  BY <1>1, <1>2, FrontProperties
<1> QED BY <1>3, Zenon DEF Thins

\* deletePlayer thins the vector, whichever entry it erases.
LEMMA WithoutPlayerThins ==
  ASSUME NEW S, NEW objs, NEW vec \in Seq(S), NEW p
  PROVE  Thins(WithoutPlayer(objs, vec, p), vec)
<1> DEFINE i == IndexByName(objs, vec, objs[p].name)
           k == IF i = 0 THEN Len(vec) ELSE i
<1>1. Len(vec) \in Nat /\ i \in 0..Len(vec)
  BY FirstByName, LenProperties
<1>2. CASE vec = <<>>
  BY <1>2, ThinsItself DEF WithoutPlayer
<1>3. CASE vec # <<>>
  <2>1. Len(vec) # 0
    BY <1>3, EmptySeq
  <2>2. WithoutPlayer(objs, vec, p) = RemoveAt(vec, k)
    BY <1>3, Zenon DEF WithoutPlayer
  <2>3. k \in 1..Len(vec)
    BY <1>1, <2>1
  <2> HIDE DEF k
  <2> QED BY <2>2, <2>3, RemoveAtThins
<1> QED BY <1>2, <1>3

-----------------------------------------------------------------------------

\* A step that keeps names, descriptors and marks, adds nobody to the vector
\* and no notice to the queue.
LEMMA NamesKept ==
  ASSUME TypeInv, ListedOnce, NamesUnique,
         \A r \in Conn : player'[r].name = player[r].name,
         Thins(players', players)
  PROVE  ListedOnce' /\ NamesUnique'
<1>1. ListedOnce'
  <2> SUFFICES ASSUME NEW i \in DOMAIN players', NEW j \in DOMAIN players', i # j
               PROVE  players'[i] # players'[j]
    BY DEF ListedOnce
  <2> QED BY DEF Thins, ListedOnce
<1>2. \A a \in DOMAIN players : players[a] \in Conn
  BY ElementOfSeq, LenProperties, ConnectionsAssumption DEF TypeInv, TypeOK, Conn
<1>3. NamesUnique'
  <2> SUFFICES ASSUME NEW i \in DOMAIN players', NEW j \in DOMAIN players', i # j,
                      player'[players'[i]].name = player'[players'[j]].name
               PROVE  player'[players'[i]].name = NoName
    BY DEF NamesUnique
  <2>1. PICK a, b \in DOMAIN players :
          a # b /\ players'[i] = players[a] /\ players'[j] = players[b]
    BY DEF Thins
  <2>2. player[players[a]].name = player[players[b]].name
    BY <1>2, <2>1
  <2>3. player[players[a]].name = NoName
    BY <2>1, <2>2 DEF NamesUnique
  <2> QED BY <1>2, <2>1, <2>3
<1> QED BY <1>1, <1>3

\* Such a step gives nobody a name.
LEMMA FewerHold ==
  ASSUME \A r \in Conn : player'[r].name = player[r].name, Thins(players', players)
  PROVE  Holds' \subseteq Holds
<1> SUFFICES ASSUME NEW n \in Name, NEW r \in Conn, r \in ToSet(players'), player'[r].name = n
             PROVE  r \in ToSet(players) /\ player[r].name = n
  BY DEF Holds, Listing
<1>1. r \in ToSet(players)
  BY DEF ToSet, Thins
<1> QED BY <1>1

\* A step that sets neither descriptors nor marks, and adds no notice, keeps
\* what is known of lost players.
LEMMA LossKept ==
  ASSUME TypeInv, NoticeIsTrue, LostHasNoSocket,
         \A r \in Conn : player'[r].socket = player[r].socket /\ player'[r].lost = player[r].lost,
         born' = born,
         \A i \in DOMAIN commandQueue' : commandQueue'[i].header = "PL_LOST" =>
           \E j \in DOMAIN commandQueue : commandQueue'[i] = commandQueue[j]
  PROVE  /\ NoticeIsTrue' /\ LostHasNoSocket'
         /\ UnbornNotLost => UnbornNotLost'
         /\ Lost' = Lost
<1>1. 1..born \subseteq Conn
  BY ConnectionsAssumption DEF TypeInv, TypeOK, Conn
<1>2. NoticeIsTrue'
  <2> SUFFICES ASSUME NEW i \in DOMAIN commandQueue', commandQueue'[i].header = "PL_LOST"
               PROVE  /\ commandQueue'[i].player \in 1..born'
                      /\ player'[commandQueue'[i].player].socket = NoSock
    BY DEF NoticeIsTrue, Connected
  <2>1. PICK j \in DOMAIN commandQueue : commandQueue'[i] = commandQueue[j]
    OBVIOUS
  <2>2. commandQueue[j].player \in 1..born /\ player[commandQueue[j].player].socket = NoSock
    BY <2>1 DEF NoticeIsTrue, Connected
  <2> QED BY <1>1, <2>1, <2>2
<1>3. LostHasNoSocket'
  BY DEF LostHasNoSocket, Connected
<1>4. UnbornNotLost => UnbornNotLost'
  BY DEF UnbornNotLost
<1>5. Lost' = Lost
  BY DEF Lost
<1> QED BY <1>2, <1>3, <1>4, <1>5

\* A step that counts no unreadable message, gives no descriptor and ends no
\* disconnection keeps what is known of noisy players.
LEMMA NoisyKept ==
  ASSUME TypeInv, NoisyIsLeaving, DiscGrows,
         \A r \in Conn : /\ player'[r].bullshitMessages = player[r].bullshitMessages
                         /\ player'[r].socket = player[r].socket
  PROVE  NoisyIsLeaving'
<1> SUFFICES ASSUME NEW p \in Conn, player'[p].bullshitMessages = BullshitLimit,
                    player'[p].socket # NoSock
             PROVE  \E t \in Thread : disc'[t].player = p
  BY DEF NoisyIsLeaving, Connected, Leaving
<1>1. PICK t \in Thread : disc[t].player = p
  BY DEF NoisyIsLeaving, Connected, Leaving
<1>2. disc[t] # NoDisc
  BY <1>1, ConnectionsAssumption DEF NoDisc, NoConn, Conn
<1> QED BY <1>1, <1>2 DEF DiscGrows

\* The beginning of a disconnection is no end of another.
LEMMA BeginGrows ==
  ASSUME TypeInv, NEW t \in Thread, NEW s, DisconnectBegin(t, s), disc[t] = NoDisc
  PROVE  DiscGrows
<1>1. disc \in [Thread -> DiscRec \cup {NoDisc}]
  BY DEF TypeInv, TypeOK
<1>2. (\E d : disc' = [disc EXCEPT ![t] = d]) \/ disc' = disc
  BY DEF DisconnectBegin
<1> QED BY <1>1, <1>2 DEF DiscGrows

\* A step that only sets protocol fields, thins the vector and adds no notice
\* keeps the invariant.
LEMMA QuietStep ==
  ASSUME IInv, TypeInv', DiscGrows, Keeps(player', player), born' = born, Thins(players', players),
         \A i \in DOMAIN commandQueue' : commandQueue'[i].header = "PL_LOST" =>
           \E j \in DOMAIN commandQueue : commandQueue'[i] = commandQueue[j]
  PROVE  IInv' /\ Releases
BY NamesKept, FewerHold, LossKept, NoisyKept DEF IInv, Keeps, Releases

\* Taking a command off the queue adds none.
LEMMA HandlesQueue ==
  ASSUME TypeInv, NEW h, Handles(h)
  PROVE  /\ born' = born
         /\ \A i \in DOMAIN commandQueue' :
              \E j \in DOMAIN commandQueue : commandQueue'[i] = commandQueue[j]
<1>1. commandQueue \in Seq(MessRec \cup LostRec) /\ commandQueue # <<>>
      /\ commandQueue' = Tail(commandQueue) /\ born' = born
  BY DEF TypeInv, TypeOK, Handles
<1>2. /\ Len(Tail(commandQueue)) = Len(commandQueue) - 1
      /\ Len(commandQueue) \in Nat
      /\ DOMAIN commandQueue = 1..Len(commandQueue)
      /\ DOMAIN Tail(commandQueue) = 1..Len(Tail(commandQueue))
      /\ \A i \in 1..Len(Tail(commandQueue)) : Tail(commandQueue)[i] = commandQueue[i + 1]
  BY <1>1, HeadTailProperties, LenProperties
<1>3. \A i \in DOMAIN Tail(commandQueue) : i + 1 \in DOMAIN commandQueue
  BY <1>2
<1> QED BY <1>1, <1>2, <1>3

-----------------------------------------------------------------------------

\* The invariant holds at the start.
LEMMA IInit == Init => IInv
<1> SUFFICES ASSUME Init PROVE IInv
  OBVIOUS
<1>1. ListedOnce /\ NamesUnique /\ NoticeIsTrue
  BY DEF Init, ListedOnce, NamesUnique, NoticeIsTrue
<1>2. LostHasNoSocket
  BY DEF Init, LostHasNoSocket, NewPlayer
<1>3. UnbornNotLost
  BY DEF Init, UnbornNotLost, NewPlayer
<1>4. NoisyIsLeaving
  BY DEF Init, NoisyIsLeaving, NewPlayer, Connected
<1> QED BY <1>1, <1>2, <1>3, <1>4, TypeInit DEF IInv

\* A new connection has no name, no mark and no notice yet.
LEMMA AcceptKeeps ==
  ASSUME IInv, Accept
  PROVE  IInv' /\ Releases
<1>1. TypeInv' /\ TypeInv
  BY AcceptType DEF IInv
<1>2. /\ player \in [Conn -> PlayerRec] /\ players \in Seq(1..born)
      /\ born \in Nat /\ born + 1 \in Conn /\ 1..born \subseteq Conn
  BY <1>1, ConnectionsAssumption DEF Accept, TypeInv, TypeOK, Conn
<1>3. PICK s \in Sock : player' = [player EXCEPT ![born + 1] = NewPlayer(s)]
  BY DEF Accept
<1>4. /\ \A r \in 1..born : player'[r] = player[r]
      /\ player'[born + 1].name = NoName /\ ~player'[born + 1].lost
      /\ \A r \in Conn : r # born + 1 => player'[r] = player[r]
  BY <1>2, <1>3 DEF NewPlayer
<1>5. /\ players' = Append(players, born + 1)
      /\ DOMAIN players = 1..Len(players) /\ Len(players) \in Nat
      /\ \A i \in DOMAIN players : players[i] \in 1..born
  BY <1>2, LenProperties, ElementOfSeq DEF Accept
<1>6. \A i \in DOMAIN players' :
        \/ i = Len(players) + 1 /\ players'[i] = born + 1
        \/ i \in DOMAIN players /\ players'[i] = players[i]
  <2>1. players \in Seq(Nat) /\ born + 1 \in Nat
    <3>1. 1..born \subseteq Nat
      OBVIOUS
    <3> QED BY <1>2, <3>1, SeqMonotonic
  <2>2. /\ players' \in Seq(Nat) /\ Len(players') = Len(players) + 1
        /\ \A i \in 1..Len(players) : players'[i] = players[i]
        /\ players'[Len(players) + 1] = born + 1
    BY <1>5, <2>1, AppendProperties
  <2>3. DOMAIN players' = 1..(Len(players) + 1)
    BY <2>2, LenProperties
  <2> QED BY <1>5, <2>2, <2>3
<1>7. ListedOnce'
  <2> SUFFICES ASSUME NEW i \in DOMAIN players', NEW j \in DOMAIN players', i # j
               PROVE  players'[i] # players'[j]
    BY DEF ListedOnce
  <2>1. born + 1 \notin 1..born
    BY <1>2
  <2> QED BY <1>5, <1>6, <2>1 DEF ListedOnce, IInv
<1>8. NamesUnique'
  <2> SUFFICES ASSUME NEW i \in DOMAIN players', NEW j \in DOMAIN players', i # j,
                      player'[players'[i]].name = player'[players'[j]].name
               PROVE  player'[players'[i]].name = NoName
    BY DEF NamesUnique
  <2> QED BY <1>4, <1>5, <1>6 DEF NamesUnique, IInv
<1>9. NoticeIsTrue'
  <2> SUFFICES ASSUME NEW i \in DOMAIN commandQueue, commandQueue[i].header = "PL_LOST"
               PROVE  /\ commandQueue[i].player \in 1..(born + 1)
                      /\ player'[commandQueue[i].player].socket = NoSock
    BY DEF NoticeIsTrue, Connected, Accept
  <2>1. commandQueue[i].player \in 1..born /\ player[commandQueue[i].player].socket = NoSock
    BY DEF NoticeIsTrue, Connected, IInv
  <2> QED BY <1>2, <1>4, <2>1
<1>10. LostHasNoSocket'
  BY <1>4 DEF LostHasNoSocket, Connected, IInv
<1>11. UnbornNotLost'
  BY <1>2, <1>4 DEF UnbornNotLost, IInv, Accept, Conn
<1>12. Holds' \subseteq Holds
  <2> SUFFICES ASSUME NEW n \in Name, NEW r \in Conn, r \in ToSet(players'), player'[r].name = n
               PROVE  r \in ToSet(players) /\ player[r].name = n
    BY DEF Holds, Listing
  <2>1. r # born + 1
    BY <1>4, NameAssumption
  <2>2. PICK i \in DOMAIN players' : players'[i] = r
    BY DEF ToSet
  <2>3. r \in ToSet(players)
    BY <1>6, <2>1, <2>2 DEF ToSet
  <2> QED BY <1>4, <2>1, <2>3
<1>13. Lost \subseteq Lost'
  <2>1. ~ player[born + 1].lost
    BY <1>2 DEF UnbornNotLost, IInv
  <2> QED BY <1>4, <2>1 DEF Lost
<1>14. NoisyIsLeaving'
  <2>1. player'[born + 1].bullshitMessages # BullshitLimit /\ disc' = disc
    BY <1>2, <1>3, BoundsAssumption DEF NewPlayer, Accept
  <2> QED BY <1>4, <2>1 DEF NoisyIsLeaving, IInv, Connected, Leaving
<1> QED BY <1>1, <1>7, <1>8, <1>9, <1>10, <1>11, <1>12, <1>13, <1>14 DEF IInv, Releases

\* Steps that leave objects, vector and command queue alone.
LEMMA IdleKeeps ==
  ASSUME IInv, TypeInv', DiscGrows, UNCHANGED <<player, born, players, commandQueue>>
  PROVE  IInv' /\ Releases
<1>1. NoisyIsLeaving'
  BY NoisyKept DEF IInv
<1> QED BY <1>1 DEF IInv, ListedOnce, NamesUnique, NoticeIsTrue, LostHasNoSocket, Connected, UnbornNotLost,
                    Releases, Holds, Lost, Listing

\* A message from a client is no notice of a loss.
LEMMA RegisterKeeps ==
  ASSUME IInv, Register
  PROVE  IInv' /\ Releases
<1>1. TypeInv' /\ TypeInv
  BY RegisterType DEF IInv
<1>2. /\ UNCHANGED <<player, born, players>> /\ DiscGrows
      /\ commandQueue' = Append(commandQueue, pmMess)
      /\ pmMess \in MessRec \cup LostRec
      /\ commandQueue \in Seq(MessRec \cup LostRec)
      /\ pmMess.header # "PL_LOST"
  BY <1>1, HeadersAssumption DEF Register, TypeInv, TypeOK, MessRec, ClientHeader, DiscGrows
<1>3. \A i \in DOMAIN commandQueue' : commandQueue'[i].header = "PL_LOST" =>
        \E j \in DOMAIN commandQueue : commandQueue'[i] = commandQueue[j]
  <2>1. /\ commandQueue' \in Seq(MessRec \cup LostRec)
        /\ Len(commandQueue') = Len(commandQueue) + 1
        /\ \A i \in 1..Len(commandQueue) : commandQueue'[i] = commandQueue[i]
        /\ commandQueue'[Len(commandQueue) + 1] = pmMess
    BY <1>2, AppendProperties
  <2>2. DOMAIN commandQueue' = 1..Len(commandQueue')
        /\ DOMAIN commandQueue = 1..Len(commandQueue) /\ Len(commandQueue) \in Nat
    BY <1>2, <2>1, LenProperties
  <2>3. \A i \in DOMAIN commandQueue' : i \in DOMAIN commandQueue \/ i = Len(commandQueue) + 1
    BY <2>1, <2>2
  <2> QED BY <1>2, <2>1, <2>2, <2>3
<1> QED BY <1>1, <1>2, <1>3, QuietStep, KeepsItself, ThinsItself

\* Counting an unreadable message keeps the invariant.
LEMMA UnreadableKeeps ==
  ASSUME IInv, Unreadable
  PROVE  IInv' /\ Releases
<1> DEFINE s == Head(packetQueue).socket
           p == getPlayerBySocket(s)
           n == IF p # NoConn /\ player[p].bullshitMessages < BullshitLimit
                THEN player[p].bullshitMessages + 1 ELSE BullshitLimit
<1>1. /\ TypeInv /\ TypeInv' /\ player \in [Conn -> PlayerRec] /\ players \in Seq(1..born)
      /\ UNCHANGED <<born, players, commandQueue>>
  BY UnreadableType DEF IInv, TypeInv, TypeOK, Unreadable
<1>2. p \in Conn \cup {NoConn}
  BY <1>1, BySocketType DEF TypeInv
<1>3. player' = IF p = NoConn THEN player ELSE [player EXCEPT ![p].bullshitMessages = n]
  BY Zenon DEF Unreadable
<1>4. IF p # NoConn /\ n >= BullshitLimit THEN DisconnectBegin("pm", s) ELSE disc' = disc
  BY DEF Unreadable, TooMany
<1>5. DiscGrows
  <2>1. disc["pm"] = NoDisc /\ "pm" \in Thread
    BY DEF Unreadable, PmReady, Thread
  <2>2. CASE DisconnectBegin("pm", s)
    BY <1>1, <2>1, <2>2, BeginGrows
  <2>3. CASE disc' = disc
    BY <2>3 DEF DiscGrows
  <2> QED BY <1>4, <2>2, <2>3
<1>6. p # NoConn /\ n >= BullshitLimit => \E t \in Thread : disc'[t].player = p
  <2> SUFFICES ASSUME p # NoConn, n >= BullshitLimit
               PROVE  disc'["pm"].player = p
    BY DEF Thread
  <2>1. disc \in [Thread -> DiscRec \cup {NoDisc}] /\ "pm" \in Thread
    BY <1>1 DEF TypeInv, TypeOK, Thread
  <2>2. IndexBySocket(s) # 0 /\ p = players[IndexBySocket(s)]
    BY DEF getPlayerBySocket, At
  <2>3. DisconnectBegin("pm", s)
    BY <1>4
  <2>4. \E k, b : disc' = [disc EXCEPT !["pm"] = [player |-> p, index |-> k, inGame |-> b]]
    BY <2>2, <2>3 DEF DisconnectBegin
  <2> QED BY <2>1, <2>4
<1> HIDE DEF p, n
<1>7. \A r \in Conn : /\ player'[r].name = player[r].name
                      /\ player'[r].socket = player[r].socket
                      /\ player'[r].lost = player[r].lost
                      /\ r # p => player'[r].bullshitMessages = player[r].bullshitMessages
                      /\ r = p => player'[r].bullshitMessages = n
  BY <1>1, <1>2, <1>3, ConnectionsAssumption DEF PlayerRec, Conn, NoConn
<1>8. NoisyIsLeaving'
  <2> SUFFICES ASSUME NEW r \in Conn, player'[r].bullshitMessages = BullshitLimit,
                      player'[r].socket # NoSock
               PROVE  \E t \in Thread : disc'[t].player = r
    BY DEF NoisyIsLeaving, Connected, Leaving
  <2>1. CASE r = p
    <3>1. p # NoConn /\ n >= BullshitLimit
      BY <1>7, <2>1, ConnectionsAssumption, BoundsAssumption DEF Conn, NoConn
    <3> QED BY <1>6, <2>1, <3>1
  <2>2. CASE r # p
    <3>1. PICK t \in Thread : disc[t].player = r
      BY <1>7, <2>2 DEF NoisyIsLeaving, IInv, Connected, Leaving
    <3>2. disc[t] # NoDisc
      BY <3>1, ConnectionsAssumption DEF NoDisc, NoConn, Conn
    <3> QED BY <1>5, <3>1, <3>2 DEF DiscGrows
  <2> QED BY <2>1, <2>2
<1>9. Thins(players', players)
  BY <1>1, ThinsItself
<1>10. ListedOnce' /\ NamesUnique' /\ Holds' \subseteq Holds
  BY <1>1, <1>7, <1>9, NamesKept, FewerHold DEF IInv
<1>11. NoticeIsTrue' /\ LostHasNoSocket' /\ UnbornNotLost' /\ Lost' = Lost
  BY <1>1, <1>7, LossKept DEF IInv
<1> QED BY <1>1, <1>8, <1>10, <1>11 DEF IInv, Releases

\* The notice of a loss is queued with the descriptor already removed.
LEMMA DisconnectEndKeeps ==
  ASSUME IInv, NEW t \in Thread, DisconnectEnd(t)
  PROVE  IInv' /\ Releases
<1> DEFINE d == disc[t]
<1>1. TypeInv' /\ TypeInv
  BY DisconnectEndType DEF IInv
<1>2. /\ d.player \in 1..born /\ 1..born \subseteq Conn /\ d.player \in Conn
      /\ player \in [Conn -> PlayerRec] /\ born' = born
      /\ players \in Seq(1..born)
      /\ commandQueue \in Seq(MessRec \cup LostRec)
  <2>1. d \in DiscRec /\ d.player <= born /\ born \in 0..MaxConnections
    BY <1>1 DEF DisconnectEnd, TypeInv, TypeOK
  <2>2. d.player \in Conn
    BY <2>1 DEF DiscRec
  <2> HIDE DEF d
  <2> QED BY <2>1, <2>2, <1>1, ConnectionsAssumption
          DEF TypeInv, TypeOK, DisconnectEnd, Conn
<1>3. player' = Unplugged(d)
  BY DEF DisconnectEnd
<1>4. /\ \A r \in Conn : /\ player'[r].name = player[r].name
                         /\ player'[r].lost = player[r].lost
                         /\ player'[r].socket = player[r].socket \/ player'[r].socket = NoSock
      /\ player'[d.player].socket = NoSock
  <2> HIDE DEF d
  <2> QED BY <1>2, <1>3 DEF Unplugged, PlayerRec
<1>5. Thins(players', players)
  <2>1. CASE d.index \in DOMAIN players /\ players' = Erased(d.index)
    <3>1. d.index \in 1..Len(players)
      BY <1>2, <2>1, LenProperties
    <3> QED BY <1>2, <2>1, <3>1, RemoveAtThins DEF Erased
  <2>2. CASE players # <<>> /\ players' = Front(players)
    BY <1>2, <2>2, FrontThins
  <2>3. CASE UNCHANGED players
    BY <2>3, ThinsItself
  <2> QED BY <2>1, <2>2, <2>3 DEF DisconnectEnd, EraseAt
<1>6. ListedOnce' /\ NamesUnique'
  BY <1>1, <1>4, <1>5, NamesKept DEF IInv
<1>7. LostHasNoSocket'
  BY <1>4 DEF LostHasNoSocket, Connected, IInv
<1>8. \A i \in DOMAIN commandQueue' :
        \/ \E j \in DOMAIN commandQueue : commandQueue'[i] = commandQueue[j]
        \/ commandQueue'[i].player = d.player
  <2> HIDE DEF d
  <2>1. CASE commandQueue' = Noticed(d)
    <3> DEFINE m == [header |-> "PL_LOST", arg |-> NoName, player |-> d.player]
    <3>1. m \in MessRec \cup LostRec /\ commandQueue' = Append(commandQueue, m)
          /\ m.player = d.player
      BY <1>2, <2>1 DEF LostRec, Noticed
    <3> HIDE DEF m
    <3>2. /\ commandQueue' \in Seq(MessRec \cup LostRec)
          /\ Len(commandQueue') = Len(commandQueue) + 1
          /\ \A i \in 1..Len(commandQueue) : commandQueue'[i] = commandQueue[i]
          /\ commandQueue'[Len(commandQueue) + 1] = m
      BY <1>2, <3>1, AppendProperties
    <3>3. DOMAIN commandQueue' = 1..Len(commandQueue')
          /\ DOMAIN commandQueue = 1..Len(commandQueue) /\ Len(commandQueue) \in Nat
      BY <1>2, <3>2, LenProperties
    <3>4. \A i \in DOMAIN commandQueue' : i \in DOMAIN commandQueue \/ i = Len(commandQueue) + 1
      BY <3>2, <3>3
    <3> QED BY <3>1, <3>2, <3>3, <3>4
  <2>2. CASE UNCHANGED commandQueue
    BY <2>2
  <2> QED BY <2>1, <2>2 DEF DisconnectEnd, d
<1>9. NoticeIsTrue'
  <2> SUFFICES ASSUME NEW i \in DOMAIN commandQueue', commandQueue'[i].header = "PL_LOST"
               PROVE  /\ commandQueue'[i].player \in 1..born
                      /\ player'[commandQueue'[i].player].socket = NoSock
    BY <1>2 DEF NoticeIsTrue, Connected
  <2>1. CASE commandQueue'[i].player = d.player
    BY <1>2, <1>4, <2>1
  <2>2. CASE \E j \in DOMAIN commandQueue : commandQueue'[i] = commandQueue[j]
    <3>1. /\ commandQueue'[i].player \in 1..born
          /\ player[commandQueue'[i].player].socket = NoSock
      BY <2>2 DEF NoticeIsTrue, Connected, IInv
    <3> QED BY <1>2, <1>4, <3>1
  <2> QED BY <1>8, <2>1, <2>2
<1>10. UnbornNotLost' /\ Lost' = Lost
  BY <1>2, <1>4 DEF UnbornNotLost, IInv, Lost
<1>11. Holds' \subseteq Holds
  BY <1>4, <1>5, FewerHold
<1>12. NoisyIsLeaving'
  <2> SUFFICES ASSUME NEW r \in Conn, player'[r].bullshitMessages = BullshitLimit,
                      player'[r].socket # NoSock
               PROVE  \E u \in Thread : disc'[u].player = r
    BY DEF NoisyIsLeaving, Connected, Leaving
  <2>1. r # d.player /\ player[r].socket # NoSock
    BY <1>4
  <2>2. player[r].bullshitMessages = BullshitLimit
    <3> HIDE DEF d
    <3> QED BY <1>2, <1>3 DEF Unplugged, PlayerRec
  <2>3. PICK u \in Thread : disc[u].player = r
    BY <2>1, <2>2 DEF NoisyIsLeaving, IInv, Connected, Leaving
  <2>4. u # t /\ disc' = [disc EXCEPT ![t] = NoDisc]
    BY <2>1, <2>3 DEF DisconnectEnd
  <2>5. disc'[u] = disc[u]
    BY <1>1, <2>4 DEF TypeInv, TypeOK
  <2> QED BY <2>3, <2>5
<1> QED BY <1>1, <1>6, <1>7, <1>9, <1>10, <1>11, <1>12 DEF IInv, Releases

-----------------------------------------------------------------------------

\* A handler that only sets protocol fields keeps the invariant.
LEMMA HandlerKeeps ==
  ASSUME IInv, TypeInv', NEW h, Handles(h), DiscGrows,
         Keeps(player', player), Thins(players', players)
  PROVE  IInv' /\ Releases
BY HandlesQueue, QuietStep DEF IInv

\* Handlers that leave objects and vector alone, and those that crash.
LEMMA ReadOnlyKeeps ==
  ASSUME IInv, TypeInv', NEW h, Handles(h), DiscGrows, UNCHANGED <<player, players>>
  PROVE  IInv' /\ Releases
BY HandlerKeeps, KeepsItself, ThinsItself

\* A new name is one no listed player has.
LEMMA NewPlayerConnectionKeeps ==
  ASSUME IInv, NEW p \in Conn, NewPlayerConnection(p)
  PROVE  IInv' /\ (Releases \/ \E n \in Name : Registry!Take(n, p))
<1>1. TypeInv' /\ TypeInv
  BY NewPlayerConnectionType DEF IInv
<1>2. Handles("NEW_PL") /\ UNCHANGED players /\ DiscGrows
  BY DEF NewPlayerConnection, HandlesFor, DiscGrows
<1>3. CASE UNCHANGED player
  BY <1>1, <1>2, <1>3, ReadOnlyKeeps
<1>4. CASE /\ isUsernameAvailible(Command.arg)
           /\ player' = [player EXCEPT ![p].name = Command.arg, ![p].availible = TRUE]
  <2>1. player \in [Conn -> PlayerRec]
    BY <1>1 DEF TypeInv, TypeOK
  <2>2. /\ player'[p].name = Command.arg
        /\ \A r \in Conn : r # p => player'[r].name = player[r].name
        /\ \A r \in Conn : /\ player'[r].socket = player[r].socket
                           /\ player'[r].lost = player[r].lost
                           /\ player'[r].bullshitMessages = player[r].bullshitMessages
    BY <1>4, <2>1 DEF PlayerRec
  <2>3. \A i \in DOMAIN players : players[i] \in Conn /\ player[players[i]].name # Command.arg
    <3>1. \A i \in DOMAIN players : players[i] \in Conn
      BY <1>1, ElementOfSeq, LenProperties, ConnectionsAssumption, SMTT(30) DEF TypeInv, TypeOK, Conn
    <3> QED BY <1>4, <3>1 DEF isUsernameAvailible, ToSet
  <2>4. ListedOnce'
    BY <1>2 DEF ListedOnce, IInv
  <2>5. NamesUnique'
    <3> SUFFICES ASSUME NEW i \in DOMAIN players, NEW j \in DOMAIN players, i # j,
                        player'[players[i]].name = player'[players[j]].name
                 PROVE  player'[players[i]].name = NoName
      BY <1>2 DEF NamesUnique
    <3>1. players[i] # players[j]
      BY DEF ListedOnce, IInv
    <3>2. players[i] # p /\ players[j] # p
      BY <2>2, <2>3, <3>1
    <3> QED BY <2>2, <2>3, <3>2 DEF NamesUnique, IInv
  <2>6. NoticeIsTrue' /\ LostHasNoSocket' /\ UnbornNotLost' /\ Lost' = Lost
    BY <1>1, <1>2, <2>2, HandlesQueue, LossKept DEF IInv
  <2>7. ASSUME Command.arg \in Name, p \in Listing
        PROVE  Registry!Take(Command.arg, p)
    <3>1. \A h \in Holds : h[1] # Command.arg
      BY <1>4 DEF isUsernameAvailible, Holds, Listing
    <3>2. Holds' = Registry!HeldByOthers(p) \cup {<<Command.arg, p>>}
      <4>1. \A n \in Name, r \in Conn :
              <<n, r>> \in Holds' <=>
                <<n, r>> \in Registry!HeldByOthers(p) \cup {<<Command.arg, p>>}
        BY <1>2, <2>2, <2>7 DEF Holds, Listing, Registry!HeldByOthers
      <4>2. Holds' \subseteq Name \X Conn /\ Registry!HeldByOthers(p) \subseteq Name \X Conn
        BY DEF Holds, Registry!HeldByOthers
      <4> HIDE DEF Registry!HeldByOthers
      <4> QED BY <2>7, <4>1, <4>2
    <3> QED BY <2>6, <2>7, <3>1, <3>2 DEF Registry!Take
  <2>8. ASSUME Command.arg \notin Name \/ p \notin Listing
        PROVE  Releases
    <3>1. Holds' \subseteq Holds
      <4> SUFFICES ASSUME NEW n \in Name, NEW r \in Conn,
                          r \in ToSet(players), player'[r].name = n
                   PROVE  player[r].name = n
        BY <1>2 DEF Holds, Listing
      <4> QED BY <2>2, <2>8 DEF Listing
    <3> QED BY <2>6, <3>1 DEF Releases
  <2>9. Releases \/ \E n \in Name : Registry!Take(n, p)
    BY <2>7, <2>8
  <2>10. NoisyIsLeaving'
    BY <1>1, <1>2, <2>2, NoisyKept DEF IInv
  <2> QED BY <1>1, <2>4, <2>5, <2>6, <2>9, <2>10 DEF IInv
<1> QED BY <1>3, <1>4 DEF NewPlayerConnection

\* The handler of JOIN_PLAYER keeps the invariant.
LEMMA JoiningKeeps ==
  ASSUME IInv, NEW p \in Conn, Joining(p)
  PROVE  IInv' /\ Releases
<1>1. TypeInv' /\ Handles("JOIN_PLAYER") /\ UNCHANGED players /\ DiscGrows
  BY JoiningType DEF IInv, Joining, HandlesFor, DiscGrows
<1>2. Keeps(player', player)
  BY JoiningSets DEF IInv, Sets
<1> QED BY <1>1, <1>2, HandlerKeeps, ThinsItself

\* The handler of ACCEPT_JOIN keeps the invariant.
LEMMA AcceptJoinKeeps ==
  ASSUME IInv, NEW p \in Conn, AcceptJoin(p)
  PROVE  IInv' /\ Releases
<1>1. TypeInv' /\ Handles("ACCEPT_JOIN") /\ UNCHANGED players /\ DiscGrows
  BY AcceptJoinType DEF IInv, AcceptJoin, HandlesFor, DiscGrows
<1>2. Keeps(player', player)
  BY AcceptJoinSets DEF IInv, Sets
<1> QED BY <1>1, <1>2, HandlerKeeps, ThinsItself

\* The handler of DECLIN_JOIN keeps the invariant.
LEMMA DeclineJoinKeeps ==
  ASSUME IInv, NEW p \in Conn, DeclineJoin(p)
  PROVE  IInv' /\ Releases
<1>1. TypeInv' /\ Handles("DECLIN_JOIN") /\ UNCHANGED players /\ DiscGrows
  BY DeclineJoinType DEF IInv, DeclineJoin, HandlesFor, DiscGrows
<1>2. Keeps(player', player)
  BY DeclineJoinSets DEF IInv, Sets
<1> QED BY <1>1, <1>2, HandlerKeeps, ThinsItself

\* The handler of GAME_MOVE keeps the invariant.
LEMMA GameMoveKeeps ==
  ASSUME IInv, NEW p \in Conn, GameMove(p)
  PROVE  IInv' /\ Releases
<1> DEFINE q == OponentIn(player, games[GameIndex(player, p)], p)
<1>1. TypeInv' /\ TypeInv /\ Handles("GAME_MOVE") /\ UNCHANGED players /\ DiscGrows
  BY GameMoveType DEF IInv, GameMove, HandlesFor, DiscGrows
<1>2. player \in [Conn -> PlayerRec] /\ q \in Conn
  BY <1>1, GameType DEF GameMove, TypeInv, TypeOK
<1>3. player' = Freed(p, q) \/ UNCHANGED player
  BY Zenon DEF GameMove
<1> HIDE DEF q
<1>4. Keeps(player', player)
  <2>1. CASE player' = Freed(p, q)
    BY <1>2, <2>1, FreedSets DEF Sets
  <2>2. CASE UNCHANGED player
    BY <2>2, KeepsItself
  <2> QED BY <1>3, <2>1, <2>2
<1> QED BY <1>1, <1>4, HandlerKeeps, ThinsItself

\* The handler of PL_LOGOUT in a game keeps the invariant.
LEMMA GameEndingKeeps ==
  ASSUME IInv, NEW p \in Conn, GameEnding(p)
  PROVE  IInv' /\ Releases
<1>1. TypeInv' /\ Handles("PL_LOGOUT") /\ DiscGrows /\ players \in Seq(1..born)
  BY GameEndingType DEF IInv, TypeInv, TypeOK, GameEnding, HandlesFor, DiscGrows
<1>2. Keeps(player', player)
  BY GameEndingSets DEF IInv, Sets
<1>3. UNCHANGED players \/ \E q : players' = WithoutPlayer(player, players, q)
  BY GameEndingSets DEF IInv
<1>4. Thins(players', players)
  BY <1>1, <1>3, WithoutPlayerThins, ThinsItself
<1> QED BY <1>1, <1>2, <1>4, HandlerKeeps

\* A player is marked lost by a notice, and the notice was true.
LEMMA PlayerLostKeeps ==
  ASSUME IInv, NEW p \in Conn, PlayerLost(p)
  PROVE  IInv' /\ Releases
<1> DEFINE q == OponentIn(player, games[GameIndex(player, p)], p)
           w == WithoutPlayer(player, players, q)
<1>1. TypeInv' /\ TypeInv /\ Handles("PL_LOST") /\ DiscGrows
  BY PlayerLostType DEF IInv, PlayerLost, HandlesFor, DiscGrows
<1>2. /\ player \in [Conn -> PlayerRec] /\ players \in Seq(1..born)
      /\ commandQueue \in Seq(MessRec \cup LostRec)
  BY <1>1 DEF TypeInv, TypeOK
<1>3. player[p].socket = NoSock /\ p \in 1..born
  <2>1. p = commandQueue[1].player /\ commandQueue[1].header = "PL_LOST" /\ 1 \in DOMAIN commandQueue
    <3>1. commandQueue # <<>> /\ Head(commandQueue).header = "PL_LOST"
          /\ p = Head(commandQueue).player
      BY DEF PlayerLost, HandlesFor, Handles, Command
    <3>2. Head(commandQueue) = commandQueue[1] /\ 1 \in 1..Len(commandQueue)
      BY <1>2, <3>1, EmptySeq
    <3> QED BY <1>2, <3>1, <3>2, LenProperties
  <2> QED BY <2>1 DEF NoticeIsTrue, Connected, IInv
<1>6. UNCHANGED players \/ players' = WithoutPlayer(player, w, p)
  BY <1>1, PlayerLostSets
<1>10. /\ \A r \in Conn : /\ player'[r].name = player[r].name
                          /\ player'[r].socket = player[r].socket
                          /\ player'[r].lost = player[r].lost \/ r = p
                          /\ player'[r].bullshitMessages = player[r].bullshitMessages
       /\ player'[p].lost
  <2> DEFINE marked == [player EXCEPT ![p].lost = TRUE]
  <2>1. /\ marked[p].lost
        /\ \A r \in Conn : /\ marked[r].name = player[r].name
                           /\ marked[r].socket = player[r].socket
                           /\ marked[r].lost = player[r].lost \/ r = p
                           /\ marked[r].bullshitMessages = player[r].bullshitMessages
        /\ Sets(player', marked, {}, FALSE) \/ Sets(player', marked, {p, q}, FALSE)
    BY <1>1, PlayerLostSets
  <2> HIDE DEF marked, q
  <2> QED BY <2>1 DEF Sets, Keeps
<1>11. Thins(players', players)
  <2>1. w \in Seq(1..born) /\ Thins(w, players)
    BY <1>2, WithoutPlayerType, WithoutPlayerThins
  <2> HIDE DEF w
  <2>2. Thins(WithoutPlayer(player, w, p), w)
    BY <2>1, WithoutPlayerThins
  <2> QED BY <1>6, <2>1, <2>2, ThinsTransitive, ThinsItself
<1>12. ListedOnce' /\ NamesUnique'
  BY <1>1, <1>10, <1>11, NamesKept DEF IInv
<1>13. LostHasNoSocket'
  BY <1>3, <1>10 DEF LostHasNoSocket, Connected, IInv
<1>14. NoticeIsTrue'
  <2> SUFFICES ASSUME NEW i \in DOMAIN commandQueue', commandQueue'[i].header = "PL_LOST"
               PROVE  /\ commandQueue'[i].player \in 1..born
                      /\ player'[commandQueue'[i].player].socket = NoSock
    BY <1>1, HandlesQueue DEF NoticeIsTrue, Connected
  <2>1. PICK j \in DOMAIN commandQueue : commandQueue'[i] = commandQueue[j]
    BY <1>1, HandlesQueue
  <2>2. commandQueue[j].player \in 1..born /\ player[commandQueue[j].player].socket = NoSock
    BY <2>1 DEF NoticeIsTrue, Connected, IInv
  <2>3. 1..born \subseteq Conn
    BY <1>1, ConnectionsAssumption DEF TypeInv, TypeOK, Conn
  <2> QED BY <1>10, <2>1, <2>2, <2>3
<1>15. UnbornNotLost'
  <2>1. born \in Nat /\ born' = born
    BY <1>1, HandlesQueue DEF TypeInv, TypeOK
  <2>2. ~ (p > born)
    BY <1>3, <2>1
  <2> QED BY <1>10, <2>1, <2>2 DEF UnbornNotLost, IInv
<1>16. Holds' \subseteq Holds
  BY <1>10, <1>11, FewerHold
<1>17. Lost \subseteq Lost'
  BY <1>10 DEF Lost
<1>18. NoisyIsLeaving'
  BY <1>1, <1>10, NoisyKept DEF IInv
<1> QED BY <1>1, <1>12, <1>13, <1>14, <1>15, <1>16, <1>17, <1>18 DEF IInv, Releases

\* The entry a reconnection erases is one that has the copied name, so one
\* entry with it is left, whichever of the two objects that is.
LEMMA ReconnectionKeeps ==
  ASSUME IInv, NEW p \in Conn, Reconnection(p)
  PROVE  IInv' /\ (Releases \/ \E n \in Name, old \in Conn : Registry!TakeOver(n, p, old))
<1> DEFINE n == Command.arg
           old == getPlayerByName(n)
           renamed == [player EXCEPT ![p].name = Command.arg,
                                     ![p].availible = FALSE,
                                     ![p].inGame = TRUE]
<1>1. TypeInv' /\ TypeInv /\ Handles("PL_RECONN") /\ DiscGrows
  BY ReconnectionType DEF IInv, Reconnection, HandlesFor, DiscGrows
<1>2. /\ player \in [Conn -> PlayerRec] /\ players \in Seq(1..born)
      /\ DOMAIN players = 1..Len(players)
      /\ \A i \in 1..Len(players) : players[i] \in Conn
  <2>1. player \in [Conn -> PlayerRec] /\ players \in Seq(1..born) /\ 1..born \subseteq Conn
    BY <1>1, ConnectionsAssumption DEF TypeInv, TypeOK, Conn
  <2> QED BY <2>1, LenProperties, ElementOfSeq
<1>3. \/ UNCHANGED <<player, players>>
      \/ /\ old # NoConn /\ player[old].lost
         /\ player' = renamed /\ players' = WithoutPlayer(renamed, players, old)
  BY Zenon DEF Reconnection
<1>4. CASE UNCHANGED <<player, players>>
  BY <1>1, <1>4, ReadOnlyKeeps
<1>5. CASE /\ old # NoConn /\ player[old].lost
           /\ player' = renamed /\ players' = WithoutPlayer(renamed, players, old)
  <2>1. /\ renamed[p].name = n
        /\ \A r \in Conn : r # p => renamed[r].name = player[r].name
        /\ \A r \in Conn : /\ renamed[r].socket = player[r].socket
                           /\ renamed[r].lost = player[r].lost
                           /\ renamed[r].bullshitMessages = player[r].bullshitMessages
    <3>1. n \in Name \cup {NoName}
      BY <1>1, HandlesType
    <3>2. \A r \in Conn : /\ renamed[r].name = IF r = p THEN n ELSE player[r].name
                          /\ renamed[r].socket = player[r].socket
                          /\ renamed[r].lost = player[r].lost
                          /\ renamed[r].bullshitMessages = player[r].bullshitMessages
      BY <1>1, <3>1, RenamedIs
    <3> HIDE DEF renamed, n
    <3> QED BY <3>2
  <2>2. PICK i \in 1..Len(players) : players[i] = old /\ player[old].name = n
    <3> DEFINE i == IndexByName(player, players, n)
    <3>1. i \in 0..Len(players) /\ (i # 0 => player[players[i]].name = n)
      BY <1>2, FirstByName
    <3>2. i # 0 /\ old = players[i]
      BY <1>5 DEF getPlayerByName, At
    <3> HIDE DEF i, old
    <3>3. i \in 1..Len(players)
      BY <3>1, <3>2
    <3> QED BY <3>1, <3>2, <3>3
  <2>3. old \in Conn /\ renamed[old].name = n
    BY <1>2, <2>1, <2>2
  <2> HIDE DEF n, old, renamed
  <2>4. PICK k \in 1..Len(players) :
          renamed[players[k]].name = n /\ players' = RemoveAt(players, k)
    <3> DEFINE k == IndexByName(renamed, players, n)
    <3>1. /\ k \in 0..Len(players)
          /\ k # 0 => renamed[players[k]].name = n
          /\ k = 0 => \A j \in 1..Len(players) : renamed[players[j]].name # n
      <4>1. players \in Seq(1..born)
        BY <1>2
      <4>2. k \in 0..Len(players) /\ (k # 0 => renamed[players[k]].name = n)
        BY <4>1, FirstByName
      <4>3. ASSUME k = 0, NEW j \in 1..Len(players)
            PROVE  renamed[players[j]].name # n
        BY <4>1, <4>3, FirstByName
      <4> QED BY <4>2, <4>3
    <3>2. k # 0
      BY <2>2, <2>3, <3>1
    <3>3. players # <<>>
      BY <1>2, <2>2, EmptySeq
    <3>4. players' = RemoveAt(players, k)
      BY <1>5, <2>3, <3>2, <3>3, Zenon DEF WithoutPlayer
    <3> HIDE DEF k
    <3>5. k \in 1..Len(players)
      BY <3>1, <3>2
    <3> QED BY <3>1, <3>2, <3>4, <3>5
  <2>5. \A x, y \in DOMAIN players' : x # y =>
          \E a, b \in DOMAIN players : /\ a # b /\ a # k /\ b # k
                                       /\ players'[x] = players[a] /\ players'[y] = players[b]
    BY <1>2, <2>4, RemoveAtThins
  <2>6. ListedOnce'
    <3> SUFFICES ASSUME NEW x \in DOMAIN players', NEW y \in DOMAIN players', x # y
                 PROVE  players'[x] # players'[y]
      BY DEF ListedOnce
    <3> QED BY <2>5 DEF ListedOnce, IInv
  <2>7. NamesUnique'
    <3> SUFFICES ASSUME NEW x \in DOMAIN players', NEW y \in DOMAIN players', x # y,
                        renamed[players'[x]].name = renamed[players'[y]].name
                 PROVE  renamed[players'[x]].name = NoName
      BY <1>5 DEF NamesUnique
    <3>1. PICK a, b \in DOMAIN players :
            /\ a # b /\ a # k /\ b # k
            /\ players'[x] = players[a] /\ players'[y] = players[b]
      BY <2>5, Zenon
    <3>2. /\ players[a] # players[b] /\ players[a] # players[k] /\ players[b] # players[k]
          /\ players[a] \in Conn /\ players[b] \in Conn /\ players[k] \in Conn
      BY <1>2, <2>4, <3>1 DEF ListedOnce, IInv
    <3>3. \A f, g \in DOMAIN players :
            f # g /\ player[players[f]].name = player[players[g]].name
              => player[players[f]].name = NoName
      BY DEF NamesUnique, IInv
    <3>4. CASE players[a] # p /\ players[b] # p
      BY <2>1, <3>1, <3>2, <3>3, <3>4
    <3>5. CASE players[a] = p
      <4>1. player[players[b]].name = n /\ player[players[k]].name = n
        BY <2>1, <2>4, <3>1, <3>2, <3>5
      <4> QED BY <1>2, <2>1, <3>1, <3>3, <3>5, <4>1
    <3>6. CASE players[b] = p
      <4>1. player[players[a]].name = n /\ player[players[k]].name = n
        BY <2>1, <2>4, <3>1, <3>2, <3>6
      <4> QED BY <1>2, <2>1, <3>1, <3>2, <3>3, <3>6, <4>1
    <3> QED BY <3>4, <3>5, <3>6
  <2>8. NoticeIsTrue' /\ LostHasNoSocket' /\ UnbornNotLost' /\ Lost' = Lost
    BY <1>1, <1>5, <2>1, HandlesQueue, LossKept DEF IInv
  <2>9. NoisyIsLeaving'
    BY <1>1, <1>5, <2>1, NoisyKept DEF IInv
  <2>10. \A r \in ToSet(players') : \E a \in DOMAIN players : a # k /\ players[a] = r
    <3> SUFFICES ASSUME NEW x \in DOMAIN players'
                 PROVE  \E a \in DOMAIN players : a # k /\ players[a] = players'[x]
      BY DEF ToSet
    <3>1. /\ players' \in Seq(1..born) /\ Len(players') = Len(players) - 1 /\ Len(players) \in Nat
          /\ \A j \in 1..(Len(players) - 1) :
               players'[j] = IF j < k THEN players[j] ELSE players[j + 1]
      BY <1>2, <2>4, RemoveAtProperties, LenProperties
    <3>2. x \in 1..(Len(players) - 1)
      BY <3>1, LenProperties
    <3>3. CASE x < k
      BY <1>2, <3>1, <3>2, <3>3
    <3>4. CASE ~ (x < k)
      <4>1. x + 1 \in DOMAIN players /\ x + 1 # k /\ players[x + 1] = players'[x]
        BY <1>2, <3>1, <3>2, <3>4
      <4> QED BY <4>1
    <3> QED BY <3>3, <3>4
  <2>11. \A r \in ToSet(players') : r \in Listing /\ r # players[k]
    BY <1>2, <2>10 DEF Listing, ToSet, ListedOnce, IInv
  <2>12. /\ old \in Lost /\ old \in Listing
         /\ n \in Name => <<n, old>> \in Holds
    BY <1>2, <1>5, <2>2, <2>3 DEF Lost, Listing, ToSet, Holds
  <2>13. n \in Name => players[k] \in {p, old}
    <3>1. players[k] # p => player[players[k]].name = n
      BY <1>2, <2>1, <2>4
    <3> QED BY <1>2, <2>2, <2>4, <3>1, NameAssumption DEF NamesUnique, IInv
  <2>14. CASE n \notin Name
    <3>1. Holds' \subseteq Holds
      BY <1>5, <2>1, <2>11, <2>14 DEF Holds, Listing
    <3> QED BY <1>1, <2>6, <2>7, <2>8, <2>9, <3>1 DEF IInv, Releases
  <2>15. CASE n \in Name
    <3>1. \/ Holds' \subseteq (Registry!HeldByOthers(p) \ {<<n, old>>}) \cup {<<n, p>>}
          \/ Holds' \subseteq Registry!HeldByOthers(p)
      BY <1>5, <2>1, <2>11, <2>13 DEF Holds, Listing, Registry!HeldByOthers
    <3>2. Registry!TakeOver(n, p, old)
      BY <2>8, <2>12, <2>15, <3>1 DEF Registry!TakeOver
    <3> QED BY <1>1, <2>3, <2>6, <2>7, <2>8, <2>9, <2>15, <3>2 DEF IInv
  <2> QED BY <2>14, <2>15
<1> QED BY <1>3, <1>4, <1>5

-----------------------------------------------------------------------------

\* IInv is inductive, and what a step does to the names NameRegistry allows:
\* the case analysis over the actions of the threads.
LEMMA IStep == IInv /\ [Next]_vars => IInv' /\ [Registry!Next]_(Registry!vars)
<1> SUFFICES ASSUME IInv, [Next]_vars
             PROVE  IInv' /\ (Registry!Next \/ UNCHANGED Registry!vars)
  OBVIOUS
<1>1. TypeInv'
  BY TypeStep DEF IInv
<1>2. CASE Accept
  BY <1>2, AcceptKeeps DEF Releases, Registry!Next, Registry!Release
<1>3. CASE Receive \/ ClientGone \/ LookUp
  <2>1. DiscGrows
    BY <1>3, BeginGrows
       DEF IInv, Receive, ClientGone, LookUp, ServerReady, DiscGrows, Thread
  <2>2. IInv' /\ Releases
    BY <1>1, <1>3, <2>1, IdleKeeps DEF Receive, ClientGone, LookUp
  <2> QED BY <2>2 DEF Releases, Registry!Next, Registry!Release
<1>4. CASE Register
  BY <1>4, RegisterKeeps DEF Releases, Registry!Next, Registry!Release
<1>5. CASE Unreadable
  BY <1>5, UnreadableKeeps DEF Releases, Registry!Next, Registry!Release
<1>6. ASSUME NEW t \in Thread, DisconnectEnd(t)
      PROVE  IInv' /\ Registry!Next
  BY <1>6, DisconnectEndKeeps DEF Releases, Registry!Next, Registry!Release
<1>7. CASE NullPlayer
  <2>1. IInv' /\ Releases
    BY <1>1, <1>7, ReadOnlyKeeps DEF NullPlayer, Crashes, DiscGrows
  <2> QED BY <2>1 DEF Releases, Registry!Next, Registry!Release
<1>8. ASSUME NEW p \in Conn, ListRequest(p) \/ Logout(p) \/ NullAsking(p) \/ NullGame(p)
      PROVE  IInv' /\ Registry!Next
  <2>1. DiscGrows
    <3>1. CASE ListRequest(p) \/ NullAsking(p) \/ NullGame(p)
      BY <3>1 DEF ListRequest, NullAsking, NullGame, Crashes, DiscGrows
    <3>2. CASE Logout(p)
      BY <3>2, BeginGrows DEF IInv, Logout, HandlesFor, Handles, Thread
    <3> QED BY <1>8, <3>1, <3>2
  <2>2. IInv' /\ Releases
    BY <1>1, <1>8, <2>1, ReadOnlyKeeps
       DEF ListRequest, Logout, NullAsking, NullGame, Crashes, HandlesFor
  <2> QED BY <2>2 DEF Releases, Registry!Next, Registry!Release
<1>9. ASSUME NEW p \in Conn,
             \/ Joining(p) \/ AcceptJoin(p) \/ DeclineJoin(p) \/ GameMove(p) \/ GameEnding(p)
             \/ PlayerLost(p)
      PROVE  IInv' /\ Registry!Next
  <2>1. IInv' /\ Releases
    BY <1>9, JoiningKeeps, AcceptJoinKeeps, DeclineJoinKeeps, GameMoveKeeps, GameEndingKeeps,
       PlayerLostKeeps
  <2> QED BY <2>1 DEF Releases, Registry!Next, Registry!Release
<1>10. ASSUME NEW p \in Conn, NewPlayerConnection(p) \/ Reconnection(p)
       PROVE  IInv' /\ Registry!Next
  <2>1. /\ IInv'
        /\ \/ Releases
           \/ \E n \in Name : Registry!Take(n, p)
           \/ \E n \in Name, old \in Conn : Registry!TakeOver(n, p, old)
    BY <1>10, NewPlayerConnectionKeeps, ReconnectionKeeps
  <2> QED BY <2>1 DEF Releases, Registry!Next, Registry!Release
<1>11. CASE UNCHANGED vars
  <2>1. IInv'
    BY <1>1, <1>11, IdleKeeps DEF vars, DiscGrows
  <2>2. UNCHANGED Registry!vars
    BY <1>11 DEF vars, Registry!vars, Holds, Lost, Listing
  <2> QED BY <2>1, <2>2
<1>12. "server" \in Thread /\ "pm" \in Thread /\ "cm" \in Thread
  BY DEF Thread
<1> QED BY <1>2, <1>3, <1>4, <1>5, <1>6, <1>7, <1>8, <1>9, <1>10, <1>11, <1>12
        DEF Next, ServerNext, PacketManagerNext, CommandManagerNext

\* Two listed players never share a user name, whatever clients send and
\* however the threads interleave.
THEOREM NamesAreUnique == Spec => []NamesUnique
<1>1. IInv => NamesUnique
  BY DEF IInv
<1> QED BY <1>1, IInit, IStep, PTL DEF Spec

\* A player marked lost has no descriptor: a reconnection never takes over an
\* object whose client is still connected.
THEOREM LostIsDisconnected == Spec => []LostHasNoSocket
<1>1. IInv => LostHasNoSocket
  BY DEF IInv
<1> QED BY <1>1, IInit, IStep, PTL DEF Spec

\* Whoever sent too much that is unreadable is cut off, or PacketManager is
\* about to do it, whatever other disconnections happen meanwhile.
THEOREM NoisyAreDropped == Spec => []NoisyIsDropped
<1>1. IInv => NoisyIsDropped
  <2> SUFFICES ASSUME IInv, NEW p \in Listing
               PROVE  p \in Conn
    BY DEF IInv, NoisyIsLeaving, NoisyIsDropped
  <2>1. players \in Seq(1..born) /\ 1..born \subseteq Conn
    BY ConnectionsAssumption DEF IInv, TypeInv, TypeOK, Conn
  <2> QED BY <2>1, LenProperties, ElementOfSeq DEF Listing, ToSet
<1> QED BY <1>1, IInit, IStep, PTL DEF Spec

\* The server implements the abstract registry of user names: a name passes to
\* a connection only when nobody holds it or its holder is lost.
THEOREM ImplementsNameRegistry == Spec => IsNameRegistry
<1>1. Init => Registry!Init
  BY EmptySeq DEF Init, Registry!Init, Holds, Lost, Listing, ToSet, NewPlayer
<1> QED BY <1>1, IInit, IStep, PTL DEF Spec, IsNameRegistry, Registry!Spec

-----------------------------------------------------------------------------
(* Which steps can change what: a proof about one field looks only at them. *)

\* A registration gives a name, or nothing.
LEMMA NamedIs ==
  ASSUME TypeInv, NEW p \in Conn, NewPlayerConnection(p)
  PROVE  \A r \in Conn :
           /\ player'[r].name = player[r].name \/ (r = p /\ player'[r].name = Command.arg)
           /\ player'[r].socket = player[r].socket
           /\ player'[r].lost = player[r].lost
           /\ player'[r].inGame = player[r].inGame
<1> DEFINE a == [player EXCEPT ![p].name = Command.arg]
           b == [a EXCEPT ![p].availible = TRUE]
<1>1. player \in [Conn -> PlayerRec] /\ Command.arg \in Name \cup {NoName}
  BY HandlesType DEF TypeInv, TypeOK, NewPlayerConnection, HandlesFor
<1>2. UNCHANGED player \/ player' = b
  BY Zenon DEF NewPlayerConnection
<1>3. a \in [Conn -> PlayerRec]
  BY <1>1, FieldType
<1>4. \A r \in Conn : /\ a[r].name = IF r = p THEN Command.arg ELSE player[r].name
                      /\ a[r].socket = player[r].socket
                      /\ a[r].lost = player[r].lost
                      /\ a[r].inGame = player[r].inGame
  BY <1>1 DEF PlayerRec
<1> HIDE DEF a
<1>5. Sets(b, a, {}, TRUE)
  BY <1>3, FieldSets
<1>6. \A r \in Conn : /\ b[r].name = IF r = p THEN Command.arg ELSE player[r].name
                      /\ b[r].socket = player[r].socket
                      /\ b[r].lost = player[r].lost
                      /\ b[r].inGame = player[r].inGame
  <2> HIDE DEF b
  <2> QED BY <1>4, <1>5 DEF Sets, Keeps
<1> HIDE DEF b
<1>7. CASE UNCHANGED player
  BY <1>7
<1>8. CASE player' = b
  BY <1>6, <1>8
<1> QED BY <1>2, <1>7, <1>8

\* Counting an unreadable message touches nothing else of the objects.
LEMMA CountedIs ==
  ASSUME TypeInv, Unreadable
  PROVE  \A r \in Conn : /\ player'[r].name = player[r].name
                         /\ player'[r].socket = player[r].socket
                         /\ player'[r].lost = player[r].lost
                         /\ player'[r].inGame = player[r].inGame
<1>1. player \in [Conn -> PlayerRec]
  BY DEF TypeInv, TypeOK
<1>2. CASE UNCHANGED player
  BY <1>2
<1>3. CASE \E p, n : player' = [player EXCEPT ![p].bullshitMessages = n]
  BY <1>1, <1>3 DEF PlayerRec
<1> QED BY <1>2, <1>3 DEF Unreadable

\* The end of a disconnection takes the descriptor of its player.
LEMMA UnpluggedIs ==
  ASSUME TypeInv, NEW t \in Thread, DisconnectEnd(t)
  PROVE  /\ disc[t] \in DiscRec /\ disc[t].player \in Conn
         /\ \A r \in Conn :
              /\ player'[r].name = player[r].name
              /\ player'[r].socket = IF r = disc[t].player THEN NoSock ELSE player[r].socket
              /\ player'[r].lost = player[r].lost
              /\ player'[r].inGame = player[r].inGame
<1> DEFINE d == disc[t]
<1>1. player \in [Conn -> PlayerRec] /\ player' = Unplugged(d) /\ d \in DiscRec
  BY DEF TypeInv, TypeOK, DisconnectEnd
<1> HIDE DEF d
<1>2. d.player \in Conn
  BY <1>1 DEF DiscRec
<1>3. \A r \in Conn :
        /\ player'[r].name = player[r].name
        /\ player'[r].socket = IF r = d.player THEN NoSock ELSE player[r].socket
        /\ player'[r].lost = player[r].lost
        /\ player'[r].inGame = player[r].inGame
  BY <1>1, <1>2 DEF Unplugged, PlayerRec
<1> QED BY <1>1, <1>2, <1>3 DEF d

\* Names are given by registrations and reconnections; descriptors by accept()
\* and taken by the ends of disconnections; marks are set by notices.
LEMMA FieldSteps ==
  ASSUME TypeInv, [Next]_vars
  PROVE  \/ Accept
         \/ /\ \/ \A r \in Conn : player'[r].name = player[r].name
               \/ \E p \in Conn : NewPlayerConnection(p) \/ Reconnection(p)
            /\ \/ \A r \in Conn : player'[r].socket = player[r].socket
               \/ \E t \in Thread : DisconnectEnd(t)
            /\ \/ \A r \in Conn : player'[r].lost = player[r].lost
               \/ \E p \in Conn : PlayerLost(p)
            /\ \/ UNCHANGED games /\ \A r \in Conn : player'[r].inGame = player[r].inGame
               \/ \E p \in Conn : \/ AcceptJoin(p) \/ GameMove(p) \/ GameEnding(p)
                                  \/ PlayerLost(p) \/ Reconnection(p)
<1>1. CASE UNCHANGED <<player, games>>
  BY <1>1
<1>2. CASE Unreadable
  BY <1>2, CountedIs DEF Unreadable
<1>3. ASSUME NEW t \in Thread, DisconnectEnd(t)
      PROVE  /\ UNCHANGED games
             /\ \A r \in Conn : /\ player'[r].name = player[r].name
                                /\ player'[r].lost = player[r].lost
                                /\ player'[r].inGame = player[r].inGame
  BY <1>3, UnpluggedIs DEF DisconnectEnd
<1>4. ASSUME NEW p \in Conn, NewPlayerConnection(p)
      PROVE  /\ UNCHANGED games
             /\ \A r \in Conn : /\ player'[r].socket = player[r].socket
                                /\ player'[r].lost = player[r].lost
                                /\ player'[r].inGame = player[r].inGame
  BY <1>4, NamedIs DEF NewPlayerConnection
<1>5. ASSUME NEW p \in Conn, Joining(p) \/ DeclineJoin(p)
      PROVE  /\ UNCHANGED games
             /\ \A r \in Conn : /\ player'[r].name = player[r].name
                                /\ player'[r].socket = player[r].socket
                                /\ player'[r].lost = player[r].lost
                                /\ player'[r].inGame = player[r].inGame
  <2>1. Sets(player', player, {}, FALSE)
    BY <1>5, JoiningSets, DeclineJoinSets
  <2> QED BY <1>5, <2>1 DEF Sets, Keeps, Joining, DeclineJoin
<1>6. ASSUME NEW p \in Conn, AcceptJoin(p) \/ GameEnding(p) \/ GameMove(p)
      PROVE  \A r \in Conn : /\ player'[r].name = player[r].name
                             /\ player'[r].socket = player[r].socket
                             /\ player'[r].lost = player[r].lost
  <2>1. Keeps(player', player)
    <3>1. CASE AcceptJoin(p)
      BY <3>1, AcceptJoinSets DEF Sets
    <3>2. CASE GameEnding(p)
      BY <3>2, GameEndingSets DEF Sets
    <3>3. CASE GameMove(p)
      <4>1. OponentIn(player, games[GameIndex(player, p)], p) \in Conn /\ player \in [Conn -> PlayerRec]
        BY <3>3, GameType DEF GameMove, TypeInv, TypeOK
      <4>2. Keeps(Freed(p, OponentIn(player, games[GameIndex(player, p)], p)), player)
        BY <4>1, FreedSets DEF Sets
      <4> QED BY <3>3, <4>2, KeepsItself DEF GameMove
    <3> QED BY <1>6, <3>1, <3>2, <3>3
  <2> QED BY <2>1 DEF Keeps
<1>7. ASSUME NEW p \in Conn, PlayerLost(p)
      PROVE  \A r \in Conn : /\ player'[r].name = player[r].name
                             /\ player'[r].socket = player[r].socket
  <2> DEFINE marked == [player EXCEPT ![p].lost = TRUE]
             q == OponentIn(player, games[GameIndex(player, p)], p)
  <2>1. /\ \A r \in Conn : /\ marked[r].name = player[r].name
                           /\ marked[r].socket = player[r].socket
        /\ Sets(player', marked, {}, FALSE) \/ Sets(player', marked, {p, q}, FALSE)
    BY <1>7, PlayerLostSets
  <2> HIDE DEF marked, q
  <2> QED BY <2>1 DEF Sets, Keeps
<1>8. ASSUME NEW p \in Conn, Reconnection(p)
      PROVE  \A r \in Conn : /\ player'[r].socket = player[r].socket
                             /\ player'[r].lost = player[r].lost
  <2> DEFINE renamed == [player EXCEPT ![p].name = Command.arg,
                                       ![p].availible = FALSE,
                                       ![p].inGame = TRUE]
  <2>1. UNCHANGED player \/ player' = renamed
    BY <1>8, Zenon DEF Reconnection
  <2>2. Command.arg \in Name \cup {NoName}
    BY <1>8, HandlesType DEF Reconnection, HandlesFor
  <2>3. \A r \in Conn : /\ renamed[r].socket = player[r].socket
                        /\ renamed[r].lost = player[r].lost
    BY <2>2, RenamedIs
  <2> HIDE DEF renamed
  <2> QED BY <2>1, <2>3
<1>9. CASE Receive \/ ClientGone \/ LookUp \/ Register \/ NullPlayer \/ UNCHANGED vars
  BY <1>1, <1>9 DEF Receive, ClientGone, LookUp, Register, NullPlayer, Crashes, vars
<1>10. ASSUME NEW p \in Conn, ListRequest(p) \/ Logout(p) \/ NullAsking(p) \/ NullGame(p)
       PROVE  UNCHANGED <<player, games>>
  BY <1>10 DEF ListRequest, Logout, NullAsking, NullGame, Crashes
<1>11. "server" \in Thread /\ "pm" \in Thread /\ "cm" \in Thread
  BY DEF Thread
<1>12. CASE \E t \in Thread : DisconnectEnd(t)
  BY <1>3, <1>12
<1>13. CASE \E p \in Conn : NewPlayerConnection(p)
  BY <1>4, <1>13
<1>14. CASE \E p \in Conn : Joining(p) \/ DeclineJoin(p)
  BY <1>5, <1>14
<1>15. CASE \E p \in Conn : AcceptJoin(p) \/ GameEnding(p) \/ GameMove(p)
  BY <1>6, <1>15
<1>16. CASE \E p \in Conn : PlayerLost(p)
  BY <1>7, <1>16
<1>17. CASE \E p \in Conn : Reconnection(p)
  BY <1>8, <1>17
<1>18. CASE \E p \in Conn : ListRequest(p) \/ Logout(p) \/ NullAsking(p) \/ NullGame(p)
  BY <1>1, <1>10, <1>18
<1> QED BY <1>2, <1>9, <1>11, <1>12, <1>13, <1>14, <1>15, <1>16, <1>17, <1>18
        DEF Next, ServerNext, PacketManagerNext, CommandManagerNext

-----------------------------------------------------------------------------
(* Ends of games.                                                          *)

\* CommandManager handles a command, or ends a disconnection.
LEMMA CmStep ==
  ASSUME CommandManagerNext
  PROVE  (\E h : Handles(h)) \/ DisconnectEnd("cm")
<1>1. CASE NullPlayer
  BY <1>1 DEF NullPlayer
<1>2. ASSUME NEW p \in Conn,
             \/ NewPlayerConnection(p) \/ ListRequest(p) \/ Reconnection(p) \/ Joining(p)
             \/ AcceptJoin(p) \/ DeclineJoin(p) \/ GameMove(p) \/ GameEnding(p) \/ Logout(p)
             \/ PlayerLost(p)
      PROVE  \E h : Handles(h)
  BY <1>2 DEF NewPlayerConnection, ListRequest, Reconnection, Joining, AcceptJoin, DeclineJoin,
              GameMove, GameEnding, Logout, PlayerLost, HandlesFor
<1>3. ASSUME NEW p \in Conn, NullAsking(p) \/ NullGame(p)
      PROVE  \E h : Handles(h)
  BY <1>3, Zenon DEF NullAsking, NullGame, HandlesFor
<1> QED BY <1>1, <1>2, <1>3 DEF CommandManagerNext

-----------------------------------------------------------------------------

\* An object has no descriptor before it is constructed: accept() does not
\* overwrite one that is in use.
UnbornNotConnected == \A p \in Conn : p > born => ~Connected(p)

\* No object has one at the start.
LEMMA UnbornInit == Init => UnbornNotConnected
BY DEF Init, UnbornNotConnected, Connected, NewPlayer

\* Every step keeps it: only accept() gives descriptors.
LEMMA UnbornStep ==
  ASSUME TypeInv, UnbornNotConnected, [Next]_vars
  PROVE  UnbornNotConnected'
<1>1. CASE Accept
  <2>1. PICK s \in Sock : player' = [player EXCEPT ![born + 1] = NewPlayer(s)] /\ born' = born + 1
    BY <1>1 DEF Accept
  <2>2. player \in [Conn -> PlayerRec] /\ born \in Nat
    BY ConnectionsAssumption DEF TypeInv, TypeOK
  <2>3. \A p \in Conn : p > born + 1 => p > born /\ player'[p] = player[p]
    BY <2>1, <2>2 DEF Conn
  <2> QED BY <2>1, <2>3 DEF UnbornNotConnected, Connected
<1>2. CASE ~ Accept
  <2>1. \A p \in Conn : player'[p].socket = player[p].socket \/ player'[p].socket = NoSock
    <3>1. \/ \A p \in Conn : player'[p].socket = player[p].socket
          \/ \E t \in Thread : DisconnectEnd(t)
      BY <1>2, FieldSteps
    <3>2. ASSUME NEW t \in Thread, DisconnectEnd(t)
          PROVE  \A p \in Conn : player'[p].socket \in {player[p].socket, NoSock}
      BY <3>2, UnpluggedIs
    <3> QED BY <3>1, <3>2
  <2>2. born' = born
    <3>1. CASE ServerNext
      BY <1>2, <3>1 DEF ServerNext, Receive, ClientGone, DisconnectEnd
    <3>2. CASE PacketManagerNext
      BY <3>2 DEF PacketManagerNext, LookUp, Register, Unreadable, DisconnectEnd
    <3>3. CASE CommandManagerNext
      BY <3>3, CmStep DEF Handles, DisconnectEnd
    <3> QED BY <1>2, <3>1, <3>2, <3>3 DEF Next, vars
  <2> QED BY <2>1, <2>2 DEF UnbornNotConnected, Connected
<1> QED BY <1>1, <1>2

\* The one who takes a command off the queue as its player is that player, and
\* a notice is about somebody who has no descriptor.
LEMMA NoticeHandled ==
  ASSUME IInv, NEW p \in Conn, HandlesFor("PL_LOST", p)
  PROVE  ~Connected(p)
<1>1. commandQueue \in Seq(MessRec \cup LostRec) /\ commandQueue # <<>>
      /\ Head(commandQueue).header = "PL_LOST" /\ p = Head(commandQueue).player
  BY DEF IInv, TypeInv, TypeOK, HandlesFor, Handles, Command
<1>2. Head(commandQueue) = commandQueue[1] /\ 1 \in 1..Len(commandQueue)
  BY <1>1, EmptySeq
<1>3. 1 \in DOMAIN commandQueue
  BY <1>1, <1>2, LenProperties
<1> QED BY <1>1, <1>2, <1>3 DEF IInv, NoticeIsTrue

-----------------------------------------------------------------------------

\* EndIsAnnounced, of one step.
EndStep ==
  \A p \in Conn : player[p].inGame /\ ~player'[p].inGame /\ Connected(p)
    => \/ Handling("PL_LOGOUT") /\ Command.player = p
       \/ Tells(p)'

\* Who leaves a game is the one who asked for it, somebody who is told, or
\* somebody who has no descriptor.
LEMMA EndsAreAnnounced ==
  ASSUME IInv, UnbornNotConnected, [Next]_vars
  PROVE  EndStep
<1> USE DEF IInv
<1> SUFFICES ASSUME NEW r \in Conn, player[r].inGame, ~player'[r].inGame, Connected(r)
             PROVE  \/ Handling("PL_LOGOUT") /\ Command.player = r
                    \/ Tells(r)'
  BY DEF EndStep
<1>1. CASE Accept
  <2>1. PICK s \in Sock : player' = [player EXCEPT ![born + 1] = NewPlayer(s)]
    BY <1>1 DEF Accept
  <2>2. r = born + 1
    BY <2>1 DEF TypeInv, TypeOK
  <2>3. r > born
    BY <2>2, ConnectionsAssumption DEF TypeInv, TypeOK
  <2> QED BY <2>3 DEF UnbornNotConnected
<1>2. ASSUME NEW p \in Conn, AcceptJoin(p)
      PROVE  FALSE
  BY <1>2, AcceptJoinSets DEF Sets
<1>3. ASSUME NEW p \in Conn, GameMove(p)
      PROVE  Tells(r)'
  <2> DEFINE q == OponentIn(player, games[GameIndex(player, p)], p)
  <2>1. q \in Conn /\ player \in [Conn -> PlayerRec]
    BY <1>3, GameType DEF GameMove, TypeInv, TypeOK
  <2>2. \/ UNCHANGED player
        \/ player' = Freed(p, q) /\ out' = <<Msg(p, "GAME_WON", {p}), Msg(q, "GAME_WON", {p})>>
    BY <1>3, Zenon DEF GameMove, Sends
  <2> HIDE DEF q
  <2>3. Sets(Freed(p, q), player, {p, q}, FALSE)
    BY <2>1, FreedSets
  <2>4. /\ r \in {p, q}
        /\ out' = <<Msg(p, "GAME_WON", {p}), Msg(q, "GAME_WON", {p})>>
    BY <2>2, <2>3 DEF Sets
  <2>5. 1 \in DOMAIN out' /\ 2 \in DOMAIN out' /\ out'[1].to = p /\ out'[2].to = q
    BY <2>4 DEF Msg
  <2> QED BY <2>4, <2>5 DEF Tells
<1>4. ASSUME NEW p \in Conn, GameEnding(p)
      PROVE  (Handling("PL_LOGOUT") /\ Command.player = r) \/ Tells(r)'
  <2> DEFINE q == OponentIn(player, games[GameIndex(player, p)], p)
  <2>1. \/ Sets(player', player, {p}, FALSE)
        \/ Sets(player', player, {p, q}, FALSE) /\ out' = EndNotice(p, q)
    BY <1>4, GameEndingSets
  <2> HIDE DEF q
  <2>2. r = p \/ (r = q /\ out' = <<Msg(q, "GAME_ENDED", {})>>)
    BY <2>1 DEF Sets, EndNotice
  <2>3. CASE r = p
    BY <1>4, <2>3 DEF GameEnding, HandlesFor, Handles, Handling
  <2>4. CASE r = q /\ out' = <<Msg(q, "GAME_ENDED", {})>>
    <3>1. 1 \in DOMAIN out' /\ out'[1].to = q
      BY <2>4 DEF Msg
    <3> QED BY <2>4, <3>1 DEF Tells
  <2> QED BY <2>2, <2>3, <2>4
<1>5. ASSUME NEW p \in Conn, PlayerLost(p)
      PROVE  FALSE
  <2> DEFINE q == OponentIn(player, games[GameIndex(player, p)], p)
             marked == [player EXCEPT ![p].lost = TRUE]
  <2>1. /\ q \in Conn
        /\ \A x \in Conn : /\ marked[x].lost = player[x].lost \/ x = p
                           /\ marked[x].inGame = player[x].inGame
        /\ \/ Sets(player', marked, {}, FALSE)
           \/ marked[q].lost /\ Sets(player', marked, {p, q}, FALSE)
    BY <1>5, PlayerLostSets
  <2> HIDE DEF marked, q
  <2>2. r = p \/ (r = q /\ marked[q].lost)
    BY <2>1 DEF Sets
  <2>3. r = p \/ player[r].lost
    BY <2>1, <2>2
  <2>4. ~Connected(p)
    BY <1>5, NoticeHandled DEF PlayerLost
  <2> QED BY <2>3, <2>4 DEF LostHasNoSocket
<1>6. ASSUME NEW p \in Conn, Reconnection(p)
      PROVE  FALSE
  <2> DEFINE renamed == [player EXCEPT ![p].name = Command.arg,
                                       ![p].availible = FALSE,
                                       ![p].inGame = TRUE]
  <2>1. UNCHANGED player \/ player' = renamed
    BY <1>6, Zenon DEF Reconnection
  <2>2. Command.arg \in Name \cup {NoName}
    BY <1>6, HandlesType DEF Reconnection, HandlesFor
  <2>3. \A x \in Conn : renamed[x].inGame = IF x = p THEN TRUE ELSE player[x].inGame
    BY <2>2, RenamedIs
  <2> HIDE DEF renamed
  <2> QED BY <2>1, <2>3
<1> QED BY <1>1, <1>2, <1>3, <1>4, <1>5, <1>6, FieldSteps

\* A connected player who leaves a game without asking for it is told so in
\* the same step, whatever clients send and in whatever order threads run.
THEOREM EndsAnnounced == Spec => EndIsAnnounced
<1>1. IInv /\ UnbornNotConnected /\ [Next]_vars
        => IInv' /\ UnbornNotConnected' /\ [EndStep]_vars
  BY IStep, UnbornStep, EndsAreAnnounced DEF IInv
<1>2. Init => IInv /\ UnbornNotConnected
  BY IInit, UnbornInit
<1>3. [][EndStep]_vars <=> EndIsAnnounced
  BY PTL DEF EndIsAnnounced, EndStep
<1> QED BY <1>1, <1>2, <1>3, PTL DEF Spec
=============================================================================
