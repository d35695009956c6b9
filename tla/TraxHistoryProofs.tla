-------------------------- MODULE TraxHistoryProofs --------------------------
(***************************************************************************)
(* Theorems about TraxHistory: what the code relies on and keeps up until  *)
(* the threads meet in one of the unfortunate orders of Race, for any      *)
(* number of connections, names, descriptors and queued messages.          *)
(*                                                                         *)
(* Each property has a core, a formula without the history variable.  A    *)
(* step that meets none of the races the property names keeps the core,    *)
(* and the history variable only grows.                                    *)
(***************************************************************************)
EXTENDS TraxHistory, TraxServerProofs

-----------------------------------------------------------------------------
(* What the steps do to the vector, the descriptors and the queue.         *)

\* The invariant of TraxServerProofs, of every descriptor and name.
Base == IInv /\ UnbornNotConnected

\* It holds at the start.
LEMMA BaseInit == HInit => Base
BY IInit, UnbornInit DEF HInit, Base

\* The steps of HSpec are steps of Spec.
LEMMA BaseStep == Base /\ [HNext]_HVars => Base' /\ [Next]_vars
<1>1. [HNext]_HVars => [Next]_vars
  BY DEF HNext, HVars
<1>2. Base /\ [Next]_vars => Base'
  BY IStep, UnbornStep DEF Base, IInv
<1> QED BY <1>1, <1>2

\* What has not been met was not met before, and not by this step.
LEMMA NotMet ==
  ASSUME NEW R, HNext, Without(R)'
  PROVE  Without(R) /\ \A r \in R : r \notin Met
BY DEF HNext, Without

\* Types of what the lemmas below speak of.
LEMMA Shapes ==
  ASSUME TypeInv
  PROVE  /\ player \in [Conn -> PlayerRec]
         /\ disc \in [Thread -> DiscRec \cup {NoDisc}]
         /\ born \in Nat /\ 1..born \subseteq Conn
         /\ players \in Seq(1..born) /\ Listing \subseteq 1..born
         /\ Len(players) \in Nat /\ DOMAIN players = 1..Len(players)
         /\ clientSocks \subseteq Sock /\ NoSock \notin Sock
         /\ \A t \in Thread : disc[t] # NoDisc => disc[t].player \in 1..born
         /\ \A t \in Thread : disc[t].player # NoConn => disc[t] # NoDisc
<1>1. /\ player \in [Conn -> PlayerRec] /\ players \in Seq(1..born)
      /\ disc \in [Thread -> DiscRec \cup {NoDisc}] /\ clientSocks \subseteq Sock
      /\ \A t \in Thread : disc[t].player <= born
  BY DEF TypeInv, TypeOK
<1>2. born \in Nat /\ 1..born \subseteq Conn
  BY ConnectionsAssumption DEF TypeInv, TypeOK, Conn
<1>3. Len(players) \in Nat /\ DOMAIN players = 1..Len(players)
  BY <1>1, LenProperties
<1>4. Listing \subseteq 1..born
  BY <1>1, <1>3, ElementOfSeq DEF Listing, ToSet
<1>5. NoSock \notin Sock
  BY SockAssumption DEF NoSock
<1>6. \A t \in Thread : disc[t] # NoDisc => disc[t].player \in 1..born
  BY <1>1, <1>2 DEF DiscRec, Conn
<1>7. \A t \in Thread : disc[t].player # NoConn => disc[t] # NoDisc
  BY DEF NoDisc
<1> QED BY <1>1, <1>2, <1>3, <1>4, <1>5, <1>6, <1>7

\* Begun is the first half of a disconnection, in whichever thread.
Begun(t, s) ==
  /\ DisconnectBegin(t, s)
  /\ disc[t] = NoDisc
  /\ UNCHANGED <<players, born>>
  /\ \A r \in Conn : player'[r].socket = player[r].socket

\* Every other step leaves descriptors and disconnections alone, and only a
\* handler changes the vector.
Elsewhere ==
  /\ UNCHANGED <<clientSocks, disc, born>>
  /\ \A r \in Conn : player'[r].socket = player[r].socket
  /\ Thins(players', players)
  /\ UNCHANGED players \/ Handled

\* The handlers that erase thin the vector.
LEMMA HandlersErase ==
  ASSUME TypeInv, NEW p \in Conn, GameEnding(p) \/ PlayerLost(p) \/ Reconnection(p)
  PROVE  Thins(players', players)
<1>1. players \in Seq(1..born)
  BY Shapes
<1>2. CASE UNCHANGED players
  BY <1>2, ThinsItself
<1>3. CASE \E objs, q : players' = WithoutPlayer(objs, players, q)
  BY <1>1, <1>3, WithoutPlayerThins
<1>4. CASE \E q : players' = WithoutPlayer(player, WithoutPlayer(player, players, q), p)
  <2>1. PICK q : players' = WithoutPlayer(player, WithoutPlayer(player, players, q), p)
    BY <1>4
  <2> DEFINE w == WithoutPlayer(player, players, q)
  <2>2. w \in Seq(1..born) /\ Thins(w, players)
    BY <1>1, WithoutPlayerType, WithoutPlayerThins
  <2> HIDE DEF w
  <2>3. Thins(WithoutPlayer(player, w, p), w)
    BY <2>2, WithoutPlayerThins
  <2>4. players' = WithoutPlayer(player, w, p)
    BY <2>1 DEF w
  <2> QED BY <2>2, <2>3, <2>4, ThinsTransitive
<1>5. CASE GameEnding(p)
  <2>1. UNCHANGED players \/ \E objs, q : players' = WithoutPlayer(objs, players, q)
    BY <1>5, Zenon DEF GameEnding
  <2> QED BY <1>2, <1>3, <2>1
<1>6. CASE PlayerLost(p)
  <2>1. UNCHANGED players
        \/ \E q : players' = WithoutPlayer(player, WithoutPlayer(player, players, q), p)
    BY <1>6, Zenon DEF PlayerLost
  <2> QED BY <1>2, <1>4, <2>1
<1>7. CASE Reconnection(p)
  <2>1. UNCHANGED players \/ \E objs, q : players' = WithoutPlayer(objs, players, q)
    BY <1>7, Zenon DEF Reconnection
  <2> QED BY <1>2, <1>3, <2>1
<1> QED BY <1>5, <1>6, <1>7

\* The four kinds of step.
LEMMA StepKinds ==
  ASSUME TypeInv, [Next]_vars
  PROVE  \/ Accept
         \/ \E t \in Thread : \E s : Begun(t, s)
         \/ \E t \in Thread : DisconnectEnd(t)
         \/ Elsewhere
<1>1. "server" \in Thread /\ "pm" \in Thread /\ "cm" \in Thread
  BY DEF Thread
<1>2. ASSUME ~Accept, ~\E t \in Thread : DisconnectEnd(t)
      PROVE  \A r \in Conn : player'[r].socket = player[r].socket
  BY <1>2, FieldSteps
<1>3. CASE ClientGone
  BY <1>1, <1>3 DEF ClientGone, Begun, ServerReady
<1>4. CASE Unreadable
  <2> DEFINE s == Head(packetQueue).socket
  <2>1. \/ DisconnectBegin("pm", s)
        \/ UNCHANGED <<clientSocks, disc>>
    BY <1>4, Zenon DEF Unreadable
  <2>2. disc["pm"] = NoDisc /\ UNCHANGED <<players, born>>
    BY <1>4 DEF Unreadable, PmReady
  <2>3. \A r \in Conn : player'[r].socket = player[r].socket
    BY <1>4, CountedIs
  <2> HIDE DEF s
  <2> QED BY <1>1, <2>1, <2>2, <2>3, ThinsItself DEF Begun, Elsewhere
<1>5. ASSUME NEW p \in Conn, Logout(p)
      PROVE  Begun("cm", player[p].socket)
  BY <1>5 DEF Logout, Begun, HandlesFor, Handles
<1>6. ASSUME UNCHANGED <<player, players, clientSocks, disc, born>>
      PROVE  Elsewhere
  BY <1>6, ThinsItself DEF Elsewhere
<1>7. ASSUME NEW h, Handles(h), UNCHANGED <<clientSocks, disc>>, Thins(players', players),
             ~Accept, ~\E t \in Thread : DisconnectEnd(t)
      PROVE  Elsewhere
  BY <1>2, <1>7 DEF Handles, Elsewhere, Handled
<1>8. CASE Receive \/ LookUp \/ Register \/ UNCHANGED vars
  BY <1>6, <1>8 DEF Receive, LookUp, Register, vars
<1>9. CASE NullPlayer \/ \E p \in Conn : ListRequest(p) \/ NullAsking(p) \/ NullGame(p)
  <2>1. UNCHANGED <<player, players, clientSocks, disc>>
    BY <1>9 DEF NullPlayer, ListRequest, NullAsking, NullGame, Crashes
  <2>2. UNCHANGED born
    <3>1. CASE NullPlayer
      BY <3>1 DEF NullPlayer, Handles
    <3>2. CASE \E p \in Conn : ListRequest(p) \/ NullAsking(p) \/ NullGame(p)
      BY <3>2 DEF ListRequest, NullAsking, NullGame, HandlesFor, Handles
    <3> QED BY <1>9, <3>1, <3>2
  <2> QED BY <1>6, <2>1, <2>2
<1>10. ASSUME NEW p \in Conn,
              NewPlayerConnection(p) \/ Joining(p) \/ AcceptJoin(p) \/ DeclineJoin(p) \/ GameMove(p)
       PROVE  (\E h : Handles(h)) /\ UNCHANGED <<clientSocks, disc, players>>
  BY <1>10 DEF NewPlayerConnection, Joining, AcceptJoin, DeclineJoin, GameMove, HandlesFor
<1>11. ASSUME NEW p \in Conn, GameEnding(p) \/ PlayerLost(p) \/ Reconnection(p)
       PROVE  /\ \E h : Handles(h)
              /\ UNCHANGED <<clientSocks, disc>> /\ Thins(players', players)
  <2>1. (\E h : Handles(h)) /\ UNCHANGED <<clientSocks, disc>>
    BY <1>11 DEF GameEnding, PlayerLost, Reconnection, HandlesFor
  <2> QED BY <1>11, <2>1, HandlersErase
<1>12. CASE CommandManagerNext
  <2> SUFFICES ASSUME ~Accept, ~\E t \in Thread : DisconnectEnd(t)
               PROVE  (\E t \in Thread : \E s : Begun(t, s)) \/ Elsewhere
    OBVIOUS
  <2>1. CASE NullPlayer
    BY <1>9, <2>1
  <2>2. ASSUME NEW p \in Conn,
               \/ NewPlayerConnection(p) \/ ListRequest(p) \/ Reconnection(p) \/ Joining(p)
               \/ AcceptJoin(p) \/ DeclineJoin(p) \/ NullAsking(p) \/ GameMove(p) \/ NullGame(p)
               \/ GameEnding(p) \/ Logout(p) \/ PlayerLost(p)
        PROVE  (\E t \in Thread : \E s : Begun(t, s)) \/ Elsewhere
    <3>1. CASE Logout(p)
      BY <1>1, <1>5, <3>1
    <3>2. CASE ListRequest(p) \/ NullAsking(p) \/ NullGame(p)
      BY <1>9, <3>2
    <3>3. CASE NewPlayerConnection(p) \/ Joining(p) \/ AcceptJoin(p) \/ DeclineJoin(p) \/ GameMove(p)
      BY <1>7, <1>10, <3>3, ThinsItself
    <3>4. CASE GameEnding(p) \/ PlayerLost(p) \/ Reconnection(p)
      BY <1>7, <1>11, <3>4
    <3> QED BY <2>2, <3>1, <3>2, <3>3, <3>4
  <2> QED BY <1>1, <1>12, <2>1, <2>2 DEF CommandManagerNext
<1> QED BY <1>1, <1>3, <1>4, <1>8, <1>12 DEF Next, ServerNext, PacketManagerNext

\* What a vector holds after it was thinned, it held before.
LEMMA ThinsHolds ==
  ASSUME Thins(players', players)
  PROVE  Listing' \subseteq Listing
BY DEF Thins, Listing, ToSet

\* The new player joins those listed, and the old ones keep their descriptors.
LEMMA AcceptLists ==
  ASSUME TypeInv, Accept
  PROVE  \E s \in Sock \ clientSocks :
           /\ clientSocks' = clientSocks \cup {s}
           /\ Listing' = Listing \cup {born + 1}
           /\ player'[born + 1] = NewPlayer(s)
           /\ \A r \in Conn \ {born + 1} : player'[r] = player[r]
           /\ \A i \in DOMAIN players : i \in DOMAIN players' /\ players'[i] = players[i]
           /\ born + 1 \in Conn /\ born + 1 \notin 1..born
           /\ UNCHANGED disc
<1>1. PICK s \in Sock \ clientSocks :
        /\ clientSocks' = clientSocks \cup {s}
        /\ player' = [player EXCEPT ![born + 1] = NewPlayer(s)]
  BY DEF Accept
<1>2. /\ player \in [Conn -> PlayerRec] /\ born \in Nat /\ players \in Seq(1..born)
      /\ Len(players) \in Nat /\ DOMAIN players = 1..Len(players)
  BY Shapes
<1>3. born + 1 \in Conn /\ born + 1 \notin 1..born
  BY <1>2, ConnectionsAssumption DEF Accept, Conn
<1>4. player'[born + 1] = NewPlayer(s) /\ \A r \in Conn \ {born + 1} : player'[r] = player[r]
  BY <1>1, <1>2, <1>3
<1>5. players \in Seq(Nat) /\ born + 1 \in Nat /\ players' = Append(players, born + 1)
  BY <1>2, SeqMonotonic DEF Accept
<1>6. /\ players' \in Seq(Nat)
      /\ Len(players') = Len(players) + 1
      /\ \A i \in 1..Len(players) : players'[i] = players[i]
      /\ players'[Len(players) + 1] = born + 1
  BY <1>5, AppendProperties
<1>7. DOMAIN players' = 1..(Len(players) + 1)
  BY <1>6, LenProperties
<1>8. Listing' = Listing \cup {born + 1}
  <2>1. \A x : x \in Listing' => x \in Listing \cup {born + 1}
    <3> SUFFICES ASSUME NEW i \in 1..(Len(players) + 1)
                 PROVE  players'[i] \in Listing \cup {born + 1}
      BY <1>7 DEF Listing, ToSet
    <3>1. i \in 1..Len(players) \/ i = Len(players) + 1
      BY <1>2
    <3> QED BY <1>2, <1>6, <3>1 DEF Listing, ToSet
  <2>2. \A i \in 1..(Len(players) + 1) : players'[i] \in Listing'
    BY <1>7 DEF Listing, ToSet
  <2>3. Len(players) + 1 \in 1..(Len(players) + 1)
        /\ \A i \in 1..Len(players) : i \in 1..(Len(players) + 1)
    BY <1>2
  <2>4. born + 1 \in Listing' /\ \A i \in 1..Len(players) : players[i] \in Listing'
    BY <1>6, <2>2, <2>3
  <2>5. \A x \in Listing : \E i \in 1..Len(players) : x = players[i]
    BY <1>2 DEF Listing, ToSet
  <2> QED BY <2>1, <2>4, <2>5
<1> QED BY <1>1, <1>2, <1>3, <1>4, <1>6, <1>7, <1>8 DEF Accept

\* A disconnection that begins holds a player, unless the process ends; who
\* was leaving still is.
LEMMA BegunLeaves ==
  ASSUME TypeInv, NEW t \in Thread, NEW s, Begun(t, s)
  PROVE  /\ clientSocks' = clientSocks \ {s}
         /\ Listing' = Listing
         /\ \A u \in Thread \ {t} : disc'[u] = disc[u]
         /\ \A p \in Leaving : p # NoConn => p \in Leaving'
         /\ \/ disc'[t] = NoDisc
            \/ Begins(t) /\ disc'[t].player \in Conn /\ disc'[t].player \in Leaving'
         /\ IndexBySocket(s) # 0 => disc'[t].player = players[IndexBySocket(s)]
<1>1. /\ disc \in [Thread -> DiscRec \cup {NoDisc}] /\ 1..born \subseteq Conn
      /\ players \in Seq(1..born) /\ DOMAIN players = 1..Len(players)
  BY Shapes
<1>2. /\ clientSocks' = clientSocks \ {s} /\ Listing' = Listing
      /\ disc[t] = NoDisc /\ disc[t].player = NoConn
  BY DEF Begun, DisconnectBegin, Cleared, Listing, NoDisc
<1>3. CASE IndexBySocket(s) # 0
  <2> DEFINE i == IndexBySocket(s)
             d == [player |-> players[i], index |-> i, inGame |-> player[players[i]].inGame]
  <2>1. disc' = [disc EXCEPT ![t] = d]
    BY <1>3 DEF Begun, DisconnectBegin
  <2>2. players[i] \in Conn
    <3>1. i \in 0..Len(players) /\ Len(players) \in Nat
      BY <1>1, FirstBySocket, LenProperties
    <3>2. i # 0
      BY <1>3
    <3> HIDE DEF i
    <3>3. i \in 1..Len(players)
      BY <3>1, <3>2
    <3>4. players[i] \in 1..born
      BY <1>1, <3>3, ElementOfSeq
    <3> QED BY <1>1, <3>4 DEF i
  <2>3. disc'[t] = d /\ d.player = players[i] /\ \A u \in Thread \ {t} : disc'[u] = disc[u]
    BY <1>1, <2>1
  <2> HIDE DEF d, i
  <2>4. disc'[t] # NoDisc
    BY <2>2, <2>3 DEF NoDisc, NoConn, Conn
  <2>5. \A p \in Leaving : p # NoConn => p \in Leaving'
    BY <1>2, <2>3 DEF Leaving
  <2> QED BY <1>2, <2>2, <2>3, <2>4, <2>5 DEF Begins, Leaving, i
<1>4. CASE IndexBySocket(s) = 0
  <2>1. \/ UNCHANGED disc
        \/ \E p \in 1..born : \E k, b :
             disc' = [disc EXCEPT ![t] = [player |-> p, index |-> k, inGame |-> b]]
    BY <1>4 DEF Begun, DisconnectBegin
  <2>2. CASE UNCHANGED disc
    BY <1>2, <1>4, <2>2 DEF Leaving
  <2>3. ASSUME NEW p \in 1..born, NEW k, NEW b,
               disc' = [disc EXCEPT ![t] = [player |-> p, index |-> k, inGame |-> b]]
        PROVE  /\ \A u \in Thread \ {t} : disc'[u] = disc[u]
               /\ disc'[t] # NoDisc /\ disc'[t].player \in Conn
    BY <1>1, <2>3, ConnectionsAssumption DEF NoDisc, NoConn, Conn
  <2>4. CASE disc'[t] # NoDisc
    BY <1>2, <1>4, <2>1, <2>2, <2>3, <2>4 DEF Leaving, Begins
  <2> QED BY <1>2, <1>4, <2>1, <2>2, <2>3, <2>4
<1> QED BY <1>3, <1>4

\* The end of a disconnection takes the descriptor of the player, who is no
\* longer leaving; nobody joins the vector.
LEMMA EndLeaves ==
  ASSUME TypeInv, NEW t \in Thread, DisconnectEnd(t)
  PROVE  /\ disc[t] # NoDisc /\ disc[t].player \in Conn
         /\ disc'[t] = NoDisc /\ \A u \in Thread \ {t} : disc'[u] = disc[u]
         /\ player'[disc[t].player].socket = NoSock
         /\ \A r \in Conn : r # disc[t].player => player'[r].socket = player[r].socket
         /\ \A p \in Leaving : p # disc[t].player => p \in Leaving'
         /\ Leaving' \subseteq Leaving \cup {NoConn}
         /\ UNCHANGED <<clientSocks, born>>
         /\ Thins(players', players)
         /\ \/ UNCHANGED players
            \/ /\ disc[t].index \in DOMAIN players
               /\ players' = RemoveAt(players, disc[t].index)
            \/ disc[t].index \notin DOMAIN players
<1>1. disc \in [Thread -> DiscRec \cup {NoDisc}] /\ players \in Seq(1..born)
      /\ DOMAIN players = 1..Len(players)
  BY Shapes
<1>2. /\ disc[t] # NoDisc /\ disc' = [disc EXCEPT ![t] = NoDisc]
      /\ UNCHANGED <<clientSocks, born>>
  BY DEF DisconnectEnd
<1>3. disc'[t] = NoDisc /\ \A u \in Thread \ {t} : disc'[u] = disc[u]
  BY <1>1, <1>2
<1>4. \A p \in Leaving : p # disc[t].player => p \in Leaving'
  BY <1>3 DEF Leaving
<1>5. Leaving' \subseteq Leaving \cup {NoConn}
  BY <1>3 DEF Leaving, NoDisc
<1>6. \/ UNCHANGED players
      \/ disc[t].index \in DOMAIN players /\ players' = RemoveAt(players, disc[t].index)
      \/ /\ disc[t].index \notin DOMAIN players
         /\ players # <<>> /\ players' = Front(players)
  <2>1. EraseAt(disc[t].index) \/ UNCHANGED players
    BY DEF DisconnectEnd
  <2>2. ASSUME disc[t].index > Len(players)
        PROVE  disc[t].index \notin DOMAIN players
    <3>1. Len(players) \in Nat /\ DOMAIN players = 1..Len(players)
      BY <1>1, LenProperties
    <3> QED BY <2>2, <3>1
  <2> QED BY <2>1, <2>2 DEF EraseAt, Erased
<1>7. Thins(players', players)
  <2>1. ASSUME disc[t].index \in DOMAIN players
        PROVE  Thins(RemoveAt(players, disc[t].index), players)
    BY <1>1, <2>1, RemoveAtThins
  <2>2. players # <<>> => Thins(Front(players), players)
    BY <1>1, FrontThins
  <2> QED BY <1>6, <2>1, <2>2, ThinsItself
<1>8. /\ disc[t].player \in Conn
      /\ \A r \in Conn : player'[r].socket = IF r = disc[t].player THEN NoSock ELSE player[r].socket
  BY UnpluggedIs
<1> QED BY <1>2, <1>3, <1>4, <1>5, <1>6, <1>7, <1>8

-----------------------------------------------------------------------------
(* Descriptors.                                                            *)

\* The core of DescriptorsOwnedOnce.
OwnedOnce ==
  \A p \in Listing : Connected(p) /\ p \notin Leaving =>
    /\ player[p].socket \in clientSocks
    /\ \A q \in Listing : player[q].socket = player[p].socket => q = p

\* A descriptor that is not reused too early is owned once.
LEMMA OwnedOnceStep ==
  ASSUME TypeInv, [Next]_vars, ~Reuse, OwnedOnce
  PROVE  OwnedOnce'
<1>1. /\ Listing \subseteq 1..born /\ 1..born \subseteq Conn /\ NoSock \notin Sock
      /\ clientSocks \subseteq Sock /\ NoConn \notin Conn
  BY Shapes DEF NoConn, Conn
<1>2. CASE Accept
  <2>1. PICK s \in Sock \ clientSocks :
          /\ clientSocks' = clientSocks \cup {s}
          /\ Listing' = Listing \cup {born + 1}
          /\ player'[born + 1] = NewPlayer(s)
          /\ \A r \in Conn \ {born + 1} : player'[r] = player[r]
          /\ born + 1 \in Conn /\ born + 1 \notin 1..born
          /\ UNCHANGED disc
    BY <1>2, AcceptLists
  <2>2. Leaving' = Leaving /\ player'[born + 1].socket = s
    BY <2>1 DEF Leaving, NewPlayer
  <2>3. \A q \in Listing : player'[q] = player[q] /\ q # born + 1 /\ q \in Conn
    BY <1>1, <2>1
  <2>4. ASSUME NEW q \in Listing PROVE player[q].socket # s
    <3>1. CASE q \in Leaving
      BY <1>1, <2>1, <2>3, <3>1 DEF Reuse
    <3>2. CASE q \notin Leaving
      BY <1>1, <2>1, <3>2 DEF OwnedOnce, Connected
    <3> QED BY <3>1, <3>2
  <2>5. ASSUME NEW p \in Listing, player'[p].socket # NoSock, p \notin Leaving
        PROVE  /\ player'[p].socket \in clientSocks'
               /\ \A q \in Listing' : player'[q].socket = player'[p].socket => q = p
    BY <2>1, <2>2, <2>3, <2>4, <2>5 DEF OwnedOnce, Connected
  <2>6. /\ s \in clientSocks'
        /\ \A q \in Listing' : player'[q].socket = s => q = born + 1
    BY <2>1, <2>3, <2>4
  <2> QED BY <2>1, <2>2, <2>5, <2>6 DEF OwnedOnce, Connected
<1>3. ASSUME NEW t \in Thread, NEW s, Begun(t, s)
      PROVE  OwnedOnce'
  <2> SUFFICES ASSUME NEW p \in Listing', player'[p].socket # NoSock, p \notin Leaving'
               PROVE  /\ player'[p].socket \in clientSocks'
                      /\ \A q \in Listing' : player'[q].socket = player'[p].socket => q = p
    BY DEF OwnedOnce, Connected
  <2>1. Listing' = Listing /\ clientSocks' = clientSocks \ {s} /\ p \in Conn /\ p # NoConn
        /\ \A r \in Conn : player'[r].socket = player[r].socket
    BY <1>1, <1>3, BegunLeaves DEF Begun
  <2>2. p \notin Leaving /\ player[p].socket # NoSock
    BY <1>3, <2>1, BegunLeaves
  <2>3. /\ player[p].socket \in clientSocks
        /\ \A q \in Listing : player[q].socket = player[p].socket => q = p
    BY <2>1, <2>2 DEF OwnedOnce, Connected
  <2>4. ASSUME player[p].socket = s
        PROVE  FALSE
    <3> DEFINE i == IndexBySocket(s)
    <3>1. players \in Seq(1..born) /\ DOMAIN players = 1..Len(players) /\ Len(players) \in Nat
      BY Shapes
    <3>2. PICK j \in 1..Len(players) : p = players[j]
      BY <2>1, <3>1 DEF Listing, ToSet
    <3>3. i \in 0..Len(players) /\ i # 0 /\ player[players[i]].socket = s
      BY <2>2, <2>4, <3>1, <3>2, FirstBySocket
    <3> HIDE DEF i
    <3>4. players[i] \in Listing
      BY <3>1, <3>3 DEF Listing, ToSet
    <3>5. players[i] = p
      BY <2>3, <2>4, <3>3, <3>4
    <3>6. disc'[t].player = p
      BY <1>3, <3>3, <3>5, BegunLeaves DEF i
    <3> QED BY <3>6 DEF Leaving
  <2> QED BY <1>1, <2>1, <2>3, <2>4
<1>4. ASSUME NEW t \in Thread, DisconnectEnd(t)
      PROVE  OwnedOnce'
  <2>1. /\ Listing' \subseteq Listing
        /\ clientSocks' = clientSocks
        /\ \A r \in Conn : player'[r].socket \in {player[r].socket, NoSock}
        /\ \A r \in Listing :
             (player'[r].socket # NoSock /\ r \notin Leaving') => r \notin Leaving
    <3>1. Thins(players', players)
      BY <1>4, EndLeaves
    <3> QED BY <1>1, <1>4, <3>1, EndLeaves, ThinsHolds
  <2> SUFFICES ASSUME NEW p \in Listing', player'[p].socket # NoSock, p \notin Leaving'
               PROVE  /\ player'[p].socket \in clientSocks'
                      /\ \A q \in Listing' : player'[q].socket = player'[p].socket => q = p
    BY DEF OwnedOnce, Connected
  <2> QED BY <1>1, <2>1 DEF OwnedOnce, Connected
<1>5. CASE Elsewhere
  <2>1. Listing' \subseteq Listing
    BY <1>5, ThinsHolds DEF Elsewhere
  <2>2. clientSocks' = clientSocks /\ Leaving' = Leaving
        /\ \A r \in Conn : player'[r].socket = player[r].socket
    BY <1>5 DEF Elsewhere, Leaving
  <2> QED BY <1>1, <2>1, <2>2 DEF OwnedOnce, Connected
<1> QED BY <1>2, <1>3, <1>4, <1>5, StepKinds

\* Until a descriptor is reused too early, that of a listed player is open and
\* his alone: whatever clients send and however the threads interleave.
THEOREM OwnedUntilReuse == HSpec => []DescriptorsOwnedOnce
<1>1. DescriptorsOwnedOnce <=> (Without({"reuse"}) => OwnedOnce)
  BY DEF DescriptorsOwnedOnce, OwnedOnce
<1>2. HInit => DescriptorsOwnedOnce
  BY <1>1 DEF HInit, Init, OwnedOnce, Listing, ToSet
<1>3. Base /\ DescriptorsOwnedOnce /\ [HNext]_HVars => DescriptorsOwnedOnce'
  <2> SUFFICES ASSUME Base, DescriptorsOwnedOnce, [HNext]_HVars, Without({"reuse"})'
               PROVE  OwnedOnce'
    BY DEF DescriptorsOwnedOnce, OwnedOnce
  <2>1. CASE HNext
    <3>1. Without({"reuse"}) /\ "reuse" \notin Met
      BY <2>1, NotMet
    <3>2. ~Reuse
      BY <3>1 DEF Met, Race
    <3> QED BY <1>1, <3>1, <3>2, OwnedOnceStep, BaseStep DEF Base, IInv
  <2>2. CASE UNCHANGED HVars
    BY <2>2 DEF HVars, vars, DescriptorsOwnedOnce, OwnedOnce, Without, Listing, Leaving, Connected
  <2> QED BY <2>1, <2>2
<1> QED BY <1>2, <1>3, BaseInit, BaseStep, PTL DEF HSpec

-----------------------------------------------------------------------------
(* Disconnections one at a time.                                           *)

\* A disconnection that was begun is about a player who still has a
\* descriptor, and no other is under way.
Orderly ==
  /\ \A t \in Thread : disc[t] # NoDisc => Connected(disc[t].player)
  /\ \A t, u \in Thread : disc[t] # NoDisc /\ disc[u] # NoDisc => t = u

\* The index a thread holds is that of the player it holds.
IndexIsRight ==
  \A t \in Thread : disc[t] # NoDisc =>
    disc[t].index \in DOMAIN players /\ players[disc[t].index] = disc[t].player

\* Every descriptor select() watches has a listed player who is not leaving:
\* the core of EveryDescriptorHasPlayer, strengthened.
HolderStays ==
  \A s \in clientSocks : \E p \in Listing : player[p].socket = s /\ p \notin Leaving

\* Nobody is cut off twice while disconnections begin one at a time.
LEMMA OrderlyStep ==
  ASSUME TypeInv, [Next]_vars, ~Overlap, ~Nobody, Orderly
  PROVE  Orderly'
<1>1. /\ 1..born \subseteq Conn
      /\ \A t \in Thread : disc[t] # NoDisc => disc[t].player \in 1..born
  BY Shapes
<1>2. CASE Accept
  <2>1. UNCHANGED disc /\ \A r \in 1..born : player'[r] = player[r]
    BY <1>1, <1>2, AcceptLists
  <2> QED BY <1>1, <2>1 DEF Orderly, Connected
<1>3. ASSUME NEW t \in Thread, NEW s, Begun(t, s)
      PROVE  Orderly'
  <2>1. /\ \A u \in Thread \ {t} : disc'[u] = disc[u]
        /\ disc[t] = NoDisc
        /\ disc'[t] = NoDisc \/ (Begins(t) /\ disc'[t].player \in Conn)
        /\ \A r \in Conn : player'[r].socket = player[r].socket
    BY <1>3, BegunLeaves DEF Begun
  <2>2. CASE disc'[t] = NoDisc
    BY <1>1, <2>1, <2>2 DEF Orderly, Connected
  <2>3. CASE Begins(t) /\ disc'[t].player \in Conn
    <3>1. \A u \in Thread \ {t} : disc'[u] = NoDisc
      BY <2>1, <2>3 DEF Overlap
    <3>2. Connected(disc'[t].player)
      BY <2>3 DEF Nobody
    <3> QED BY <2>1, <2>3, <3>1, <3>2 DEF Orderly, Connected
  <2> QED BY <2>1, <2>2, <2>3
<1>4. ASSUME NEW t \in Thread, DisconnectEnd(t)
      PROVE  Orderly'
  <2>1. disc[t] # NoDisc /\ disc'[t] = NoDisc /\ \A u \in Thread \ {t} : disc'[u] = disc[u]
    BY <1>4, EndLeaves
  <2>2. \A u \in Thread : disc'[u] = NoDisc
    BY <2>1 DEF Orderly
  <2> QED BY <2>2 DEF Orderly
<1>5. CASE Elsewhere
  BY <1>1, <1>5 DEF Elsewhere, Orderly, Connected
<1> QED BY <1>2, <1>3, <1>4, <1>5, StepKinds

\* The index stays right while, moreover, no handler erases entries.
LEMMA IndexStep ==
  ASSUME TypeInv, [Next]_vars, ~Nobody, ~Erasure, Orderly, IndexIsRight
  PROVE  IndexIsRight'
<1>1. CASE Accept
  BY <1>1, AcceptLists DEF IndexIsRight
<1>2. ASSUME NEW t \in Thread, NEW s, Begun(t, s)
      PROVE  IndexIsRight'
  <2>1. /\ \A u \in Thread \ {t} : disc'[u] = disc[u]
        /\ disc'[t] = NoDisc \/ Begins(t)
        /\ UNCHANGED players
    BY <1>2, BegunLeaves DEF Begun
  <2>2. Begins(t) => disc'[t].index \in DOMAIN players /\ players[disc'[t].index] = disc'[t].player
    BY DEF Nobody
  <2> QED BY <2>1, <2>2 DEF IndexIsRight
<1>3. ASSUME NEW t \in Thread, DisconnectEnd(t)
      PROVE  IndexIsRight'
  <2>1. disc[t] # NoDisc /\ disc'[t] = NoDisc /\ \A u \in Thread \ {t} : disc'[u] = disc[u]
    BY <1>3, EndLeaves
  <2>2. \A u \in Thread : disc'[u] = NoDisc
    BY <2>1 DEF Orderly
  <2> QED BY <2>2 DEF IndexIsRight
<1>4. CASE Elsewhere
  <2>1. disc' = disc /\ (UNCHANGED players \/ Handled)
    BY <1>4 DEF Elsewhere
  <2>2. UNCHANGED players \/ \A t \in Thread : disc[t] = NoDisc
    BY <2>1 DEF Erasure
  <2> QED BY <2>1, <2>2 DEF IndexIsRight
<1> QED BY <1>1, <1>2, <1>3, <1>4, StepKinds

\* Erasing one entry keeps the others.
LEMMA OthersStay ==
  ASSUME TypeInv, NEW i \in DOMAIN players, players' = RemoveAt(players, i),
         NEW p \in Listing, p # players[i]
  PROVE  p \in Listing'
<1>1. players \in Seq(1..born) /\ Len(players) \in Nat /\ DOMAIN players = 1..Len(players)
  BY Shapes
<1>2. PICK j \in 1..Len(players) : p = players[j]
  BY <1>1 DEF Listing, ToSet
<1>3. /\ players' \in Seq(1..born)
      /\ Len(players') = Len(players) - 1
      /\ \A k \in 1..(Len(players) - 1) :
           players'[k] = IF k < i THEN players[k] ELSE players[k + 1]
  BY <1>1, RemoveAtProperties
<1>4. DOMAIN players' = 1..(Len(players) - 1)
  BY <1>3, LenProperties
<1>5. CASE j < i
  BY <1>1, <1>2, <1>3, <1>4, <1>5, SMTT(30) DEF Listing, ToSet
<1>6. CASE j > i
  <2>1. j - 1 \in 1..(Len(players) - 1) /\ ~(j - 1 < i) /\ (j - 1) + 1 = j
    BY <1>1, <1>6
  <2>2. players'[j - 1] = p
    BY <1>2, <1>3, <2>1
  <2> QED BY <1>4, <2>1, <2>2 DEF Listing, ToSet
<1> QED BY <1>1, <1>2, <1>5, <1>6

\* No descriptor loses its player: who is erased is who left.
LEMMA HolderStep ==
  ASSUME TypeInv, [Next]_vars, ~Nobody, ~Erasure, IndexIsRight, HolderStays
  PROVE  HolderStays'
<1>1. /\ Listing \subseteq 1..born /\ 1..born \subseteq Conn /\ NoSock \notin Sock
      /\ clientSocks \subseteq Sock
      /\ \A t \in Thread : disc[t] # NoDisc => disc[t].player \in 1..born
      /\ NoConn \notin Conn
  BY Shapes DEF NoConn, Conn
<1>2. CASE Accept
  <2>1. PICK s \in Sock \ clientSocks :
          /\ clientSocks' = clientSocks \cup {s}
          /\ Listing' = Listing \cup {born + 1}
          /\ player'[born + 1] = NewPlayer(s)
          /\ \A r \in Conn \ {born + 1} : player'[r] = player[r]
          /\ born + 1 \in Conn /\ born + 1 \notin 1..born
          /\ UNCHANGED disc
    BY <1>2, AcceptLists
  <2>2. Leaving' = Leaving /\ player'[born + 1].socket = s
    BY <2>1 DEF Leaving, NewPlayer
  <2>3. born + 1 \notin Leaving
    BY <1>1, <2>1 DEF Leaving, NoDisc
  <2>4. \A q \in Listing : player'[q] = player[q]
    BY <1>1, <2>1
  <2> QED BY <2>1, <2>2, <2>3, <2>4 DEF HolderStays
<1>3. ASSUME NEW t \in Thread, NEW s, Begun(t, s)
      PROVE  HolderStays'
  <2>1. /\ clientSocks' = clientSocks \ {s} /\ Listing' = Listing
        /\ \A r \in Conn : player'[r].socket = player[r].socket
        /\ \A u \in Thread \ {t} : disc'[u] = disc[u]
        /\ disc'[t] = NoDisc \/ Begins(t)
    BY <1>3, BegunLeaves DEF Begun
  <2>2. Begins(t) => player[disc'[t].player].socket \notin clientSocks'
    BY DEF Nobody
  <2> SUFFICES ASSUME NEW r \in clientSocks'
               PROVE  \E p \in Listing : player[p].socket = r /\ p \notin Leaving'
    BY <1>1, <2>1 DEF HolderStays
  <2>3. PICK p \in Listing : player[p].socket = r /\ p \notin Leaving
    BY <2>1 DEF HolderStays
  <2>4. disc'[t].player # p
    BY <1>1, <2>1, <2>2, <2>3 DEF NoDisc
  <2> QED BY <2>1, <2>3, <2>4 DEF Leaving
<1>4. ASSUME NEW t \in Thread, DisconnectEnd(t)
      PROVE  HolderStays'
  <2>1. /\ disc[t] # NoDisc /\ disc[t].player \in Conn /\ UNCHANGED clientSocks
        /\ \A r \in Conn : r # disc[t].player => player'[r].socket = player[r].socket
        /\ Leaving' \subseteq Leaving \cup {NoConn}
        /\ \/ UNCHANGED players
           \/ /\ disc[t].index \in DOMAIN players
              /\ players' = RemoveAt(players, disc[t].index)
           \/ disc[t].index \notin DOMAIN players
    BY <1>4, EndLeaves
  <2>2. disc[t].index \in DOMAIN players /\ players[disc[t].index] = disc[t].player
    BY <2>1 DEF IndexIsRight
  <2> SUFFICES ASSUME NEW s \in clientSocks
               PROVE  \E p \in Listing' : player'[p].socket = s /\ p \notin Leaving'
    BY <2>1 DEF HolderStays
  <2>3. PICK p \in Listing : player[p].socket = s /\ p \notin Leaving
    BY DEF HolderStays
  <2>4. p # disc[t].player /\ p \in Conn
    BY <1>1, <2>3 DEF Leaving
  <2>5. p \in Listing'
    BY <2>1, <2>2, <2>4, OthersStay DEF Listing
  <2> QED BY <1>1, <2>1, <2>3, <2>4, <2>5
<1>5. CASE Elsewhere
  <2>1. /\ clientSocks' = clientSocks /\ Leaving' = Leaving
        /\ \A r \in Conn : player'[r].socket = player[r].socket
        /\ UNCHANGED players \/ Handled
    BY <1>5 DEF Elsewhere, Leaving
  <2>2. \A p \in Listing \ Listing' : ~Connected(p)
    BY <2>1 DEF Erasure, Listing
  <2>3. \A p \in Listing : player[p].socket \in clientSocks => p \in Listing'
    BY <1>1, <2>2 DEF Connected
  <2> QED BY <1>1, <2>1, <2>3 DEF HolderStays
<1> QED BY <1>2, <1>3, <1>4, <1>5, StepKinds

\* What holds while disconnections are orderly, and while erasures are.
Order   == Without({"overlap", "nobody"}) => Orderly
Holding == Without({"overlap", "nobody", "erasure"}) => IndexIsRight /\ HolderStays

\* Order is kept.
LEMMA OrderStep == Base /\ Order /\ [HNext]_HVars => Order'
<1> SUFFICES ASSUME Base, Order, [HNext]_HVars, Without({"overlap", "nobody"})'
             PROVE  Orderly'
  BY DEF Order
<1>1. CASE HNext
  <2>1. Without({"overlap", "nobody"}) /\ "overlap" \notin Met /\ "nobody" \notin Met
    BY <1>1, NotMet
  <2>2. ~Overlap /\ ~Nobody
    BY <2>1 DEF Met, Race
  <2> QED BY <2>1, <2>2, OrderlyStep, BaseStep DEF Base, IInv, Order
<1>2. CASE UNCHANGED HVars
  BY <1>2 DEF HVars, vars, Order, Orderly, Without, Connected
<1> QED BY <1>1, <1>2

\* Holding is kept.
LEMMA HoldingStep == Base /\ Order /\ Holding /\ [HNext]_HVars => Holding'
<1> SUFFICES ASSUME Base, Order, Holding, [HNext]_HVars,
                    Without({"overlap", "nobody", "erasure"})'
             PROVE  IndexIsRight' /\ HolderStays'
  BY DEF Holding
<1>1. CASE HNext
  <2>1. Without({"overlap", "nobody", "erasure"}) /\ "nobody" \notin Met /\ "erasure" \notin Met
    BY <1>1, NotMet
  <2>2. ~Nobody /\ ~Erasure
    BY <2>1 DEF Met, Race
  <2>3. Orderly
    BY <2>1 DEF Without, Order
  <2> QED BY <2>1, <2>2, <2>3, IndexStep, HolderStep, BaseStep DEF Base, IInv, Holding
<1>2. CASE UNCHANGED HVars
  BY <1>2 DEF HVars, vars, Holding, IndexIsRight, HolderStays, Without, Listing, Leaving
<1> QED BY <1>1, <1>2

\* Both hold at the start: no thread disconnects anybody.
LEMMA OrderInit == HInit => Order /\ Holding
BY DEF HInit, Init, Order, Holding, Orderly, IndexIsRight, HolderStays

\* Every descriptor that is watched has a listed player until disconnections
\* overlap, miss their player, or a handler erases entries under one.
THEOREM EveryDescriptorIsServed == HSpec => []EveryDescriptorHasPlayer
<1>1. Holding => EveryDescriptorHasPlayer
  BY DEF Holding, HolderStays, EveryDescriptorHasPlayer
<1> QED BY <1>1, OrderInit, OrderStep, HoldingStep, BaseInit, BaseStep, PTL DEF HSpec

-----------------------------------------------------------------------------
(* Notices.                                                                *)

\* What the steps do to the command queue.
LEMMA QueueKinds ==
  ASSUME TypeInv, [Next]_vars
  PROVE  \/ UNCHANGED commandQueue
         \/ Handled
         \/ pmMess \in MessRec /\ commandQueue' = Append(commandQueue, pmMess)
         \/ \E t \in Thread : DisconnectEnd(t) /\ commandQueue' = Noticed(disc[t])
<1>1. "server" \in Thread /\ "pm" \in Thread /\ "cm" \in Thread
  BY DEF Thread
<1>2. CASE \E t \in Thread : DisconnectEnd(t)
  BY <1>2 DEF DisconnectEnd
<1>3. CASE Accept \/ Receive \/ ClientGone \/ LookUp \/ UNCHANGED vars
  BY <1>3 DEF Accept, Receive, ClientGone, LookUp, vars
<1>4. CASE Unreadable
  BY <1>4 DEF Unreadable
<1>5. CASE Register
  BY <1>5 DEF Register, TypeInv, TypeOK
<1>6. CASE CommandManagerNext
  <2>1. (\E h : Handles(h)) \/ DisconnectEnd("cm")
    BY <1>6, CmStep
  <2> QED BY <1>1, <1>2, <2>1 DEF Handles, Handled
<1> QED BY <1>1, <1>2, <1>3, <1>4, <1>5, <1>6 DEF Next, ServerNext, PacketManagerNext

\* The entries of a queue, one place further to the front.
LEMMA TailIs ==
  ASSUME NEW S, NEW q \in Seq(S), q # <<>>
  PROVE  /\ \A i \in DOMAIN Tail(q) :
              i + 1 \in DOMAIN q /\ i + 1 # 1 /\ i \in Nat /\ Tail(q)[i] = q[i + 1]
         /\ 1 \in DOMAIN q /\ Head(q) = q[1]
<1>1. /\ Len(Tail(q)) = Len(q) - 1
      /\ Len(q) \in Nat /\ Len(q) # 0
      /\ DOMAIN q = 1..Len(q)
      /\ DOMAIN Tail(q) = 1..Len(Tail(q))
      /\ \A i \in 1..Len(Tail(q)) : Tail(q)[i] = q[i + 1]
  BY HeadTailProperties, LenProperties, EmptySeq
<1>2. \A i \in DOMAIN Tail(q) : i + 1 \in DOMAIN q /\ i + 1 # 1 /\ i \in Nat
  BY <1>1
<1>3. 1 \in DOMAIN q
  BY <1>1
<1> QED BY <1>1, <1>2, <1>3

\* The entries of a queue stay, and one joins.
LEMMA AppendIs ==
  ASSUME NEW S, NEW q \in Seq(S), NEW m \in S
  PROVE  \E n \in DOMAIN Append(q, m) :
           /\ Append(q, m)[n] = m
           /\ \A i \in DOMAIN Append(q, m) : i # n => i \in DOMAIN q /\ Append(q, m)[i] = q[i]
<1> DEFINE n == Len(q) + 1
           t == Append(q, m)
<1>1. /\ t \in Seq(S)
      /\ Len(t) = Len(q) + 1
      /\ \A i \in 1..Len(q) : t[i] = q[i]
      /\ t[Len(q) + 1] = m
  BY AppendProperties
<1> HIDE DEF t
<1>2. DOMAIN t = 1..Len(t) /\ DOMAIN q = 1..Len(q) /\ Len(q) \in Nat
  BY <1>1, LenProperties
<1>3. n \in DOMAIN t /\ t[n] = m
  BY <1>1, <1>2
<1>4. \A i \in DOMAIN t : i # n => i \in DOMAIN q /\ t[i] = q[i]
  BY <1>1, <1>2
<1> QED BY <1>3, <1>4 DEF t

\* The notice that p was lost.
IsNotice(m, p) == m.header = "PL_LOST" /\ m.player = p

\* The core of OneLossNotice, of the entries.
ToldOnce ==
  \A p \in Conn : \A i \in DOMAIN commandQueue : IsNotice(commandQueue[i], p) =>
    /\ ~player[p].lost
    /\ \A j \in DOMAIN commandQueue : IsNotice(commandQueue[j], p) => i = j

\* A notice is queued about somebody who had a descriptor, and so had none in
\* the queue and was not lost; he is marked when it leaves the queue.
LEMMA ToldOnceStep ==
  ASSUME IInv, [Next]_vars, Orderly, ToldOnce
  PROVE  ToldOnce'
<1>1. /\ TypeInv /\ 1..born \subseteq Conn
      /\ commandQueue \in Seq(MessRec \cup LostRec)
  BY Shapes DEF IInv, TypeInv, TypeOK
<1>2. CASE Accept
  <2>1. commandQueue' = commandQueue /\ \A r \in 1..born : player'[r] = player[r]
    BY <1>1, <1>2, AcceptLists DEF Accept
  <2>2. \A p \in Conn : \A i \in DOMAIN commandQueue : IsNotice(commandQueue[i], p) => p \in 1..born
    BY DEF IInv, NoticeIsTrue, IsNotice
  <2> QED BY <2>1, <2>2 DEF ToldOnce
<1>3. ASSUME Handled,
             \A r \in Conn : player'[r].lost = player[r].lost \/ IsNotice(Command, r)
      PROVE  ToldOnce'
  <2> SUFFICES ASSUME NEW p \in Conn, NEW i \in DOMAIN commandQueue', IsNotice(commandQueue'[i], p)
               PROVE  /\ ~player'[p].lost
                      /\ \A j \in DOMAIN commandQueue' : IsNotice(commandQueue'[j], p) => i = j
    BY DEF ToldOnce
  <2>0. /\ \A j \in DOMAIN commandQueue' :
             /\ j + 1 \in DOMAIN commandQueue /\ j + 1 # 1 /\ j \in Nat
             /\ commandQueue'[j] = commandQueue[j + 1]
        /\ 1 \in DOMAIN commandQueue /\ Command = commandQueue[1]
    BY <1>1, <1>3, TailIs DEF Handled, Command
  <2>1. i + 1 \in DOMAIN commandQueue /\ i + 1 # 1 /\ IsNotice(commandQueue[i + 1], p)
    BY <2>0
  <2>2. ~player[p].lost
    BY <2>1 DEF ToldOnce
  <2>3. ~IsNotice(Command, p)
    BY <2>0, <2>1 DEF ToldOnce
  <2>4. ASSUME NEW j \in DOMAIN commandQueue', IsNotice(commandQueue'[j], p)
        PROVE  i = j
    <3>1. j + 1 \in DOMAIN commandQueue /\ IsNotice(commandQueue[j + 1], p)
      BY <2>0, <2>4
    <3>2. i + 1 = j + 1
      BY <2>1, <3>1 DEF ToldOnce
    <3>3. i \in Nat /\ j \in Nat
      BY <2>0
    <3> QED BY <3>2, <3>3
  <2> QED BY <1>3, <2>2, <2>3, <2>4
<1>4. ASSUME pmMess \in MessRec, commandQueue' = Append(commandQueue, pmMess),
             \A r \in Conn : player'[r].lost = player[r].lost
      PROVE  ToldOnce'
  <2>1. PICK n \in DOMAIN commandQueue' :
          /\ commandQueue'[n] = pmMess
          /\ \A i \in DOMAIN commandQueue' : i # n =>
               i \in DOMAIN commandQueue /\ commandQueue'[i] = commandQueue[i]
    BY <1>1, <1>4, AppendIs
  <2>2. \A p : ~IsNotice(pmMess, p)
    BY <1>4, HeadersAssumption DEF IsNotice, MessRec, ClientHeader
  <2> QED BY <1>4, <2>1, <2>2 DEF ToldOnce
<1>5. ASSUME NEW t \in Thread, DisconnectEnd(t), commandQueue' = Noticed(disc[t]),
             \A r \in Conn : player'[r].lost = player[r].lost
      PROVE  ToldOnce'
  <2> DEFINE q == disc[t].player
             m == [header |-> "PL_LOST", arg |-> NoName, player |-> q]
  <2>1. disc[t] # NoDisc /\ q \in Conn /\ Connected(q)
    BY <1>1, <1>5, EndLeaves DEF Orderly
  <2>2. m \in MessRec \cup LostRec /\ commandQueue' = Append(commandQueue, m)
        /\ \A p : IsNotice(m, p) <=> p = q
    BY <1>5, <2>1 DEF LostRec, Noticed, IsNotice
  <2>3. ~player[q].lost /\ \A i \in DOMAIN commandQueue : ~IsNotice(commandQueue[i], q)
    BY <2>1 DEF IInv, LostHasNoSocket, NoticeIsTrue, IsNotice
  <2> HIDE DEF m, q
  <2>4. PICK n \in DOMAIN commandQueue' :
          /\ commandQueue'[n] = m
          /\ \A i \in DOMAIN commandQueue' : i # n =>
               i \in DOMAIN commandQueue /\ commandQueue'[i] = commandQueue[i]
    BY <1>1, <2>2, AppendIs
  <2> QED BY <1>5, <2>2, <2>3, <2>4 DEF ToldOnce
<1>6. ASSUME NEW p \in Conn, PlayerLost(p)
      PROVE  ToldOnce'
  <2>1. Handled /\ IsNotice(Command, p)
    BY <1>6 DEF PlayerLost, HandlesFor, Handles, Handled, IsNotice
  <2>2. \A r \in Conn : player'[r].lost = player[r].lost \/ r = p
    <3> DEFINE marked == [player EXCEPT ![p].lost = TRUE]
               o == OponentIn(player, games[GameIndex(player, p)], p)
    <3>1. /\ \A r \in Conn : marked[r].lost = player[r].lost \/ r = p
          /\ Sets(player', marked, {}, FALSE) \/ Sets(player', marked, {p, o}, FALSE)
      BY <1>1, <1>6, PlayerLostSets
    <3> HIDE DEF marked, o
    <3> QED BY <3>1 DEF Sets, Keeps
  <2> QED BY <1>3, <2>1, <2>2
<1>7. CASE \A r \in Conn : player'[r].lost = player[r].lost
  <2>1. CASE UNCHANGED commandQueue
    BY <1>7, <2>1 DEF ToldOnce
  <2> QED BY <1>1, <1>3, <1>4, <1>5, <1>7, <2>1, QueueKinds
<1> QED BY <1>1, <1>2, <1>6, <1>7, FieldSteps

\* What holds of the notices while disconnections are orderly.
Telling == Without({"overlap", "nobody"}) => ToldOnce

\* It is kept.
LEMMA TellingStep == Base /\ Order /\ Telling /\ [HNext]_HVars => Telling'
<1> SUFFICES ASSUME Base, Order, Telling, [HNext]_HVars, Without({"overlap", "nobody"})'
             PROVE  ToldOnce'
  BY DEF Telling
<1>1. CASE HNext
  <2>1. Without({"overlap", "nobody"})
    BY <1>1, NotMet
  <2> QED BY <2>1, ToldOnceStep, BaseStep DEF Base, Order, Telling
<1>2. CASE UNCHANGED HVars
  BY <1>2 DEF HVars, vars, Telling, ToldOnce, Without
<1> QED BY <1>1, <1>2

\* A loss is reported once until disconnections overlap or miss their player.
THEOREM LossIsToldOnce == HSpec => []OneLossNotice
<1>1. HInit => Telling
  BY DEF HInit, Init, Telling, ToldOnce
<1>2. Telling => OneLossNotice
  BY DEF Telling, OneLossNotice, ToldOnce, IsNotice
<1> QED BY <1>1, <1>2, OrderInit, OrderStep, TellingStep, BaseInit, BaseStep, PTL DEF HSpec

-----------------------------------------------------------------------------
(* Requests carry names.                                                   *)

\* A request that asks for a name carries one.
Asks(m) == m.header \in {"NEW_PL", "PL_RECONN"} => m.arg \in Name

\* No request to register or to reconnect comes without a name.
RequestsNamed ==
  /\ \A i \in DOMAIN packetQueue : Asks(packetQueue[i])
  /\ Asks(pmMess)
  /\ \A i \in DOMAIN commandQueue : Asks(commandQueue[i])

\* The messages keep their arguments on the way from recv() to the handlers.
LEMMA RequestsStep ==
  ASSUME TypeInv, [Next]_vars, RequestsNamed
  PROVE  RequestsNamed'
<1>1. packetQueue \in Seq(PacketRec) /\ commandQueue \in Seq(MessRec \cup LostRec)
  BY DEF TypeInv, TypeOK
<1>2. ASSUME UNCHANGED packetQueue \/ (PmReady /\ packetQueue' = Tail(packetQueue))
      PROVE  \A i \in DOMAIN packetQueue' : Asks(packetQueue'[i])
  BY <1>1, <1>2, TailIs DEF PmReady, RequestsNamed
<1>3. ASSUME UNCHANGED commandQueue \/ Handled
      PROVE  \A i \in DOMAIN commandQueue' : Asks(commandQueue'[i])
  BY <1>1, <1>3, TailIs DEF Handled, RequestsNamed
<1>4. ASSUME NEW m \in MessRec \cup LostRec, Asks(m), commandQueue' = Append(commandQueue, m)
      PROVE  \A i \in DOMAIN commandQueue' : Asks(commandQueue'[i])
  BY <1>1, <1>4, AppendIs DEF RequestsNamed
<1>5. CASE Receive
  <2>1. PICK s \in clientSocks, h \in Headers : \E a \in Args(h) :
          packetQueue' = Append(packetQueue, [socket |-> s, header |-> h, arg |-> a])
    BY <1>5 DEF Receive
  <2>2. PICK a \in Args(h) :
          packetQueue' = Append(packetQueue, [socket |-> s, header |-> h, arg |-> a])
    BY <2>1
  <2> DEFINE m == [socket |-> s, header |-> h, arg |-> a]
  <2>3. m \in PacketRec /\ Asks(m)
    BY DEF PacketRec, Args, Asks, TypeInv, TypeOK
  <2> HIDE DEF m
  <2>4. \A i \in DOMAIN packetQueue' : Asks(packetQueue'[i])
    BY <1>1, <2>2, <2>3, AppendIs DEF RequestsNamed, m
  <2>5. UNCHANGED <<pmMess, commandQueue>>
    BY <1>5 DEF Receive
  <2> QED BY <2>4, <2>5 DEF RequestsNamed
<1>6. CASE LookUp
  <2>1. Asks(pmMess')
    <3>1. Asks(Head(packetQueue))
      BY <1>1, <1>6, TailIs DEF LookUp, PmReady, RequestsNamed
    <3> QED BY <1>6, <3>1 DEF LookUp, Asks
  <2> QED BY <1>2, <1>3, <1>6, <2>1 DEF LookUp, RequestsNamed
<1>7. CASE Register
  <2>1. pmMess \in MessRec \cup LostRec /\ Asks(pmMess)
        /\ commandQueue' = Append(commandQueue, pmMess)
    BY <1>7 DEF Register, RequestsNamed, TypeInv, TypeOK
  <2>2. Asks(pmMess') /\ UNCHANGED packetQueue
    BY <1>7 DEF Register, Asks, NoMess
  <2> QED BY <1>2, <1>4, <2>1, <2>2 DEF RequestsNamed
<1>8. CASE Unreadable
  BY <1>2, <1>3, <1>8 DEF Unreadable, RequestsNamed
<1>9. ASSUME NEW t \in Thread, DisconnectEnd(t)
      PROVE  RequestsNamed'
  <2>1. UNCHANGED <<packetQueue, pmMess>> /\ (UNCHANGED commandQueue \/ commandQueue' = Noticed(disc[t]))
    BY <1>9 DEF DisconnectEnd
  <2>2. CASE commandQueue' = Noticed(disc[t])
    <3> DEFINE m == [header |-> "PL_LOST", arg |-> NoName, player |-> disc[t].player]
    <3>1. disc[t].player \in Conn
      BY <1>9, EndLeaves
    <3>2. m \in MessRec \cup LostRec /\ Asks(m) /\ commandQueue' = Append(commandQueue, m)
      BY <2>2, <3>1 DEF LostRec, Asks, Noticed
    <3> HIDE DEF m
    <3> QED BY <1>4, <2>1, <3>2 DEF RequestsNamed
  <2> QED BY <1>3, <2>1, <2>2 DEF RequestsNamed
<1>10. ASSUME NEW h, Handles(h)
       PROVE  RequestsNamed'
  <2>1. Handled /\ UNCHANGED <<packetQueue, pmMess>>
    BY <1>10 DEF Handles, Handled
  <2> QED BY <1>3, <2>1 DEF RequestsNamed
<1>11. CASE Accept \/ ClientGone \/ UNCHANGED vars
  BY <1>11 DEF Accept, ClientGone, vars, RequestsNamed
<1>12. "server" \in Thread /\ "pm" \in Thread /\ "cm" \in Thread
  BY DEF Thread
<1> QED BY <1>5, <1>6, <1>7, <1>8, <1>9, <1>10, <1>11, <1>12, CmStep
        DEF Next, ServerNext, PacketManagerNext

\* There are none at the start.
LEMMA RequestsInit == Init => RequestsNamed
BY DEF Init, RequestsNamed, Asks, NoMess

\* A handler of a registration or a reconnection is given a name.
LEMMA CommandNamed ==
  ASSUME TypeInv, RequestsNamed, NEW h \in {"NEW_PL", "PL_RECONN"}, Handles(h)
  PROVE  Command.arg \in Name
<1>1. commandQueue \in Seq(MessRec \cup LostRec) /\ commandQueue # <<>>
      /\ Head(commandQueue).header = h
  BY DEF TypeInv, TypeOK, Handles, Command
<1>2. 1 \in DOMAIN commandQueue /\ Head(commandQueue) = commandQueue[1]
  BY <1>1, TailIs
<1>3. Asks(Head(commandQueue))
  BY <1>2 DEF RequestsNamed
<1> QED BY <1>1, <1>3 DEF Asks, Command

-----------------------------------------------------------------------------
(* What the steps do to the games.                                         *)

\* A move ends the game, or passes the turn to the opponent.
LEMMA MoveIs ==
  ASSUME TypeInv, NEW p \in Conn, GameMove(p)
  PROVE  LET i == GameIndex(player, p)
             q == OponentIn(player, games[i], p)
         IN  /\ i # 0
             /\ \/ Sets(player', player, {p, q}, FALSE) /\ games' = RemoveAt(games, i)
                \/ UNCHANGED player /\ games' = [games EXCEPT ![i].playerOnTurn = q]
<1> DEFINE i == GameIndex(player, p)
           q == OponentIn(player, games[i], p)
<1>1. player \in [Conn -> PlayerRec] /\ q \in Conn /\ i # 0
  BY GameType DEF GameMove, TypeInv, TypeOK
<1>2. \/ player' = Freed(p, q) /\ games' = RemoveAt(games, i)
      \/ UNCHANGED player /\ games' = [games EXCEPT ![i].playerOnTurn = q]
  BY Zenon DEF GameMove
<1> HIDE DEF i, q
<1>3. Sets(Freed(p, q), player, {p, q}, FALSE)
  BY <1>1, FreedSets
<1> QED BY <1>1, <1>2, <1>3 DEF i, q

\* The names and the seats after a reconnection: the object of the connection
\* takes the name of the lost player and his place in his game.
LEMMA ReconnectionIs ==
  ASSUME TypeInv, NEW p \in Conn, Reconnection(p)
  PROVE  \/ UNCHANGED <<player, games>>
         \/ \E old \in Listing, i \in 1..Len(games) :
              /\ player[old].lost
              /\ \A r \in Conn :
                   /\ player'[r].name = IF r = p THEN Command.arg ELSE player[r].name
                   /\ player'[r].socket = player[r].socket
                   /\ player'[r].inGame = IF r = p THEN TRUE ELSE player[r].inGame
              /\ player[old].name = Command.arg
              /\ games[i] \in GameRec
              /\ Command.arg \in {player'[games[i].p1].name, player'[games[i].p2].name}
              /\ games' = [games EXCEPT ![i] = Seated(games[i], player', p)]
<1> DEFINE n == Command.arg
           k == IndexByName(player, players, n)
           old == getPlayerByName(n)
           renamed == [player EXCEPT ![p].name = Command.arg,
                                     ![p].availible = FALSE,
                                     ![p].inGame = TRUE]
           i == GameIndex(renamed, old)
<1>1. n \in Name \cup {NoName} /\ games \in Seq(GameRec) /\ players \in Seq(1..born)
      /\ Len(players) \in Nat /\ Len(games) \in Nat /\ DOMAIN players = 1..Len(players)
  BY HandlesType, LenProperties DEF Reconnection, HandlesFor, TypeInv, TypeOK
<1>2. \/ UNCHANGED <<player, games>>
      \/ /\ old # NoConn /\ player[old].lost /\ i # 0 /\ player' = renamed
         /\ games' = [games EXCEPT ![i] = Seated(games[i], renamed, p)]
  BY ZenonT(60) DEF Reconnection
<1>3. SUFFICES ASSUME old # NoConn, player[old].lost, i # 0, player' = renamed,
                      games' = [games EXCEPT ![i] = Seated(games[i], renamed, p)]
               PROVE  \E oldp \in Listing, j \in 1..Len(games) :
                        /\ player[oldp].lost
                        /\ \A r \in Conn :
                             /\ player'[r].name = IF r = p THEN n ELSE player[r].name
                             /\ player'[r].socket = player[r].socket
                             /\ player'[r].inGame = IF r = p THEN TRUE ELSE player[r].inGame
                        /\ player[oldp].name = n
                        /\ games[j] \in GameRec
                        /\ n \in {player'[games[j].p1].name, player'[games[j].p2].name}
                        /\ games' = [games EXCEPT ![j] = Seated(games[j], player', p)]
  BY <1>2
<1>4. \A r \in Conn :
        /\ renamed[r].name = IF r = p THEN n ELSE player[r].name
        /\ renamed[r].socket = player[r].socket
        /\ renamed[r].inGame = IF r = p THEN TRUE ELSE player[r].inGame
  BY <1>1, RenamedIs
<1>5. k \in 0..Len(players) /\ (k # 0 => player[players[k]].name = n)
  BY <1>1, FirstByName
<1>6. old = IF k = 0 THEN NoConn ELSE players[k]
  BY DEF getPlayerByName, At
<1> HIDE DEF k
<1>7. old \in Listing /\ player[old].name = n
  BY <1>1, <1>3, <1>5, <1>6 DEF Listing, ToSet
<1>8. old \in Conn
  BY <1>7, Shapes
<1> HIDE DEF old, n
<1>9. renamed[old].name = n
  BY <1>4, <1>7, <1>8
<1> HIDE DEF renamed
<1>10. /\ i \in 0..Len(games)
       /\ i # 0 => renamed[old].name \in {renamed[games[i].p1].name, renamed[games[i].p2].name}
  BY <1>1, LastGame
<1> HIDE DEF i
<1>11. i \in 1..Len(games)
  BY <1>1, <1>3, <1>10
<1>12. games[i] \in GameRec
  BY <1>1, <1>11, ElementOfSeq
<1>13. n \in {player'[games[i].p1].name, player'[games[i].p2].name}
  BY <1>3, <1>9, <1>10
<1>14. games' = [games EXCEPT ![i] = Seated(games[i], player', p)]
  BY <1>3
<1>15. \A r \in Conn :
         /\ player'[r].name = IF r = p THEN n ELSE player[r].name
         /\ player'[r].socket = player[r].socket
         /\ player'[r].inGame = IF r = p THEN TRUE ELSE player[r].inGame
  BY <1>3, <1>4
<1> QED BY <1>3, <1>7, <1>11, <1>12, <1>13, <1>14, <1>15

\* The entries of games after a handler: those that were there, one that
\* replaces another, or a new one at the end.
LEMMA GamesAfter ==
  ASSUME TypeInv
  PROVE  /\ \A i \in 1..Len(games) : games' = RemoveAt(games, i) =>
              \A k \in DOMAIN games' : \E j \in DOMAIN games : j # i /\ games'[k] = games[j]
         /\ \A i \in DOMAIN games : games' = RemoveAt(games, i) =>
              \A j \in DOMAIN games : j # i => \E k \in DOMAIN games' : games'[k] = games[j]
         /\ \A g \in GameRec : games' = Append(games, g) =>
              /\ \A k \in DOMAIN games' : games'[k] = g \/ \E j \in DOMAIN games : games'[k] = games[j]
              /\ \A j \in DOMAIN games : j \in DOMAIN games' /\ games'[j] = games[j]
              /\ \E k \in DOMAIN games' : games'[k] = g
<1>1. /\ games \in Seq(GameRec) /\ Len(games) \in Nat /\ DOMAIN games = 1..Len(games)
  BY LenProperties DEF TypeInv, TypeOK
<1>2. ASSUME NEW i \in 1..Len(games), games' = RemoveAt(games, i)
      PROVE  /\ DOMAIN games' = 1..(Len(games) - 1)
             /\ \A k \in 1..(Len(games) - 1) :
                  games'[k] = IF k < i THEN games[k] ELSE games[k + 1]
  <2>1. /\ games' \in Seq(GameRec) /\ Len(games') = Len(games) - 1
        /\ \A k \in 1..(Len(games) - 1) :
             games'[k] = IF k < i THEN games[k] ELSE games[k + 1]
    BY <1>1, <1>2, RemoveAtProperties
  <2> QED BY <2>1, LenProperties
<1>3. ASSUME NEW i \in 1..Len(games), games' = RemoveAt(games, i), NEW k \in DOMAIN games'
      PROVE  \E j \in DOMAIN games : j # i /\ games'[k] = games[j]
  <2>1. k \in 1..(Len(games) - 1) /\ games'[k] = IF k < i THEN games[k] ELSE games[k + 1]
    BY <1>2, <1>3
  <2>2. (IF k < i THEN k ELSE k + 1) \in DOMAIN games \ {i}
    BY <1>1, <2>1
  <2> QED BY <2>1, <2>2
<1>4. ASSUME NEW i \in DOMAIN games, games' = RemoveAt(games, i), NEW j \in DOMAIN games, j # i
      PROVE  \E k \in DOMAIN games' : games'[k] = games[j]
  <2>1. /\ DOMAIN games' = 1..(Len(games) - 1)
        /\ \A k \in 1..(Len(games) - 1) :
             games'[k] = IF k < i THEN games[k] ELSE games[k + 1]
    BY <1>1, <1>2, <1>4
  <2>2. CASE j < i
    <3>1. j \in 1..(Len(games) - 1)
      BY <1>1, <2>2
    <3> QED BY <2>1, <2>2, <3>1
  <2>3. CASE j > i
    <3>1. j - 1 \in 1..(Len(games) - 1) /\ ~(j - 1 < i) /\ (j - 1) + 1 = j
      BY <1>1, <2>3
    <3> QED BY <2>1, <3>1
  <2> QED BY <1>1, <1>4, <2>2, <2>3
<1>5. ASSUME NEW g \in GameRec, games' = Append(games, g)
      PROVE  /\ \A k \in DOMAIN games' : games'[k] = g \/ \E j \in DOMAIN games : games'[k] = games[j]
             /\ \A j \in DOMAIN games : j \in DOMAIN games' /\ games'[j] = games[j]
             /\ \E k \in DOMAIN games' : games'[k] = g
  <2>1. /\ games' \in Seq(GameRec)
        /\ Len(games') = Len(games) + 1
        /\ \A k \in 1..Len(games) : games'[k] = games[k]
        /\ games'[Len(games) + 1] = g
    BY <1>1, <1>5, AppendProperties
  <2>2. DOMAIN games' = 1..(Len(games) + 1)
    BY <2>1, LenProperties
  <2>3. /\ \A k \in DOMAIN games' : k \in DOMAIN games \/ k = Len(games) + 1
        /\ Len(games) + 1 \in DOMAIN games'
        /\ \A k \in DOMAIN games : k \in DOMAIN games'
    BY <1>1, <2>2
  <2> QED BY <1>1, <2>1, <2>3
<1> QED BY <1>1, <1>3, <1>4, <1>5

\* A game a handler replaced is at the place of the old one.
LEMMA GamesReplaced ==
  ASSUME TypeInv, NEW i \in DOMAIN games, NEW g, games' = [games EXCEPT ![i] = g]
  PROVE  /\ DOMAIN games' = DOMAIN games
         /\ games'[i] = g
         /\ \A j \in DOMAIN games : j # i => games'[j] = games[j]
BY DEF TypeInv, TypeOK

\* Passing the turn replaces that field of the game.
LEMMA TurnReplaced ==
  ASSUME TypeInv, NEW i \in DOMAIN games, NEW q, games' = [games EXCEPT ![i].playerOnTurn = q]
  PROVE  \E g : /\ games' = [games EXCEPT ![i] = g]
                /\ g.p1 = games[i].p1 /\ g.p2 = games[i].p2 /\ g.playerOnTurn = q
<1> DEFINE g == [games[i] EXCEPT !.playerOnTurn = q]
<1>1. games \in Seq(GameRec)
  BY DEF TypeInv, TypeOK
<1>2. games[i] \in GameRec
  BY <1>1, ElementOfSeq, LenProperties
<1>3. g.p1 = games[i].p1 /\ g.p2 = games[i].p2 /\ g.playerOnTurn = q
  BY <1>2 DEF GameRec
<1>4. games' = [games EXCEPT ![i] = g]
  OBVIOUS
<1> QED BY <1>3, <1>4

-----------------------------------------------------------------------------
(* The player on turn.                                                     *)

\* The player on turn is one of the two by identity, or by a name.
Turn(objs, g) ==
  \/ g.playerOnTurn \in {g.p1, g.p2}
  \/ /\ objs[g.playerOnTurn].name # NoName
     /\ objs[g.playerOnTurn].name \in {objs[g.p1].name, objs[g.p2].name}

\* The core of OnTurnIsPlayer, strengthened.
OnTurnSits == \A i \in DOMAIN games : Turn(player, games[i])

\* Unless somebody takes a second name.
LEMMA TurnStep ==
  ASSUME TypeInv, RequestsNamed, [Next]_vars, ~Renaming, OnTurnSits
  PROVE  OnTurnSits'
<1>1. /\ games \in Seq(GameRec) /\ DOMAIN games = 1..Len(games) /\ Len(games) \in Nat
      /\ \A i \in DOMAIN games : games[i] \in GameRec
  BY LenProperties, ElementOfSeq DEF TypeInv, TypeOK
<1>2. \A i \in DOMAIN games : Turn(player', games[i])
  <2>1. \A r \in Conn : player[r].name # NoName => player'[r].name = player[r].name
    BY DEF Renaming
  <2> SUFFICES ASSUME NEW i \in DOMAIN games PROVE Turn(player', games[i])
    OBVIOUS
  <2>2. Turn(player, games[i]) /\ games[i] \in GameRec
    BY <1>1 DEF OnTurnSits
  <2>3. games[i].p1 \in Conn /\ games[i].p2 \in Conn /\ games[i].playerOnTurn \in Conn
    BY <2>2 DEF GameRec
  <2> QED BY <2>1, <2>2, <2>3 DEF Turn
<1>3. ASSUME \A k \in DOMAIN games' :
               Turn(player', games'[k]) \/ \E j \in DOMAIN games : games'[k] = games[j]
      PROVE  OnTurnSits'
  BY <1>2, <1>3 DEF OnTurnSits
<1>4. CASE UNCHANGED games
  BY <1>3, <1>4
<1>5. ASSUME NEW i \in DOMAIN games, NEW g, games' = [games EXCEPT ![i] = g], Turn(player', g)
      PROVE  OnTurnSits'
  BY <1>3, <1>5, GamesReplaced
<1>6. ASSUME NEW p \in Conn, AcceptJoin(p)
      PROVE  OnTurnSits'
  <2> DEFINE asking == player[p].askedForJoiningBy
             g == [p1 |-> asking, p2 |-> p, playerOnTurn |-> asking]
  <2>1. asking \in Conn /\ (UNCHANGED games \/ games' = Append(games, g))
    BY <1>6, AcceptJoinSets
  <2>2. g \in GameRec /\ Turn(player', g)
    BY <2>1 DEF GameRec, Turn
  <2> HIDE DEF g
  <2>3. CASE games' = Append(games, g)
    BY <1>3, <2>2, <2>3, GamesAfter
  <2> QED BY <1>4, <2>1, <2>3
<1>7. ASSUME NEW p \in Conn, GameIndex(player, p) # 0,
             games' = RemoveAt(games, GameIndex(player, p))
      PROVE  OnTurnSits'
  <2> DEFINE i == GameIndex(player, p)
  <2>1. i \in 1..Len(games) /\ games' = RemoveAt(games, i)
    BY <1>7, GameType
  <2> HIDE DEF i
  <2>2. \A k \in DOMAIN games' : \E j \in DOMAIN games : games'[k] = games[j]
    BY <2>1, GamesAfter
  <2> QED BY <1>3, <2>2
<1>8. ASSUME NEW p \in Conn, GameMove(p)
      PROVE  OnTurnSits'
  <2> DEFINE i == GameIndex(player, p)
             q == OponentIn(player, games[i], p)
  <2>1. /\ i # 0
        /\ games' = RemoveAt(games, i) \/ games' = [games EXCEPT ![i].playerOnTurn = q]
    BY <1>8, MoveIs
  <2>2. i \in DOMAIN games
    BY <1>1, <2>1, GameType
  <2>3. q \in {games[i].p1, games[i].p2}
    BY DEF OponentIn
  <2> HIDE DEF i, q
  <2>4. CASE games' = [games EXCEPT ![i].playerOnTurn = q]
    <3>1. PICK g : /\ games' = [games EXCEPT ![i] = g]
                   /\ g.p1 = games[i].p1 /\ g.p2 = games[i].p2 /\ g.playerOnTurn = q
      BY <2>2, <2>4, TurnReplaced
    <3> QED BY <1>5, <2>2, <2>3, <3>1 DEF Turn
  <2> QED BY <1>7, <2>1, <2>4 DEF i
<1>9. ASSUME NEW p \in Conn, GameEnding(p)
      PROVE  OnTurnSits'
  <2>1. GameIndex(player, p) # 0 /\ games' = RemoveAt(games, GameIndex(player, p))
    BY <1>9, Zenon DEF GameEnding
  <2> QED BY <1>7, <2>1
<1>10. ASSUME NEW p \in Conn, PlayerLost(p)
       PROVE  OnTurnSits'
  <2>1. UNCHANGED games \/ games' = RemoveAt(games, GameIndex(player, p))
    BY <1>10, PlayerLostSets
  <2>2. GameIndex(player, p) # 0
    BY <1>10, Zenon DEF PlayerLost
  <2> QED BY <1>4, <1>7, <2>1, <2>2
<1>11. ASSUME NEW p \in Conn, Reconnection(p)
       PROVE  OnTurnSits'
  <2>1. CASE UNCHANGED games
    BY <1>4, <2>1
  <2>2. ASSUME NEW old \in Listing, NEW i \in 1..Len(games),
               \A r \in Conn : player'[r].name = IF r = p THEN Command.arg ELSE player[r].name,
               games[i] \in GameRec,
               Command.arg \in {player'[games[i].p1].name, player'[games[i].p2].name},
               games' = [games EXCEPT ![i] = Seated(games[i], player', p)]
        PROVE  OnTurnSits'
    <3> DEFINE g == games[i]
               n == Command.arg
    <3>1. n # NoName
      BY <1>11, CommandNamed, NameAssumption DEF Reconnection, HandlesFor
    <3>2. player'[p].name = n /\ Turn(player', g) /\ g \in GameRec
      BY <1>1, <1>2, <2>2
    <3> HIDE DEF g, n
    <3>3. n \in {player'[g.p1].name, player'[g.p2].name}
      BY <2>2 DEF g, n
    <3>4. Turn(player', Seated(g, player', p))
      <4>1. CASE player'[g.p1].name = n
        <5>1. Seated(g, player', p) = [p1 |-> p, p2 |-> g.p2, playerOnTurn |-> g.playerOnTurn]
          BY <3>2, <4>1 DEF Seated, GameRec
        <5> QED BY <3>1, <3>2, <4>1, <5>1 DEF Turn
      <4>2. CASE player'[g.p1].name # n
        <5>1. Seated(g, player', p) = [p1 |-> g.p1, p2 |-> p, playerOnTurn |-> g.playerOnTurn]
          BY <3>2, <4>2 DEF Seated, GameRec
        <5> QED BY <3>1, <3>2, <3>3, <4>2, <5>1 DEF Turn
      <4> QED BY <4>1, <4>2
    <3> QED BY <1>1, <1>5, <2>2, <3>4 DEF g
  <2> QED BY <1>11, <2>1, <2>2, ReconnectionIs
<1>12. CASE Accept
  BY <1>4, <1>12 DEF Accept
<1> QED BY <1>4, <1>6, <1>8, <1>9, <1>10, <1>11, <1>12, FieldSteps

\* What holds of the turns until somebody takes a second name.
Turning == RequestsNamed /\ (Without({"renaming"}) => OnTurnSits)

\* It is kept.
LEMMA TurningStep == Base /\ Turning /\ [HNext]_HVars => Turning'
<1> SUFFICES ASSUME Base, Turning, [HNext]_HVars PROVE Turning'
  OBVIOUS
<1>1. RequestsNamed'
  BY RequestsStep, BaseStep DEF Base, IInv, Turning
<1>2. ASSUME Without({"renaming"})' PROVE OnTurnSits'
  <2>1. CASE HNext
    <3>1. Without({"renaming"}) /\ "renaming" \notin Met
      BY <1>2, <2>1, NotMet
    <3>2. ~Renaming
      BY <3>1 DEF Met, Race
    <3> QED BY <3>1, <3>2, TurnStep, BaseStep DEF Base, IInv, Turning
  <2>2. CASE UNCHANGED HVars
    BY <1>2, <2>2 DEF HVars, vars, Turning, OnTurnSits, Turn, Without
  <2> QED BY <2>1, <2>2
<1> QED BY <1>1, <1>2 DEF Turning

\* The player on turn plays the game until somebody takes a second name,
\* however often the two reconnect.
THEOREM OnTurnPlays == HSpec => []OnTurnIsPlayer
<1>1. HInit => Turning
  BY RequestsInit DEF HInit, Init, Turning, OnTurnSits
<1>2. Turning => OnTurnIsPlayer
  BY DEF Turning, OnTurnSits, Turn, OnTurnIsPlayer, ToSet
<1> QED BY <1>1, <1>2, TurningStep, BaseInit, BaseStep, PTL DEF HSpec

-----------------------------------------------------------------------------
(* Players in games.                                                       *)

\* The players whose games the handlers look for.
Playing(p) == p \in Listing /\ Connected(p) /\ player[p].inGame

\* Some game has the object as one of its two players.
Sits(p) == \E i \in DOMAIN games : p \in {games[i].p1, games[i].p2}

\* Everybody who plays has a name, and a seat that is his object: by name
\* alone the lookup could find somebody else's game.
PlayersSit == \A p \in Conn : Playing(p) => player[p].name # NoName /\ Sits(p)

\* The two a handler takes out of a game are the two who sit in it: a third
\* player keeps his seat.
LEMMA OthersSit ==
  ASSUME IInv, PlayersSit, NEW p \in Listing, NEW r \in Conn, Playing(r), r # p,
         GameIndex(player, p) # 0,
         r # OponentIn(player, games[GameIndex(player, p)], p),
         games' = RemoveAt(games, GameIndex(player, p))
  PROVE  Sits(r)'
<1> DEFINE i == GameIndex(player, p)
           g == games[i]
<1>1. TypeInv /\ games \in Seq(GameRec)
  BY DEF IInv, TypeInv, TypeOK
<1>2. i \in 1..Len(games) /\ DOMAIN games = 1..Len(games)
  BY <1>1, GameType, LenProperties
<1>3. player[p].name \in {player[g.p1].name, player[g.p2].name}
  BY <1>1, LastGame
<1>4. PICK j \in DOMAIN games : r \in {games[j].p1, games[j].p2}
  BY DEF PlayersSit, Sits
<1>5. ASSUME j = i PROVE FALSE
  <2>1. r \in {g.p1, g.p2}
    BY <1>4, <1>5
  <2>2. r # OponentIn(player, g, p)
    OBVIOUS
  <2> HIDE DEF g
  <2>3. player[r].name = player[p].name
    BY <1>3, <2>1, <2>2 DEF OponentIn
  <2>4. PICK a, b \in DOMAIN players : r = players[a] /\ p = players[b]
    BY DEF Playing, Listing, ToSet
  <2>5. player[r].name # NoName
    BY DEF PlayersSit
  <2> QED BY <2>3, <2>4, <2>5 DEF IInv, NamesUnique
<1>6. games' = RemoveAt(games, i)
  OBVIOUS
<1> HIDE DEF i, g
<1>7. PICK k \in DOMAIN games' : games'[k] = games[j]
  BY <1>1, <1>2, <1>4, <1>5, <1>6, GamesAfter
<1> QED BY <1>4, <1>7 DEF Sits

\* Nobody loses a name.
LEMMA StaysNamed ==
  ASSUME TypeInv, RequestsNamed, [Next]_vars, ~Accept, NEW r \in Conn, player[r].name # NoName
  PROVE  player'[r].name # NoName
<1>1. CASE player'[r].name = player[r].name
  BY <1>1
<1>2. ASSUME NEW p \in Conn, NewPlayerConnection(p)
      PROVE  player'[r].name # NoName
  <2>1. Command.arg # NoName
    BY <1>2, CommandNamed, NameAssumption DEF NewPlayerConnection, HandlesFor
  <2> QED BY <1>2, <2>1, NamedIs
<1>3. ASSUME NEW p \in Conn, Reconnection(p)
      PROVE  player'[r].name # NoName
  <2>1. Command.arg # NoName
    BY <1>3, CommandNamed, NameAssumption DEF Reconnection, HandlesFor
  <2> QED BY <1>3, <2>1, ReconnectionIs
<1> QED BY <1>1, <1>2, <1>3, FieldSteps

\* But for a new connection, who plays was listed and connected before.
LEMMA PlayedBefore ==
  ASSUME TypeInv, [Next]_vars, ~Accept, NEW r \in Conn, Playing(r)'
  PROVE  r \in Listing /\ Connected(r)
<1>1. Listing' \subseteq Listing
  <2>1. ASSUME NEW t \in Thread, DisconnectEnd(t)
        PROVE  Listing' \subseteq Listing
    BY <2>1, EndLeaves, ThinsHolds
  <2>2. CASE Elsewhere
    BY <2>2, ThinsHolds DEF Elsewhere
  <2>3. ASSUME NEW t \in Thread, NEW s, Begun(t, s)
        PROVE  Listing' \subseteq Listing
    BY <2>3, BegunLeaves
  <2> QED BY <2>1, <2>2, <2>3, StepKinds
<1>2. player'[r].socket \in {player[r].socket, NoSock}
  <2>1. ASSUME NEW t \in Thread, DisconnectEnd(t)
        PROVE  player'[r].socket \in {player[r].socket, NoSock}
    BY <2>1, UnpluggedIs
  <2> QED BY <2>1, FieldSteps
<1> QED BY <1>1, <1>2 DEF Playing, Connected

\* The handler that serves a player finds him in the vector.
LEMMA ServedIsListed ==
  ASSUME ~Late, NEW p \in Conn, NEW h, HandlesFor(h, p)
  PROVE  p \in Listing
BY DEF Late, Handled, HandlesFor, Handles

\* Seats and names of those who play are kept while nobody is served late and
\* nobody without a name comes to be in a game.
LEMMA PlayersSitStep ==
  ASSUME IInv, RequestsNamed, [Next]_vars, ~Late, ~Anonymous, PlayersSit
  PROVE  PlayersSit'
<1>1. TypeInv /\ games \in Seq(GameRec) /\ DOMAIN games = 1..Len(games)
  BY LenProperties DEF IInv, TypeInv, TypeOK
<1>2. CASE Accept
  <2>1. PICK s : /\ Listing' = Listing \cup {born + 1}
                 /\ player'[born + 1] = NewPlayer(s)
                 /\ \A r \in Conn \ {born + 1} : player'[r] = player[r]
    BY <1>1, <1>2, AcceptLists
  <2>2. games' = games
    BY <1>2 DEF Accept
  <2>3. ~player'[born + 1].inGame
    BY <2>1 DEF NewPlayer
  <2> QED BY <2>1, <2>2, <2>3 DEF PlayersSit, Playing, Connected, Sits
<1>3. SUFFICES ASSUME ~Accept, NEW r \in Conn, Playing(r)'
               PROVE  player'[r].name # NoName /\ Sits(r)'
  BY <1>2 DEF PlayersSit
<1>4. r \in Listing /\ Connected(r)
  BY <1>1, <1>3, PlayedBefore
<1>5. ASSUME player[r].inGame
      PROVE  Playing(r) /\ player[r].name # NoName /\ Sits(r)
  BY <1>4, <1>5 DEF Playing, PlayersSit
<1>6. player'[r].name # NoName
  <2>1. CASE player[r].inGame
    BY <1>1, <1>3, <1>5, <2>1, StaysNamed
  <2>2. CASE ~player[r].inGame
    BY <1>3, <2>2 DEF Playing, Anonymous
  <2> QED BY <2>1, <2>2
<1>7. CASE UNCHANGED games /\ player'[r].inGame = player[r].inGame
  BY <1>3, <1>5, <1>6, <1>7 DEF Playing, Sits
<1>8. ASSUME NEW p \in Conn, AcceptJoin(p)
      PROVE  Sits(r)'
  <2> DEFINE asking == player[p].askedForJoiningBy
             g == [p1 |-> asking, p2 |-> p, playerOnTurn |-> asking]
  <2>1. /\ asking \in Conn
        /\ \/ Sets(player', player, {}, TRUE) /\ UNCHANGED games
           \/ Sets(player', player, {asking, p}, TRUE) /\ games' = Append(games, g)
    BY <1>1, <1>8, AcceptJoinSets
  <2>2. CASE Sets(player', player, {}, TRUE) /\ UNCHANGED games
    BY <1>7, <2>2 DEF Sets
  <2>3. CASE Sets(player', player, {asking, p}, TRUE) /\ games' = Append(games, g)
    <3>1. g \in GameRec /\ g.p1 = asking /\ g.p2 = p
      BY <2>1 DEF GameRec
    <3> HIDE DEF g, asking
    <3>2. /\ \A j \in DOMAIN games : j \in DOMAIN games' /\ games'[j] = games[j]
          /\ \E k \in DOMAIN games' : games'[k] = g
      BY <1>1, <2>3, <3>1, GamesAfter
    <3>3. CASE r \in {asking, p}
      BY <3>1, <3>2, <3>3 DEF Sits
    <3>4. CASE r \notin {asking, p}
      <4>1. player[r].inGame
        BY <1>3, <2>3, <3>4 DEF Sets, Playing
      <4> QED BY <1>5, <3>2, <4>1 DEF Sits
    <3> QED BY <3>3, <3>4
  <2> QED BY <2>1, <2>2, <2>3
<1>9. ASSUME NEW p \in Listing, GameIndex(player, p) # 0,
             games' = RemoveAt(games, GameIndex(player, p)),
             r # p, r # OponentIn(player, games[GameIndex(player, p)], p),
             player[r].inGame
      PROVE  Sits(r)'
  BY <1>5, <1>9, OthersSit
<1>10. ASSUME NEW p \in Conn, GameMove(p)
       PROVE  Sits(r)'
  <2> DEFINE i == GameIndex(player, p)
             q == OponentIn(player, games[i], p)
  <2>1. /\ i # 0
        /\ \/ Sets(player', player, {p, q}, FALSE) /\ games' = RemoveAt(games, i)
           \/ UNCHANGED player /\ games' = [games EXCEPT ![i].playerOnTurn = q]
    BY <1>1, <1>10, MoveIs
  <2>2. p \in Listing /\ i \in DOMAIN games
    BY <1>1, <1>10, <2>1, ServedIsListed, GameType DEF GameMove
  <2> HIDE DEF i, q
  <2>3. CASE Sets(player', player, {p, q}, FALSE) /\ games' = RemoveAt(games, i)
    <3>1. r # p /\ r # q /\ player[r].inGame
      BY <1>3, <2>3 DEF Sets, Playing
    <3> QED BY <1>9, <2>1, <2>2, <2>3, <3>1 DEF i, q
  <2>4. CASE UNCHANGED player /\ games' = [games EXCEPT ![i].playerOnTurn = q]
    <3>1. PICK g : games' = [games EXCEPT ![i] = g] /\ g.p1 = games[i].p1 /\ g.p2 = games[i].p2
      BY <1>1, <2>2, <2>4, TurnReplaced
    <3>2. /\ DOMAIN games' = DOMAIN games
          /\ games'[i] = g
          /\ \A j \in DOMAIN games : j # i => games'[j] = games[j]
      BY <1>1, <2>2, <3>1, GamesReplaced
    <3>3. Sits(r)
      BY <1>3, <1>5, <2>4 DEF Playing
    <3> QED BY <3>1, <3>2, <3>3 DEF Sits
  <2> QED BY <2>1, <2>3, <2>4
<1>11. ASSUME NEW p \in Conn, GameEnding(p)
       PROVE  Sits(r)'
  <2> DEFINE i == GameIndex(player, p)
             q == OponentIn(player, games[i], p)
  <2>1. i # 0 /\ games' = RemoveAt(games, i)
    BY <1>11, Zenon DEF GameEnding
  <2>2. p \in Listing
    BY <1>11, ServedIsListed DEF GameEnding
  <2>3. \/ player[q].lost /\ Sets(player', player, {p}, FALSE)
        \/ Sets(player', player, {p, q}, FALSE)
    BY <1>1, <1>11, GameEndingSets
  <2> HIDE DEF i, q
  <2>4. r # p /\ r # q /\ player[r].inGame
    BY <1>3, <1>4, <2>3 DEF Sets, Playing, IInv, LostHasNoSocket
  <2> QED BY <1>9, <2>1, <2>2, <2>4 DEF i, q
<1>12. ASSUME NEW p \in Conn, PlayerLost(p)
       PROVE  Sits(r)'
  <2> DEFINE i == GameIndex(player, p)
             q == OponentIn(player, games[i], p)
             marked == [player EXCEPT ![p].lost = TRUE]
  <2>1. /\ \A x \in Conn : marked[x].inGame = player[x].inGame
        /\ \/ Sets(player', marked, {}, FALSE) /\ UNCHANGED games
           \/ Sets(player', marked, {p, q}, FALSE) /\ games' = RemoveAt(games, i)
    BY <1>1, <1>12, PlayerLostSets
  <2>2. p \in Listing /\ i # 0
    BY <1>12, ServedIsListed, Zenon DEF PlayerLost
  <2> HIDE DEF i, q, marked
  <2>3. CASE Sets(player', marked, {}, FALSE) /\ UNCHANGED games
    BY <1>7, <2>1, <2>3 DEF Sets
  <2>4. CASE Sets(player', marked, {p, q}, FALSE) /\ games' = RemoveAt(games, i)
    <3>1. r # p /\ r # q /\ player[r].inGame
      BY <1>3, <2>1, <2>4 DEF Sets, Playing
    <3> QED BY <1>9, <2>2, <2>4, <3>1 DEF i, q
  <2> QED BY <2>1, <2>3, <2>4
<1>13. ASSUME NEW p \in Conn, Reconnection(p)
       PROVE  Sits(r)'
  <2>1. CASE UNCHANGED <<player, games>>
    BY <1>7, <2>1
  <2>2. ASSUME NEW old \in Listing, NEW i \in 1..Len(games),
               player[old].lost,
               \A x \in Conn :
                 /\ player'[x].name = IF x = p THEN Command.arg ELSE player[x].name
                 /\ player'[x].inGame = IF x = p THEN TRUE ELSE player[x].inGame,
               player[old].name = Command.arg,
               games[i] \in GameRec,
               Command.arg \in {player'[games[i].p1].name, player'[games[i].p2].name},
               games' = [games EXCEPT ![i] = Seated(games[i], player', p)]
        PROVE  Sits(r)'
    <3> DEFINE g == games[i]
               n == Command.arg
               h == Seated(g, player', p)
    <3>1. n # NoName
      BY <1>1, <1>13, CommandNamed, NameAssumption DEF Reconnection, HandlesFor
    <3>2. player'[p].name = n /\ g \in GameRec
      BY <2>2
    <3>3. /\ games'[i] = h /\ i \in DOMAIN games' /\ DOMAIN games' = DOMAIN games
          /\ \A j \in DOMAIN games : j # i => games'[j] = games[j]
      BY <1>1, <2>2, GamesReplaced
    <3>4. n \in {player'[g.p1].name, player'[g.p2].name}
      BY <2>2
    <3> HIDE DEF g, n
    <3>5. /\ p \in {h.p1, h.p2}
          /\ \A x \in {g.p1, g.p2} : x \in {h.p1, h.p2} \/ player'[x].name = n
      <4>1. CASE player'[g.p1].name = n
        <5>1. h = [p1 |-> p, p2 |-> g.p2, playerOnTurn |-> g.playerOnTurn]
          BY <3>2, <4>1 DEF Seated, GameRec
        <5> QED BY <4>1, <5>1
      <4>2. CASE player'[g.p1].name # n
        <5>1. h = [p1 |-> g.p1, p2 |-> p, playerOnTurn |-> g.playerOnTurn]
          BY <3>2, <4>2 DEF Seated, GameRec
        <5> QED BY <3>4, <4>2, <5>1
      <4> QED BY <4>1, <4>2
    <3> HIDE DEF h
    <3>6. CASE r = p
      BY <3>3, <3>5, <3>6 DEF Sits
    <3>7. CASE r # p
      <4>1. player[r].inGame /\ player'[r].name = player[r].name
        BY <1>3, <2>2, <3>7 DEF Playing
      <4>2. PICK j \in DOMAIN games : r \in {games[j].p1, games[j].p2}
        BY <1>5, <4>1 DEF Sits
      <4>3. ASSUME player[r].name = n PROVE FALSE
        <5>1. PICK a, b \in DOMAIN players : r = players[a] /\ old = players[b]
          BY <1>4 DEF Listing, ToSet
        <5>2. r = old
          BY <2>2, <3>1, <4>3, <5>1 DEF IInv, NamesUnique, n
        <5> QED BY <1>4, <2>2, <5>2 DEF IInv, LostHasNoSocket
      <4>4. CASE j = i
        BY <3>3, <3>5, <4>1, <4>2, <4>3, <4>4 DEF Sits, g
      <4>5. CASE j # i
        BY <3>3, <4>2, <4>5 DEF Sits
      <4> QED BY <4>4, <4>5
    <3> QED BY <3>6, <3>7
  <2> QED BY <1>1, <1>13, <2>1, <2>2, ReconnectionIs
<1> QED BY <1>1, <1>3, <1>6, <1>7, <1>8, <1>10, <1>11, <1>12, <1>13, FieldSteps

\* What holds of the players in games until somebody is served late or plays
\* without a name.
Seating == RequestsNamed /\ (Without({"late", "anonymous"}) => PlayersSit)

\* It is kept.
LEMMA SeatingStep == Base /\ Seating /\ [HNext]_HVars => Seating'
<1> SUFFICES ASSUME Base, Seating, [HNext]_HVars PROVE Seating'
  OBVIOUS
<1>1. RequestsNamed'
  BY RequestsStep, BaseStep DEF Base, IInv, Seating
<1>2. ASSUME Without({"late", "anonymous"})' PROVE PlayersSit'
  <2>1. CASE HNext
    <3>1. Without({"late", "anonymous"}) /\ "late" \notin Met /\ "anonymous" \notin Met
      BY <1>2, <2>1, NotMet
    <3>2. ~Late /\ ~Anonymous
      BY <3>1 DEF Met, Race
    <3> QED BY <3>1, <3>2, PlayersSitStep, BaseStep DEF Base, Seating
  <2>2. CASE UNCHANGED HVars
    BY <1>2, <2>2
       DEF HVars, vars, Seating, PlayersSit, Playing, Connected, Sits, Listing, Without
  <2> QED BY <2>1, <2>2
<1> QED BY <1>1, <1>2 DEF Seating

\* getGameByPlayer answers a connected player who is in a game with a game
\* until somebody is served late or plays without a name.
THEOREM PlayersHaveGames == HSpec => []InGameHasGame
<1>1. HInit => Seating
  BY RequestsInit DEF HInit, Init, Seating, PlayersSit, Playing, Listing, ToSet
<1>2. Base /\ Seating => InGameHasGame
  <2> SUFFICES ASSUME Base, Seating, Without({"late", "anonymous"}),
                      NEW p \in Listing, Connected(p), player[p].inGame
               PROVE  GameIndex(player, p) # 0
    BY DEF InGameHasGame
  <2>1. TypeInv /\ games \in Seq(GameRec) /\ DOMAIN games = 1..Len(games)
    BY LenProperties DEF Base, IInv, TypeInv, TypeOK
  <2>2. p \in Conn
    BY <2>1, Shapes
  <2>3. PICK j \in 1..Len(games) : p \in {games[j].p1, games[j].p2}
    BY <2>1, <2>2 DEF Seating, PlayersSit, Playing, Sits
  <2>4. player[p].name \in {player[games[j].p1].name, player[games[j].p2].name}
    BY <2>3
  <2> QED BY <2>1, <2>4, LastGame
<1> QED BY <1>1, <1>2, SeatingStep, BaseInit, BaseStep, PTL DEF HSpec
=============================================================================
