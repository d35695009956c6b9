------------------------------- MODULE Server -------------------------------
(***************************************************************************)
(* The Server thread: Server::run waits in select() and then accepts a     *)
(* connection, reads a message, or finds that a client is gone.            *)
(***************************************************************************)
EXTENDS ServerState

ServerReady == crashed = "no" /\ disc["server"] = NoDisc

\* accept() returns the lowest free descriptor.  That a setsockopt() fails,
\* which ends the process, is left out.
acceptNewConnection(s) == \A r \in Sock \ clientSocks : s <= r

\* The new Player object joins the descriptors watched and the end of the
\* vector.
Accept ==
  /\ ServerReady
  /\ born < MaxConnections
  /\ \E s \in Sock \ clientSocks :
       /\ acceptNewConnection(s)
       /\ clientSocks' = clientSocks \cup {s}
       /\ player' = [player EXCEPT ![born + 1] = NewPlayer(s)]
  /\ born' = born + 1
  /\ players' = Append(players, born + 1)
  /\ out' = <<>>
  /\ UNCHANGED <<games, packetQueue, pmMess, commandQueue, disc, crashed>>

-----------------------------------------------------------------------------
(* What clients send.  The clients are not part of the server; a polite    *)
(* one keeps to the order of the dialogue the server answers to.  What it  *)
(* has been told is read off the Player object of its connection.          *)

InFlight == Len(packetQueue) + Len(commandQueue) + (IF pmMess = NoMess THEN 0 ELSE 1)

\* The connection at the other end of s: the newest object that holds s.
Client(s) ==
  LET holders == {p \in 1..born : player[p].socket = s}
  IN  IF holders = {} THEN NoConn ELSE Max(holders)

\* Headers sent on s that CommandManager has not handled yet.
Pending(s, p) ==
  {packetQueue[i].header : i \in {j \in DOMAIN packetQueue : packetQueue[j].socket = s}}
  \cup {m.header : m \in {n \in ToSet(commandQueue) \cup {pmMess} : n.player = p}}

\* Is h with the name a what a polite client on descriptor s may send now?
Expected(s, h, a) ==
  LET p == Client(s)
      Idle == Pending(s, p) = {}
  IN  /\ p # NoConn
      /\ CASE h \in {"NEW_PL", "PL_RECONN"} -> Idle /\ player[p].name = NoName
           [] h = "PL_LIST_REQ" -> Idle /\ player[p].name # NoName
           [] h = "JOIN_PLAYER" -> /\ Idle
                                   /\ player[p].name \notin {NoName, a}
                                   /\ ~player[p].inGame
                                   /\ \A q \in 1..born : player[q].askedForJoiningBy # p
           [] h \in {"ACCEPT_JOIN", "DECLIN_JOIN"} ->
                                   Idle /\ player[p].askedForJoiningBy # NoConn
           [] h = "GAME_MOVE" -> /\ Idle
                                 /\ player[p].inGame
                                 /\ \E g \in ToSet(games) : player[g.playerOnTurn].name = player[p].name
           [] h = "PL_LOGOUT" -> player[p].name # NoName /\ "PL_LOGOUT" \notin Pending(s, p)
           [] OTHER -> TRUE

Args(h) == IF h \in {"NEW_PL", "PL_RECONN", "JOIN_PLAYER"} THEN Name ELSE {NoName}

\* recv() and processData: the bytes go to the packet queue with the
\* descriptor they came from.
Receive ==
  /\ ServerReady
  /\ InFlight < MaxInFlight
  /\ \E s \in clientSocks, h \in Headers : \E a \in Args(h) :
       /\ Polite => Expected(s, h, a)
       /\ packetQueue' = Append(packetQueue, [socket |-> s, header |-> h, arg |-> a])
  /\ out' = <<>>
  /\ UNCHANGED <<player, born, players, games, clientSocks, pmMess, commandQueue,
                 disc, crashed>>

\* FIONREAD reports no bytes: the client is gone.
ClientGone ==
  /\ ServerReady
  /\ \E s \in clientSocks : DisconnectBegin("server", s)
  /\ out' = <<>>
  /\ UNCHANGED <<player, born, players, games, packetQueue, pmMess, commandQueue>>

ServerNext == Accept \/ Receive \/ ClientGone \/ DisconnectEnd("server")
=============================================================================
