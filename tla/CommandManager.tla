--------------------------- MODULE CommandManager ---------------------------
(***************************************************************************)
(* The CommandManager thread: one action per handler of the protocol.  It  *)
(* is the only thread that writes games and the protocol fields of the     *)
(* Player objects.  A handler is one step, but for the disconnection that  *)
(* ends a logout.  A bad access ends the process: crashed names it.        *)
(***************************************************************************)
EXTENDS ServerState

Command == Head(commandQueue)

\* CommandManager::run picks the next command and switches on its header.
Handles(h) ==
  /\ crashed = "no"
  /\ disc["cm"] = NoDisc
  /\ commandQueue # <<>>
  /\ Command.header = h
  /\ commandQueue' = Tail(commandQueue)
  /\ UNCHANGED <<born, packetQueue, pmMess>>

Sends(msgs) == out' = msgs
Msg(p, h, about) == [to |-> p, header |-> h, about |-> about]

Crashes(reason) ==
  /\ crashed' = reason
  /\ Sends(<<>>)
  /\ UNCHANGED <<player, players, games, clientSocks, disc>>

\* The handlers for h run on the player p of the command.
HandlesFor(h, p) == Handles(h) /\ p = Command.player /\ p # NoConn

\* Every handler dereferences mess->player; PacketManager may have set nullptr.
NullPlayer ==
  \E h \in Headers : Handles(h) /\ Command.player = NoConn /\ Crashes("player")

-----------------------------------------------------------------------------

\* A mutant: the names of lost players count as free.
isUsernameAvailible_LostIsFree(n) ==
  \A p \in ToSet(players) : player[p].name = n => player[p].lost
isUsernameAvailible(n) == \A p \in ToSet(players) : player[p].name # n

\* A mutant: the refusal is not sent.
Refusal_Silent(p) == <<>>
Refusal(p) == <<Msg(p, "NACK_REAS", {})>>

NewPlayerConnection(p) ==
  /\ HandlesFor("NEW_PL", p)
  /\ \/ /\ isUsernameAvailible(Command.arg)
        /\ player' = [player EXCEPT ![p].name = Command.arg, ![p].availible = TRUE]
        /\ Sends(<<Msg(p, "ACK", {})>>)
     \/ /\ ~isUsernameAvailible(Command.arg)
        /\ Sends(Refusal(p))
        /\ UNCHANGED player
  /\ UNCHANGED <<players, games, clientSocks, disc, crashed>>

\* The players a list answer names.  nameSet is never initialised: whether
\* an unnamed player is listed is up to what the memory held.
Listed(p) ==
  LET free == {q \in ToSet(players) : /\ ~player[q].inGame
                                      /\ player[q].availible
                                      /\ player[q].socket # NoSock
                                      /\ player[q].name # player[p].name}
      named == {q \in free : player[q].name # NoName}
  IN  {named \cup junk : junk \in SUBSET (free \ named)}

ListRequest(p) ==
  /\ HandlesFor("PL_LIST_REQ", p)
  /\ \E names \in Listed(p) : Sends(<<Msg(p, "PL_LIST_ANS", names)>>)
  /\ UNCHANGED <<player, players, games, clientSocks, disc, crashed>>

-----------------------------------------------------------------------------

Joining(p) ==
  LET q == getPlayerByName(Command.arg)
      joinable == /\ q # NoConn
                  /\ player[q].availible
                  /\ player[q].socket # NoSock
                  /\ ~player[q].inGame
  IN  /\ HandlesFor("JOIN_PLAYER", p)
      /\ \/ /\ joinable
            /\ player' = [player EXCEPT ![p].availible = FALSE,
                                        ![p].joiningPlayer = q,
                                        ![q].askedForJoiningBy = p,
                                        ![q].availible = FALSE]
            /\ Sends(<<Msg(p, "ACK", {}), Msg(q, "JOIN_PLAYER", {p})>>)
         \/ /\ ~joinable
            /\ Sends(<<Msg(p, "NACK", {})>>)
            /\ UNCHANGED player
      /\ UNCHANGED <<players, games, clientSocks, disc, crashed>>

\* asking->setAvailible and asking->hasSocket dereference askedForJoiningBy.
NullAsking(p) ==
  /\ \E h \in {"ACCEPT_JOIN", "DECLIN_JOIN"} : HandlesFor(h, p)
  /\ player[p].askedForJoiningBy = NoConn
  /\ Crashes("asking")

\* The joiningPlayer of asking is read after that of asked was cleared: when
\* a player asked himself the two are the same object.
AcceptJoin(p) ==
  LET asking == player[p].askedForJoiningBy
      answered == [player EXCEPT ![p].askedForJoiningBy = NoConn,
                                 ![p].joiningPlayer = NoConn,
                                 ![asking].availible = FALSE,
                                 ![p].availible = FALSE]
  IN  /\ HandlesFor("ACCEPT_JOIN", p)
      /\ asking # NoConn
      /\ \/ /\ answered[asking].joiningPlayer # NoConn
            /\ player' = [answered EXCEPT ![asking].inGame = TRUE, ![p].inGame = TRUE]
            /\ games' = Append(games, [p1 |-> asking, p2 |-> p, playerOnTurn |-> asking])
            /\ Sends(<<Msg(asking, "GAME_START", {p}), Msg(p, "GAME_START", {asking})>>)
         \/ /\ answered[asking].joiningPlayer = NoConn
            /\ player' = answered
            /\ Sends(IF player[p].socket # NoSock
                     THEN <<Msg(p, "GONE", {asking})>> ELSE <<>>)
            /\ UNCHANGED games
      /\ UNCHANGED <<players, clientSocks, disc, crashed>>

DeclineJoin(p) ==
  LET asking == player[p].askedForJoiningBy
  IN  /\ HandlesFor("DECLIN_JOIN", p)
      /\ asking # NoConn
      /\ player' = [player EXCEPT ![p].askedForJoiningBy = NoConn,
                                  ![p].joiningPlayer = NoConn,
                                  ![asking].availible = TRUE,
                                  ![p].availible = TRUE]
      /\ Sends(IF player[asking].socket # NoSock
               THEN <<Msg(asking, "NACK_REAS", {p})>> ELSE <<>>)
      /\ UNCHANGED <<players, games, clientSocks, disc, crashed>>

-----------------------------------------------------------------------------

\* game->getPlayer1() where getGameByPlayer returned nullptr.
NullGame(p) ==
  /\ \/ HandlesFor("GAME_MOVE", p) \/ HandlesFor("PL_LOST", p)
     \/ HandlesFor("PL_LOGOUT", p) /\ player[p].inGame
  /\ GameIndex(player, p) = 0
  /\ Crashes("game")

\* Both players are free again.  A mutant: only the one who ended the game.
Freed_One(p, q) == [player EXCEPT ![p].inGame = FALSE, ![p].availible = TRUE]
Freed(p, q) == [player EXCEPT ![p].inGame = FALSE, ![q].inGame = FALSE,
                              ![p].availible = TRUE, ![q].availible = TRUE]

\* The board is abstracted: any move may win (module Board has isGameWon).
GameMove(p) ==
  LET i == GameIndex(player, p)
      q == OponentIn(player, games[i], p)
  IN  /\ HandlesFor("GAME_MOVE", p)
      /\ i # 0
      /\ \/ /\ player' = Freed(p, q)
            /\ games' = RemoveAt(games, i)
            /\ Sends(<<Msg(p, "GAME_WON", {p}), Msg(q, "GAME_WON", {p})>>)
         \/ /\ games' = [games EXCEPT ![i].playerOnTurn = q]
            /\ Sends(<<Msg(q, "GAME_MOVE", {})>>)
            /\ UNCHANGED player
      /\ UNCHANGED <<players, clientSocks, disc, crashed>>

\* A mutant: the one who ends the game is told, not the other.
EndNotice_Wrong(p, q) == <<Msg(p, "GAME_ENDED", {})>>
EndNotice(p, q) == <<Msg(q, "GAME_ENDED", {})>>

\* proceedGameEnding, and the branch of proceedPlayerLogout that calls it.
GameEnding(p) ==
  LET i == GameIndex(player, p)
      q == OponentIn(player, games[i], p)
  IN  /\ HandlesFor("PL_LOGOUT", p)
      /\ player[p].inGame
      /\ i # 0
      /\ \/ /\ player[q].lost
            /\ player' = [player EXCEPT ![p].inGame = FALSE, ![p].availible = TRUE]
            /\ players' = WithoutPlayer(player, players, q)
            /\ crashed' = IF players = <<>> THEN "vector" ELSE "no"
            /\ Sends(<<>>)
         \/ /\ ~player[q].lost
            /\ player' = Freed(p, q)
            /\ Sends(EndNotice(p, q))
            /\ UNCHANGED <<players, crashed>>
      /\ games' = RemoveAt(games, i)
      /\ UNCHANGED <<clientSocks, disc>>

\* A logout outside a game; the socket of p may already be gone.
Logout(p) ==
  /\ HandlesFor("PL_LOGOUT", p)
  /\ ~player[p].inGame
  /\ DisconnectBegin("cm", player[p].socket)
  /\ Sends(<<>>)
  /\ UNCHANGED <<player, players, games>>

-----------------------------------------------------------------------------

PlayerLost(p) ==
  LET i == GameIndex(player, p)
      q == OponentIn(player, games[i], p)
      marked == [player EXCEPT ![p].lost = TRUE]
  IN  /\ HandlesFor("PL_LOST", p)
      /\ i # 0
      /\ \/ /\ ~marked[q].lost
            /\ player' = marked
            /\ Sends(<<Msg(q, "PL_LOSS", {})>>)
            /\ UNCHANGED <<players, games, crashed>>
         \/ /\ marked[q].lost
            /\ player' = [marked EXCEPT ![p].inGame = FALSE, ![q].inGame = FALSE]
            /\ games' = RemoveAt(games, i)
            /\ players' = WithoutPlayer(player, WithoutPlayer(player, players, q), p)
            /\ crashed' = IF Len(players) < 2 THEN "vector" ELSE "no"
            /\ Sends(<<>>)
      /\ UNCHANGED <<clientSocks, disc>>

\* Game::setPlayer1 or setPlayer2 by the name of side 1.
\* A mutant: the other side is replaced.
Seated_Swapped(g, objs, p) ==
  IF objs[g.p1].name = objs[p].name THEN [g EXCEPT !.p2 = p] ELSE [g EXCEPT !.p1 = p]
Seated(g, objs, p) ==
  IF objs[g.p1].name = objs[p].name THEN [g EXCEPT !.p1 = p] ELSE [g EXCEPT !.p2 = p]

\* The object p of the new connection takes the place of the lost object.
Reconnection(p) ==
  LET old == getPlayerByName(Command.arg)
      isLost == old # NoConn /\ player[old].lost
      renamed == [player EXCEPT ![p].name = Command.arg,
                                ![p].availible = FALSE,
                                ![p].inGame = TRUE]
      i == GameIndex(renamed, old)
      game == Seated(games[i], renamed, p)
      q == OponentIn(renamed, game, p)
  IN  /\ HandlesFor("PL_RECONN", p)
      /\ \/ /\ ~isLost
            /\ Sends(<<Msg(p, "NACK", {})>>)
            /\ UNCHANGED <<player, players, games, crashed>>
         \/ /\ isLost
            /\ i = 0
            /\ crashed' = "game"
            /\ Sends(<<>>)
            /\ UNCHANGED <<player, players, games>>
         \/ /\ isLost
            /\ i # 0
            /\ player' = renamed
            /\ games' = [games EXCEPT ![i] = game]
            /\ players' = WithoutPlayer(renamed, players, old)
            /\ Sends(<<Msg(p, "GAME_CON", {q}), Msg(q, "GAME_CON", {p})>>)
            /\ UNCHANGED crashed
      /\ UNCHANGED <<clientSocks, disc>>

CommandManagerNext ==
  \/ NullPlayer
  \/ DisconnectEnd("cm")
  \/ \E p \in Conn :
       \/ NewPlayerConnection(p) \/ ListRequest(p) \/ Reconnection(p)
       \/ Joining(p) \/ AcceptJoin(p) \/ DeclineJoin(p) \/ NullAsking(p)
       \/ GameMove(p) \/ NullGame(p)
       \/ GameEnding(p) \/ Logout(p) \/ PlayerLost(p)
=============================================================================
