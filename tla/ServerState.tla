---------------------------- MODULE ServerState ----------------------------
(***************************************************************************)
(* The memory the threads of the Trax server share, and the lookups they   *)
(* make in it.  Four threads run in the process: Server (the select loop), *)
(* PacketManager, CommandManager and Sender.  The first three read and     *)
(* write what is declared here; the Sender only drains what the others     *)
(* hand to it and is represented by the batch in "out".                    *)
(*                                                                         *)
(* A Player object is never freed by the program, so a pointer stays valid *)
(* after the object left Server::players.  Objects are numbered in the     *)
(* order they are allocated; NoConn is nullptr.                            *)
(***************************************************************************)
EXTENDS Integers, SequencesExt

CONSTANTS
  MaxConnections,  \* bound: how many connections are accepted in a behaviour
  Name,            \* the user names clients choose from
  NoName,          \* the empty name of a player that never registered
  Sock,            \* the descriptors accept() can return
  Headers,         \* the messages clients send in this instance
  MaxInFlight,     \* bound: packets and commands in the two queues
  BullshitLimit,   \* unreadable messages before a client is dropped (10)
  Polite           \* TRUE: clients follow the protocol, see Server!Expected

ClientHeader == {"NEW_PL", "PL_RECONN", "PL_LOGOUT", "PL_LIST_REQ",
                 "JOIN_PLAYER", "DECLIN_JOIN", "ACCEPT_JOIN", "GAME_MOVE", "BAD"}

ASSUME ConnectionsAssumption == MaxConnections \in Nat \ {0}
ASSUME NameAssumption        == NoName \notin Name
ASSUME SockAssumption        == Sock \subseteq Nat
ASSUME HeadersAssumption     == Headers \subseteq ClientHeader
ASSUME BoundsAssumption      == MaxInFlight \in Nat /\ BullshitLimit \in Nat \ {0}
ASSUME PoliteAssumption      == Polite \in BOOLEAN

Conn   == 1..MaxConnections
NoConn == 0
NoSock == -1
Thread == {"server", "pm", "cm"}

VARIABLES
  player,        \* the Player objects
  born,          \* how many of them were constructed
  players,       \* the vector Server::players of pointers
  games,         \* the vector GameManager::games
  clientSocks,   \* open client descriptors, the set select() watches
  packetQueue,   \* PacketManager::packetQueue
  pmMess,        \* the message PacketManager::run holds but has not pushed yet
  commandQueue,  \* CommandManager::commandQueue
  disc,          \* what each thread holds inside proceedPlayerDisconnection
  out,           \* messages the last step handed to Sender::registerMessage
  crashed        \* "no", or the bad access that ended the process

vars == <<player, born, players, games, clientSocks, packetQueue, pmMess,
          commandQueue, disc, out, crashed>>

PlayerRec == [socket : Sock \cup {NoSock}, name : Name \cup {NoName},
              inGame : BOOLEAN, availible : BOOLEAN, lost : BOOLEAN,
              joiningPlayer : Conn \cup {NoConn},
              askedForJoiningBy : Conn \cup {NoConn},
              bullshitMessages : 0..BullshitLimit]

\* Player::Player(int socket); NoSock stands for socketSet = false.
NewPlayer(s) == [socket |-> s, name |-> NoName, inGame |-> FALSE,
                 availible |-> FALSE, lost |-> FALSE, joiningPlayer |-> NoConn,
                 askedForJoiningBy |-> NoConn, bullshitMessages |-> 0]

GameRec   == [p1 : Conn, p2 : Conn, playerOnTurn : Conn]
PacketRec == [socket : Sock, header : Headers, arg : Name \cup {NoName}]
MessRec   == [header : Headers, arg : Name \cup {NoName},
              player : Conn \cup {NoConn}]
LostRec   == [header : {"PL_LOST"}, arg : {NoName}, player : Conn]
DiscRec   == [player : Conn, index : 0..MaxConnections, inGame : BOOLEAN]
OutRec    == [to : Conn, header : {"ACK", "NACK", "NACK_REAS", "GONE", "PL_LIST_ANS",
                "JOIN_PLAYER", "GAME_START", "GAME_MOVE", "GAME_WON", "GAME_ENDED",
                "PL_LOSS", "GAME_CON"}, about : SUBSET Conn]

NoMess == [header |-> "none", arg |-> NoName, player |-> NoConn]
NoDisc == [player |-> NoConn, index |-> 0, inGame |-> FALSE]

TypeOK ==
  /\ player \in [Conn -> PlayerRec]
  /\ born \in 0..MaxConnections
  /\ players \in Seq(1..born)
  /\ games \in Seq(GameRec)
  /\ clientSocks \subseteq Sock
  /\ packetQueue \in Seq(PacketRec)
  /\ pmMess \in MessRec \cup {NoMess}
  /\ commandQueue \in Seq(MessRec \cup LostRec)
  /\ disc \in [Thread -> DiscRec \cup {NoDisc}]
  /\ out \in Seq(OutRec)
  /\ crashed \in {"no", "player", "pl", "vector", "asking", "game"}

Init ==
  /\ player = [p \in Conn |-> NewPlayer(NoSock)]
  /\ born = 0
  /\ players = <<>>
  /\ games = <<>>
  /\ clientSocks = {}
  /\ packetQueue = <<>>
  /\ pmMess = NoMess
  /\ commandQueue = <<>>
  /\ disc = [t \in Thread |-> NoDisc]
  /\ out = <<>>
  /\ crashed = "no"

-----------------------------------------------------------------------------
(* Lookups.  "objs" is the state of the Player objects at the time of the  *)
(* call: a handler may have renamed one before it looks.                   *)

\* The loops over Server::players that stop at the first match; 0: no match.
IndexBySocket(s) ==
  SelectInSeq(players, LAMBDA p : player[p].socket = s /\ s # NoSock)
IndexByName(objs, vec, n) == SelectInSeq(vec, LAMBDA p : objs[p].name = n)

At(vec, i) == IF i = 0 THEN NoConn ELSE vec[i]
getPlayerBySocket(s) == At(players, IndexBySocket(s))
getPlayerByName(n)   == At(players, IndexByName(player, players, n))

\* getGameByPlayer: no break in the loop, so the last match; 0: nullptr.
GameIndex(objs, p) ==
  SelectLastInSeq(games, LAMBDA g : objs[p].name \in {objs[g.p1].name, objs[g.p2].name})
OponentIn(objs, g, p) == IF objs[g.p1].name = objs[p].name THEN g.p2 ELSE g.p1

\* deletePlayer(p): the loop leaves the index of the first player with the
\* name of p, or of the last player when none has it.  Erasing from an empty
\* vector is undefined; the caller records the crash.
WithoutPlayer(objs, vec, p) ==
  LET i == IndexByName(objs, vec, objs[p].name)
  IN  IF vec = <<>> THEN vec ELSE RemoveAt(vec, IF i = 0 THEN Len(vec) ELSE i)

-----------------------------------------------------------------------------
(* proceedPlayerDisconnection, as the calling thread t runs it: the Server  *)
(* thread on end of file, PacketManager on too many unreadable messages,   *)
(* CommandManager on a logout.  Other threads may run between its reads    *)
(* and its writes, so it is two steps.                                     *)

\* FD_CLR(s, &clientSocks).
Cleared(s) == clientSocks \ {s}

\* close, FD_CLR, the search, and the test of isInGame.  Without a match
\* "pl" is uninitialised: whatever object it happens to point to, or a crash.
\* A player who has no descriptor passes -1, which is nobody's.
DisconnectBegin(t, s) ==
  LET i == IndexBySocket(s)
      Holds(p, k) == disc' = [disc EXCEPT ![t] =
                        [player |-> p, index |-> k, inGame |-> player[p].inGame]]
  IN  /\ clientSocks' = Cleared(s)
      /\ \/ i # 0 /\ Holds(players[i], i) /\ UNCHANGED crashed
         \/ i = 0 /\ \E p \in 1..born : Holds(p, Len(players)) /\ UNCHANGED crashed
         \/ i = 0 /\ crashed' = "pl" /\ UNCHANGED disc

\* removeSocket(), and outside a game joiningPlayer = nullptr.
\* A mutant: a player in a game keeps his descriptor.
Unplugged_OutsideGame(d) ==
  IF d.inGame THEN player
  ELSE [player EXCEPT ![d.player].socket = NoSock, ![d.player].joiningPlayer = NoConn]
Unplugged(d) ==
  [player EXCEPT ![d.player].socket = NoSock,
                 ![d.player].joiningPlayer = IF d.inGame THEN @ ELSE NoConn]

\* registerCommand of the notice that the player of d is lost.  Mutants: it is
\* forgotten; the player is not filled in.
Noticed_Never(d) == commandQueue
Noticed_Blank(d) ==
  Append(commandQueue, [header |-> "PL_LOST", arg |-> NoName, player |-> NoConn])
Noticed(d) ==
  Append(commandQueue, [header |-> "PL_LOST", arg |-> NoName, player |-> d.player])

\* players->erase(begin() + i - 1).  Past the end it is undefined: the
\* vector loses its last element or the process ends.
\* A mutant: the index is counted from the wrong end.
Erased_FromEnd(i) == RemoveAt(players, Len(players) + 1 - i)
Erased(i) == RemoveAt(players, i)
EraseAt(i) ==
  \/ i \in DOMAIN players /\ players' = Erased(i) /\ UNCHANGED crashed
  \/ i > Len(players) /\ players # <<>> /\ players' = Front(players) /\ UNCHANGED crashed
  \/ i \notin DOMAIN players /\ crashed' = "vector" /\ UNCHANGED players

\* The branch chosen by the test made in DisconnectBegin.
DisconnectEnd(t) ==
  LET d == disc[t]
  IN  /\ crashed = "no"
      /\ d # NoDisc
      /\ disc' = [disc EXCEPT ![t] = NoDisc]
      /\ player' = Unplugged(d)
      /\ \/ ~d.inGame /\ EraseAt(d.index) /\ UNCHANGED commandQueue
         \/ d.inGame /\ commandQueue' = Noticed(d) /\ UNCHANGED <<players, crashed>>
      /\ out' = <<>>
      /\ UNCHANGED <<born, games, clientSocks, packetQueue, pmMess>>
=============================================================================
