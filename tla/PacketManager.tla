---------------------------- MODULE PacketManager ----------------------------
(***************************************************************************)
(* The PacketManager thread: it turns packets into commands and looks up   *)
(* the player each came from.  The lookup and the push to the command      *)
(* queue are separate steps: other threads run in between.                 *)
(***************************************************************************)
EXTENDS ServerState

PmReady ==
  /\ crashed = "no"
  /\ pmMess = NoMess
  /\ disc["pm"] = NoDisc
  /\ packetQueue # <<>>

\* A readable packet: deserialize and getPlayerBySocket, nullptr included.
LookUp ==
  LET packet == Head(packetQueue)
  IN  /\ PmReady
      /\ packet.header # "BAD"
      /\ packetQueue' = Tail(packetQueue)
      /\ pmMess' = [header |-> packet.header, arg |-> packet.arg,
                    player |-> getPlayerBySocket(packet.socket)]
      /\ out' = <<>>
      /\ UNCHANGED <<player, born, players, games, clientSocks, commandQueue, disc, crashed>>

\* CommandManager::registerCommand(mess)
Register ==
  /\ crashed = "no"
  /\ pmMess # NoMess
  /\ commandQueue' = Append(commandQueue, pmMess)
  /\ pmMess' = NoMess
  /\ out' = <<>>
  /\ UNCHANGED <<player, born, players, games, clientSocks, packetQueue, disc, crashed>>

\* if (p->bullshitMessages >= 10).  A mutant: one more is allowed.
TooMany_OffByOne(n) == n > BullshitLimit
TooMany(n) == n >= BullshitLimit

\* An unreadable packet: count it against the player now on its descriptor
\* and drop him at the limit.  The count saturates there.
Unreadable ==
  LET s == Head(packetQueue).socket
      p == getPlayerBySocket(s)
      n == IF p # NoConn /\ player[p].bullshitMessages < BullshitLimit
           THEN player[p].bullshitMessages + 1 ELSE BullshitLimit
  IN  /\ PmReady
      /\ Head(packetQueue).header = "BAD"
      /\ packetQueue' = Tail(packetQueue)
      /\ player' = IF p = NoConn THEN player
                   ELSE [player EXCEPT ![p].bullshitMessages = n]
      /\ IF p # NoConn /\ TooMany(n)
         THEN DisconnectBegin("pm", s)
         ELSE UNCHANGED <<clientSocks, disc, crashed>>
      /\ out' = <<>>
      /\ UNCHANGED <<born, players, games, pmMess, commandQueue>>

PacketManagerNext == LookUp \/ Register \/ Unreadable \/ DisconnectEnd("pm")
=============================================================================
