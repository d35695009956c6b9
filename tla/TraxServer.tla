----------------------------- MODULE TraxServer -----------------------------
(***************************************************************************)
(* The server: its threads interleaved, and what is expected of them.      *)
(***************************************************************************)
EXTENDS Server, PacketManager, CommandManager

Next == ServerNext \/ PacketManagerNext \/ CommandManagerNext

Spec == Init /\ [][Next]_vars

\* Every thread is a loop the operating system keeps running.  Nothing obliges
\* a client to send or to leave, so the Server thread is only required to
\* finish a disconnection it has begun.
Fairness ==
  /\ WF_vars(DisconnectEnd("server"))
  /\ WF_vars(PacketManagerNext)
  /\ WF_vars(CommandManagerNext)

FairSpec == Spec /\ Fairness

-----------------------------------------------------------------------------
(* Words the properties use.                                               *)

Up     == crashed = "no"
Listing == ToSet(players)
Connected(p) == player[p].socket # NoSock
Leaving == {disc[t].player : t \in Thread}

\* This step handles a command with header h, on a player.
Handling(h) ==
  /\ commandQueue # <<>>
  /\ Command.header = h
  /\ Command.player # NoConn
  /\ commandQueue' = Tail(commandQueue)

Tells(p) == \E i \in DOMAIN out : out[i].to = p

-----------------------------------------------------------------------------
(* Invariants.                                                             *)

\* No two entries of Server::players carry the same user name, whatever the
\* threads and the clients do: registration tests the name and reconnection
\* copies one and then erases the first entry that has it.
NamesUnique ==
  \A i, j \in DOMAIN players :
    i # j /\ player[players[i]].name = player[players[j]].name
      => player[players[i]].name = NoName

\* A player marked lost has no descriptor: the mark is set by a notice that is
\* queued after removeSocket, and a reconnection never revives the object.
LostHasNoSocket == \A p \in Conn : player[p].lost => ~Connected(p)

\* A listed player who reached the limit of unreadable messages is cut off,
\* or a thread is about to do it.
NoisyIsDropped ==
  \A p \in Listing :
    player[p].bullshitMessages = BullshitLimit => ~Connected(p) \/ p \in Leaving

-----------------------------------------------------------------------------
(* Action properties.                                                      *)

\* A connected player who leaves a game without asking for it is told so in
\* the same step.
EndIsAnnounced ==
  [][\A p \in Conn : player[p].inGame /\ ~player'[p].inGame /\ Connected(p)
       => \/ Handling("PL_LOGOUT") /\ Command.player = p
          \/ Tells(p)']_vars

-----------------------------------------------------------------------------
(* The abstract specification of user names.                               *)

Holds == {h \in Name \X Conn : h[2] \in Listing /\ player[h[2]].name = h[1]}
Lost  == {p \in Conn : player[p].lost}

Registry == INSTANCE NameRegistry WITH holds <- Holds, lost <- Lost

\* The server keeps the promise about names: no order of registrations,
\* reconnections, losses and disconnections hands a name on to another player
\* unless it was free or its holder was lost.
IsNameRegistry == Registry!Spec

-----------------------------------------------------------------------------
(* Liveness.                                                               *)

\* A request to register or to reconnect that reached PacketManager is
\* answered, unless the process ended.
RequestIsAnswered ==
  \A p \in Conn :
    (\E m \in {pmMess} \cup ToSet(commandQueue) :
        m.player = p /\ m.header \in {"NEW_PL", "PL_RECONN"})
      ~> (Tells(p) \/ ~Up)

\* A player cut off in the middle of a game comes to be marked lost, so that
\* he can reconnect, unless the process ended.
LossIsMarked ==
  \A p \in Conn :
    (\E t \in Thread : disc[t].player = p /\ disc[t].inGame) ~> (player[p].lost \/ ~Up)
=============================================================================
