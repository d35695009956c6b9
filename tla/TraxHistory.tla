----------------------------- MODULE TraxHistory -----------------------------
(***************************************************************************)
(* TraxServer with a history variable.  Some of what the code relies on is *)
(* true only until the threads meet in an unfortunate order; races records *)
(* which of these orders have happened, and each property here names the   *)
(* ones it does not survive.  The variable only observes: the steps are    *)
(* those of TraxServer.                                                    *)
(***************************************************************************)
EXTENDS TraxServer

VARIABLE races   \* the kinds of race met so far

Race == {"reuse", "overlap", "nobody", "erasure", "renaming", "late", "anonymous"}

Begins(t) == disc[t] = NoDisc /\ disc'[t] # NoDisc
Handled   == commandQueue # <<>> /\ commandQueue' = Tail(commandQueue)

\* accept() returns the descriptor of a player whose disconnection another
\* thread has begun and not ended.
Reuse == \E s \in clientSocks' \ clientSocks, p \in Leaving \ {NoConn} : player[p].socket = s

\* A disconnection begins while another thread is in the middle of one: the
\* two may hold indices into the same vector, or the same player.
Overlap == \E t, u \in Thread : t # u /\ Begins(t) /\ disc[u] # NoDisc

\* A disconnection begins with an entry of the vector that is not that of the
\* descriptor just closed: there was none, and "pl" and the index are garbage.
Nobody ==
  \E t \in Thread :
    LET d == disc'[t]
    IN  /\ Begins(t)
        /\ ~ /\ d.index \in DOMAIN players
             /\ players[d.index] = d.player
             /\ Connected(d.player)
             /\ player[d.player].socket \notin clientSocks'

\* A handler erases entries of the vector while another thread holds an index
\* into it, or erases a player who is still connected.
Erasure ==
  /\ Handled
  /\ players' # players
  /\ \/ \E t \in Thread : disc[t] # NoDisc
     \/ \E p \in Listing \ Listing' : Connected(p)

\* A player who has a name registers or reconnects under another one.
Renaming == \E p \in Conn : player[p].name # NoName /\ player'[p].name # player[p].name

\* A command is handled after its player was erased from the vector.
Late == Handled /\ Command.player \notin Listing \cup {NoConn}

\* A player without a name comes to be in a game.
Anonymous ==
  \E p \in Conn : ~player[p].inGame /\ player'[p].inGame /\ player'[p].name = NoName

Met == {r \in Race : \/ r = "reuse"     /\ Reuse
                     \/ r = "overlap"   /\ Overlap
                     \/ r = "nobody"    /\ Nobody
                     \/ r = "erasure"   /\ Erasure
                     \/ r = "renaming"  /\ Renaming
                     \/ r = "late"      /\ Late
                     \/ r = "anonymous" /\ Anonymous}

HVars == <<vars, races>>

HInit == Init /\ races = {}
HNext == Next /\ races' = races \cup Met

HSpec == HInit /\ [][HNext]_HVars

\* None of the kinds in R was met.
Without(R) == races \cap R = {}

-----------------------------------------------------------------------------
(* Invariants.                                                             *)

\* Unless a descriptor was reused too early, that of a listed player is open
\* and his alone until his disconnection begins: a reused descriptor never
\* finds the player who held it before.
DescriptorsOwnedOnce ==
  Without({"reuse"}) =>
    \A p \in Listing : Connected(p) /\ p \notin Leaving =>
      /\ player[p].socket \in clientSocks
      /\ \A q \in Listing : player[q].socket = player[p].socket => q = p

\* Every descriptor select() watches has a listed player, so its messages and
\* its end of file find him, as long as disconnections do not overlap, find
\* the player they are about, and no handler erases entries under them.
EveryDescriptorHasPlayer ==
  Without({"overlap", "nobody", "erasure"}) =>
    \A s \in clientSocks : \E p \in Listing : player[p].socket = s

\* As long as disconnections do not overlap and find the player they are
\* about, a player is reported lost once: the notice is not queued twice, nor
\* again after it was handled.
OneLossNotice ==
  Without({"overlap", "nobody"}) =>
    \A p \in Conn :
      LET notices == {i \in DOMAIN commandQueue :
                        commandQueue[i].header = "PL_LOST" /\ commandQueue[i].player = p}
      IN  notices # {} => ~player[p].lost /\ \A i, j \in notices : i = j

\* The player on turn is one of the two of the game, as long as nobody takes a
\* second name.  The pointer is not replaced on a reconnection, so he is so by
\* name.
OnTurnIsPlayer ==
  Without({"renaming"}) =>
    \A g \in ToSet(games) :
      player[g.playerOnTurn].name \in {player[g.p1].name, player[g.p2].name}

\* A connected, listed player who is in a game is found by getGameByPlayer:
\* the handlers of his moves and of his logout dereference the result.  It is
\* so as long as everybody in a game has a name and no erased player is served.
InGameHasGame ==
  Without({"late", "anonymous"}) =>
    \A p \in Listing : Connected(p) /\ player[p].inGame => GameIndex(player, p) # 0
=============================================================================
