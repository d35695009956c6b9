----------------------------- MODULE TraxClaims -----------------------------
(***************************************************************************)
(* What comments in CommandManager.cpp say of its handlers, as properties. *)
(* The code does not keep them: the runs of this module show how.          *)
(***************************************************************************)
EXTENDS TraxServer

\* "If oponent not lost, inform him. Otherwise delete game and players":
\* either way there is a game to look the opponent up in, although he may
\* have ended it before the notice is handled.
LossHasGame == [][Handling("PL_LOST") => crashed' # "game"]_vars

\* "Inform oponent and send them complete game info": a player who is marked
\* lost has a game to come back to, although his opponent may have won it.
ReconnectionHasGame == [][Handling("PL_RECONN") => crashed' # "game"]_vars

\* "Proceeds player reconnection": the player sent the game is listed, so that
\* his next message finds him, although deletePlayer erases the first player
\* with the name, which is the new one when he connected before the old one.
ReconnectedIsListed ==
  [][Handling("PL_RECONN") /\ crashed' = "no" /\ Len(out') = 2
       => Command.player \in ToSet(players')]_vars
=============================================================================
