-------------------------------- MODULE Board --------------------------------
(***************************************************************************)
(* The board of a game and GameManager::isGameWon.  A card shows a white   *)
(* and a black line, each joining two of its sides; a player wins by       *)
(* closing a line of one colour into a loop.  The server follows the two   *)
(* lines of the card just played.  It does not check that a card fits, so  *)
(* the players of this module, who are outside the server, play by the     *)
(* rules of the game.                                                      *)
(***************************************************************************)
EXTENDS Integers, FiniteSets

CONSTANTS Rows, Cols   \* the size of the board (8 and 8)

ASSUME SizeAssumption == Rows \in Nat \ {0} /\ Cols \in Nat \ {0}

VARIABLES
  field,   \* the card on each square, 0 for none
  last,    \* the square played last
  won      \* what isGameWon answered for it

vars == <<field, last, won>>

Square == (0 .. Rows - 1) \X (0 .. Cols - 1)
Card   == 1..6
Side   == {"up", "down", "left", "right"}

Neighbour(sq, side) ==
  CASE side = "up"    -> <<sq[1] - 1, sq[2]>>
    [] side = "down"  -> <<sq[1] + 1, sq[2]>>
    [] side = "left"  -> <<sq[1], sq[2] - 1>>
    [] side = "right" -> <<sq[1], sq[2] + 1>>

\* The sides the line of a colour joins on each card, in the order the switch
\* of controlWhite and of controlBlack tries them.
White == << <<"left", "right">>, <<"up", "down">>, <<"up", "left">>,
            <<"down", "left">>, <<"down", "right">>, <<"up", "right">> >>
Black == << <<"up", "down">>, <<"left", "right">>, <<"down", "right">>,
            <<"up", "right">>, <<"up", "left">>, <<"down", "left">> >>

-----------------------------------------------------------------------------
(* controlWhite and controlBlack on the board f: the set of what they may  *)
(* answer, each with the squares then marked in ctrlField.  Neither has a  *)
(* return after its switch, so where both sides fail the answer is         *)
(* undefined: it may be either.                                            *)

\* What a call is about: the square, the one the line comes from (itself at
\* first) and the squares marked so far.
Calls == LET Place == (-1 .. Rows) \X (-1 .. Cols)
         IN  [sq : Place, from : Place, ctrl : SUBSET Square]

\* One call, where deeper is what the calls it makes may answer.
Call(f, lines, deeper, c) ==
  LET Try(side, ctrl) ==
        IF Neighbour(c.sq, side) = c.from THEN {[yes |-> FALSE, ctrl |-> ctrl]}
        ELSE deeper[[sq |-> Neighbour(c.sq, side), from |-> c.sq, ctrl |-> ctrl]]
      sides == lines[f[c.sq]]
      first == Try(sides[1], c.ctrl \cup {c.sq})
      both == UNION {IF r.yes THEN {r} ELSE Try(sides[2], r.ctrl) : r \in first}
  IN  IF c.sq \notin Square \/ f[c.sq] = 0 THEN {[yes |-> FALSE, ctrl |-> c.ctrl]}
      ELSE IF c.sq \in c.ctrl THEN {[yes |-> TRUE, ctrl |-> c.ctrl]}
      ELSE both \cup {[r EXCEPT !.yes = TRUE] : r \in both}

\* A call that calls has marked its square: they nest no deeper than there are
\* squares.
Control(f, lines, sq) ==
  LET answers[n \in 0..Cardinality(Square)] ==
        [c \in Calls |->
           Call(f, lines, IF n = 0 THEN [d \in Calls |-> {}] ELSE answers[n - 1], c)]
  IN  answers[Cardinality(Square)][[sq |-> sq, from |-> sq, ctrl |-> {}]]

\* ctrlField is cleared between the colours.  A mutant: the answer for black
\* is not used.
isGameWon_WhiteOnly(f, sq) ==
  {w.yes : w \in Control(f, White, sq)}
isGameWon(f, sq) ==
  {w.yes \/ b.yes : w \in Control(f, White, sq), b \in Control(f, Black, sq)}

-----------------------------------------------------------------------------
(* The moves of the players.                                               *)

Init ==
  /\ field = [sq \in Square |-> 0]
  /\ last = <<0, 0>>
  /\ won = FALSE

\* What is not white on a card is black.
IsWhite(card, side) == \E k \in 1..2 : White[card][k] = side
IsBlack(card, side) == ~IsWhite(card, side)

Across == [up |-> "down", down |-> "up", left |-> "right", right |-> "left"]

\* A card goes next to another and continues the lines it meets.
Fits(card, sq) ==
  LET beside == {side \in Side : Neighbour(sq, side) \in Square
                                   /\ field[Neighbour(sq, side)] # 0}
  IN  /\ field[sq] = 0
      /\ beside # {} \/ \A s \in Square : field[s] = 0
      /\ \A side \in beside :
           IsWhite(card, side) <=> IsWhite(field[Neighbour(sq, side)], Across[side])

\* processGameMove: the card is put on the board, whatever was there, and the
\* game is over if the move won it.
Move(sq, card) ==
  /\ ~won
  /\ Fits(card, sq)
  /\ field' = [field EXCEPT ![sq] = card]
  /\ last' = sq
  /\ won' \in isGameWon(field', sq)

Next == \E sq \in Square, card \in Card : Move(sq, card)

Spec == Init /\ [][Next]_vars

-----------------------------------------------------------------------------
(* By the rules: a loop is a set of squares whose lines of one colour lead *)
(* only to one another.                                                    *)

InLoop(colour(_, _), sq) ==
  \E loop \in SUBSET {s \in Square : field[s] # 0} :
    /\ sq \in loop
    /\ \A s \in loop, side \in Side :
         colour(field[s], side) => Neighbour(s, side) \in loop

LoopClosed == InLoop(IsWhite, last) \/ InLoop(IsBlack, last)

\* A move that closes a loop is found to win, whichever colour, direction and
\* card it closes it with.
LoopIsWon == LoopClosed => won

\* "Was it winning move?": only a move that closes a loop is.
WonIsLoop == won => LoopClosed
=============================================================================
