---------------------------- MODULE BoardProofs ----------------------------
(***************************************************************************)
(* Theorems about Board, for boards of any size.                           *)
(***************************************************************************)
EXTENDS Board, SequenceLemmas

\* A board of a game.
Boards == [Square -> 0..6]

\* There are finitely many squares, so there is a last depth of nested calls.
LEMMA FiniteBoard == IsFiniteSet(Square) /\ Cardinality(Square) \in Nat
<1>1. IsFiniteSet(0 .. Rows - 1) /\ IsFiniteSet(0 .. Cols - 1)
  BY FS_Interval, SizeAssumption
<1>2. IsFiniteSet(Square)
  BY <1>1, FS_Product DEF Square
<1> QED BY <1>2, FS_CardinalityType

\* The answers of the calls, by the depth that is left.
IsAnswers(f, lines, a, limit) ==
  a = [n \in 0..limit |->
         [c \in Calls |-> Call(f, lines, IF n = 0 THEN [d \in Calls |-> {}] ELSE a[n - 1], c)]]

\* controlWhite and controlBlack always have an answer to speak of: the
\* recursive definition defines a function.
LEMMA ControlIs ==
  ASSUME NEW f, NEW lines, NEW sq
  PROVE  \E answers :
           /\ IsAnswers(f, lines, answers, Cardinality(Square))
           /\ Control(f, lines, sq)
                = answers[Cardinality(Square)][[sq |-> sq, from |-> sq, ctrl |-> {}]]
<1> DEFINE Is(a, m) == a = [n \in 0..m |->
                [c \in Calls |->
                   Call(f, lines, IF n = 0 THEN [d \in Calls |-> {}] ELSE a[n - 1], c)]]
           T == {m \in Nat : \E a : Is(a, m)}
<1>1. 0 \in T
  <2> DEFINE g == [n \in 0..0 |-> [c \in Calls |-> Call(f, lines, [d \in Calls |-> {}], c)]]
  <2>1. Is(g, 0)
    OBVIOUS
  <2> QED BY <2>1
<1>2. ASSUME NEW m \in Nat, m \in T PROVE m + 1 \in T
  <2>1. PICK a : Is(a, m)
    BY <1>2
  <2> DEFINE g == [n \in 0..(m + 1) |->
                     IF n = m + 1 THEN [c \in Calls |-> Call(f, lines, a[m], c)] ELSE a[n]]
  <2>2. Is(g, m + 1)
    <3>1. \A n \in 0..m : g[n] = a[n]
      OBVIOUS
    <3>2. ASSUME NEW n \in 0..(m + 1)
          PROVE  g[n] = [c \in Calls |->
                   Call(f, lines, IF n = 0 THEN [d \in Calls |-> {}] ELSE g[n - 1], c)]
      <4>1. CASE n = m + 1
        <5>1. n # 0 /\ n - 1 = m /\ g[m] = a[m]
          BY <4>1, <3>1
        <5> QED BY <4>1, <5>1
      <4>2. CASE n # m + 1
        <5>1. n \in 0..m /\ (n # 0 => n - 1 \in 0..m)
          BY <4>2
        <5>2. n # 0 => g[n - 1] = a[n - 1]
          BY <3>1, <5>1
        <5>3. g[n] = a[n]
          BY <3>1, <5>1
        <5>4. a[n] = [c \in Calls |->
                   Call(f, lines, IF n = 0 THEN [d \in Calls |-> {}] ELSE a[n - 1], c)]
          <6> HIDE DEF g
          <6> QED BY <2>1, <5>1
        <5> HIDE DEF g
        <5> QED BY <5>2, <5>3, <5>4
      <4> QED BY <4>1, <4>2
    <3> QED BY <3>2
  <2>3. \E x : Is(x, m + 1)
    <3> HIDE DEF g, Is
    <3> QED BY <2>2
  <2> QED
    <3> HIDE DEF Is
    <3> QED BY <2>3
<1>3. Cardinality(Square) \in T
  <2> HIDE DEF T
  <2> QED BY <1>1, <1>2, SetInduction, FiniteBoard
<1>4. PICK a : Is(a, Cardinality(Square))
  BY <1>3
<1> DEFINE b == CHOOSE a1 : Is(a1, Cardinality(Square))
<1>5. Is(b, Cardinality(Square))
  <2> HIDE DEF Is
  <2> QED BY <1>4
<1>6. IsAnswers(f, lines, b, Cardinality(Square))
  <2> HIDE DEF b
  <2> QED BY <1>5 DEF IsAnswers
<1>7. Control(f, lines, sq) = b[Cardinality(Square)][[sq |-> sq, from |-> sq, ctrl |-> {}]]
  BY DEF Control
<1> HIDE DEF b
<1> QED BY <1>6, <1>7

-----------------------------------------------------------------------------
(* The search in a loop.                                                   *)

\* The lines of a card join two sides, and each side is of one colour.
LEMMA SidesOfLines ==
  ASSUME NEW card \in Card, NEW k \in 1..2
  PROVE  /\ White[card][k] \in Side /\ IsWhite(card, White[card][k])
         /\ Black[card][k] \in Side /\ IsBlack(card, Black[card][k])
         /\ White[card][1] # White[card][2] /\ Black[card][1] # Black[card][2]
<1>1. card = 1 \/ card = 2 \/ card = 3 \/ card = 4 \/ card = 5 \/ card = 6
  BY DEF Card
<1>2. k = 1 \/ k = 2
  OBVIOUS
<1>3. IsWhite(card, White[card][k])
  BY DEF IsWhite
<1>4. \A side : IsWhite(card, side) <=> side = White[card][1] \/ side = White[card][2]
  BY DEF IsWhite
<1>5. /\ White[1] = <<"left", "right">> /\ White[2] = <<"up", "down">>
      /\ White[3] = <<"up", "left">>    /\ White[4] = <<"down", "left">>
      /\ White[5] = <<"down", "right">> /\ White[6] = <<"up", "right">>
      /\ Black[1] = <<"up", "down">>    /\ Black[2] = <<"left", "right">>
      /\ Black[3] = <<"down", "right">> /\ Black[4] = <<"up", "right">>
      /\ Black[5] = <<"up", "left">>    /\ Black[6] = <<"down", "left">>
  BY DEF White, Black
<1>6. /\ White[card][k] \in Side /\ White[card][1] # White[card][2]
      /\ Black[card][k] \in Side /\ Black[card][1] # Black[card][2]
  BY <1>1, <1>2, <1>5 DEF Side
<1>7. Black[card][k] # White[card][1] /\ Black[card][k] # White[card][2]
  BY <1>1, <1>2, <1>5
<1> QED BY <1>3, <1>4, <1>6, <1>7 DEF IsBlack

\* Different sides lead to different squares, no further than beyond the border.
LEMMA Neighbours ==
  ASSUME NEW sq \in Square, NEW s1 \in Side, NEW s2 \in Side, s1 # s2
  PROVE  /\ Neighbour(sq, s1) # Neighbour(sq, s2)
         /\ Neighbour(sq, s1) \in (-1 .. Rows) \X (-1 .. Cols)
<1>1. PICK x \in 0 .. Rows - 1, y \in 0 .. Cols - 1 : sq = <<x, y>>
  BY DEF Square
<1>2. /\ Neighbour(sq, "up") = <<x - 1, y>> /\ Neighbour(sq, "down") = <<x + 1, y>>
      /\ Neighbour(sq, "left") = <<x, y - 1>> /\ Neighbour(sq, "right") = <<x, y + 1>>
  BY <1>1 DEF Neighbour
<1>3. s1 \in {"up", "down", "left", "right"} /\ s2 \in {"up", "down", "left", "right"}
  BY DEF Side
<1>4. Rows \in Nat /\ Cols \in Nat /\ x \in Int /\ y \in Int
      /\ 0 <= x /\ x <= Rows - 1 /\ 0 <= y /\ y <= Cols - 1
  BY SizeAssumption
<1>5. /\ x - 1 \in -1 .. Rows /\ x + 1 \in -1 .. Rows /\ x \in -1 .. Rows
      /\ y - 1 \in -1 .. Cols /\ y + 1 \in -1 .. Cols /\ y \in -1 .. Cols
      /\ x - 1 # x /\ x + 1 # x /\ x - 1 # x + 1 /\ y - 1 # y /\ y + 1 # y /\ y - 1 # y + 1
  BY <1>4
<1> QED BY <1>2, <1>3, <1>5

\* A loop of the lines: a set of squares the search cannot leave.
Closed(f, lines, loop) ==
  /\ loop \subseteq Square
  /\ \A s \in loop :
       /\ f[s] \in Card
       /\ \A k \in 1..2 : lines[f[s]][k] \in Side /\ Neighbour(s, lines[f[s]][k]) \in loop
       /\ lines[f[s]][1] # lines[f[s]][2]

\* An answer that is yes.
Yes(r) == r = [yes |-> TRUE, ctrl |-> r.ctrl]

\* One call on a square of a loop answers yes when the calls it makes on others
\* do, and it makes one: of the two neighbours one is not where it comes from.
LEMMA CallAnswersYes ==
  ASSUME NEW f, NEW lines, NEW loop, Closed(f, lines, loop), NEW deeper,
         NEW sq \in loop, NEW from, NEW ctrl,
         \/ sq \in ctrl
         \/ \A next \in loop :
              \A r \in deeper[[sq |-> next, from |-> sq, ctrl |-> ctrl \cup {sq}]] : Yes(r),
         NEW r \in Call(f, lines, deeper, [sq |-> sq, from |-> from, ctrl |-> ctrl])
  PROVE  Yes(r)
<1> DEFINE c == [sq |-> sq, from |-> from, ctrl |-> ctrl]
           Try(side, marked) ==
             IF Neighbour(sq, side) = from THEN {[yes |-> FALSE, ctrl |-> marked]}
             ELSE deeper[[sq |-> Neighbour(sq, side), from |-> sq, ctrl |-> marked]]
           sides == lines[f[sq]]
           first == Try(sides[1], ctrl \cup {sq})
           both == UNION {IF a.yes THEN {a} ELSE Try(sides[2], a.ctrl) : a \in first}
<1>1. sq \in Square /\ f[sq] # 0 /\ f[sq] \in Card
  BY DEF Closed, Card
<1>2. Call(f, lines, deeper, c)
        = IF sq \in ctrl THEN {[yes |-> TRUE, ctrl |-> ctrl]}
          ELSE both \cup {[a EXCEPT !.yes = TRUE] : a \in both}
  BY <1>1 DEF Call
<1>3. CASE sq \in ctrl
  BY <1>2, <1>3 DEF Yes
<1>4. CASE sq \notin ctrl
  <2>1. /\ sides[1] \in Side /\ sides[2] \in Side /\ sides[1] # sides[2]
        /\ Neighbour(sq, sides[1]) \in loop /\ Neighbour(sq, sides[2]) \in loop
    BY DEF Closed
  <2>2. Neighbour(sq, sides[1]) # Neighbour(sq, sides[2])
    <3> HIDE DEF sides
    <3> QED BY <1>1, <2>1, Neighbours
  <2>3. \A next \in loop :
          \A a \in deeper[[sq |-> next, from |-> sq, ctrl |-> ctrl \cup {sq}]] : Yes(a)
    BY <1>4
  <2>4. ASSUME NEW a \in both PROVE Yes(a)
    <3>1. PICK x \in first : a \in (IF x.yes THEN {x} ELSE Try(sides[2], x.ctrl))
      <4> HIDE DEF first, Try, sides
      <4> QED OBVIOUS
    <3>2. CASE Neighbour(sq, sides[1]) = from
      <4>1. first = {[yes |-> FALSE, ctrl |-> ctrl \cup {sq}]}
        BY <3>2
      <4>2. x.yes = FALSE /\ x.ctrl = ctrl \cup {sq}
        BY <4>1
      <4>3. a \in deeper[[sq |-> Neighbour(sq, sides[2]), from |-> sq, ctrl |-> ctrl \cup {sq}]]
        <5>1. Neighbour(sq, sides[2]) # from
          BY <3>2, <2>2
        <5>2. a \in Try(sides[2], ctrl \cup {sq})
          <6> HIDE DEF Try, sides, first
          <6> QED BY <3>1, <4>2
        <5> HIDE DEF sides
        <5> QED BY <5>1, <5>2
      <4> HIDE DEF sides
      <4> QED BY <4>3, <2>1, <2>3
    <3>3. CASE Neighbour(sq, sides[1]) # from
      <4>1. x \in deeper[[sq |-> Neighbour(sq, sides[1]), from |-> sq, ctrl |-> ctrl \cup {sq}]]
        <5> HIDE DEF sides
        <5> QED BY <3>3
      <4>2. Yes(x) /\ x.yes = TRUE
        <5> HIDE DEF sides, first
        <5> QED BY <4>1, <2>1, <2>3 DEF Yes
      <4> HIDE DEF Try, sides, first
      <4> QED BY <3>1, <4>2
    <3> QED BY <3>2, <3>3
  <2>5. ASSUME NEW a \in both PROVE [a EXCEPT !.yes = TRUE] = a
    <3>1. a = [yes |-> TRUE, ctrl |-> a.ctrl]
      <4> HIDE DEF both
      <4> QED BY <2>4 DEF Yes
    <3> HIDE DEF both
    <3> QED BY <3>1
  <2>6. r \in both \cup {[a EXCEPT !.yes = TRUE] : a \in both}
    <3> HIDE DEF both
    <3> QED BY <1>2, <1>4
  <2> HIDE DEF both
  <2> QED BY <2>4, <2>5, <2>6
<1> QED BY <1>3, <1>4

\* Every search that starts in a loop finds it.
LEMMA LoopIsFound ==
  ASSUME NEW f, NEW lines, NEW loop, Closed(f, lines, loop), NEW start \in loop,
         NEW answer \in Control(f, lines, start)
  PROVE  answer.yes = TRUE
<1> DEFINE N == Cardinality(Square)
<1>1. PICK answers :
        /\ IsAnswers(f, lines, answers, N)
        /\ Control(f, lines, start)
             = answers[N][[sq |-> start, from |-> start, ctrl |-> {}]]
  BY ControlIs
<1> DEFINE Found(n) == n <= N =>
             \A sq \in loop, from \in (-1 .. Rows) \X (-1 .. Cols), ctrl \in SUBSET Square :
               Cardinality(Square \ ctrl) <= n =>
                 \A r \in answers[n][[sq |-> sq, from |-> from, ctrl |-> ctrl]] : Yes(r)
           T == {n \in Nat : Found(n)}
<1>2. loop \subseteq Square
  BY DEF Closed
<1>3. ASSUME NEW sq \in Square
      PROVE  sq \in (-1 .. Rows) \X (-1 .. Cols)
  <2>1. PICK x \in 0 .. Rows - 1, y \in 0 .. Cols - 1 : sq = <<x, y>>
    BY DEF Square
  <2>2. x \in -1 .. Rows /\ y \in -1 .. Cols
    BY SizeAssumption
  <2> QED BY <2>1, <2>2
<1>4. ASSUME NEW sq \in loop, NEW from \in (-1 .. Rows) \X (-1 .. Cols),
             NEW ctrl \in SUBSET Square
      PROVE  [sq |-> sq, from |-> from, ctrl |-> ctrl] \in Calls
  BY <1>2, <1>3 DEF Calls
<1>5. ASSUME NEW n \in 0..N, NEW c \in Calls
      PROVE  answers[n][c]
               = Call(f, lines, IF n = 0 THEN [d \in Calls |-> {}] ELSE answers[n - 1], c)
  <2> HIDE DEF N
  <2>1. answers[n] = [x \in Calls |->
             Call(f, lines, IF n = 0 THEN [d \in Calls |-> {}] ELSE answers[n - 1], x)]
    BY <1>1 DEF IsAnswers
  <2> QED BY <2>1
<1>6. N \in Nat /\ IsFiniteSet(Square)
  BY FiniteBoard
<1> HIDE DEF N
<1>7. 0 \in T
  <2> SUFFICES ASSUME NEW sq \in loop, NEW from \in (-1 .. Rows) \X (-1 .. Cols),
                      NEW ctrl \in SUBSET Square, Cardinality(Square \ ctrl) <= 0,
                      NEW r \in answers[0][[sq |-> sq, from |-> from, ctrl |-> ctrl]]
               PROVE  Yes(r)
    OBVIOUS
  <2>1. IsFiniteSet(Square \ ctrl) /\ Cardinality(Square \ ctrl) \in Nat
    BY <1>6, FS_Difference, FS_CardinalityType
  <2>2. Square \ ctrl = {}
    <3>1. Cardinality(Square \ ctrl) = 0
      BY <2>1
    <3> QED BY <2>1, <3>1, FS_EmptySet
  <2>3. sq \in ctrl
    BY <2>2, <1>2
  <2>4. r \in Call(f, lines, [d \in Calls |-> {}], [sq |-> sq, from |-> from, ctrl |-> ctrl])
    <3>1. 0 \in 0..N
      BY <1>6
    <3> QED BY <3>1, <1>4, <1>5
  <2> QED BY <2>3, <2>4, CallAnswersYes
<1>8. ASSUME NEW n \in Nat, n \in T
      PROVE  n + 1 \in T
  <2> SUFFICES ASSUME n + 1 <= N,
                      NEW sq \in loop, NEW from \in (-1 .. Rows) \X (-1 .. Cols),
                      NEW ctrl \in SUBSET Square, Cardinality(Square \ ctrl) <= n + 1,
                      NEW r \in answers[n + 1][[sq |-> sq, from |-> from, ctrl |-> ctrl]]
               PROVE  Yes(r)
    OBVIOUS
  <2>1. r \in Call(f, lines, answers[n], [sq |-> sq, from |-> from, ctrl |-> ctrl])
    <3>1. n + 1 \in 0..N /\ n + 1 # 0 /\ (n + 1) - 1 = n
      BY <1>6
    <3> QED BY <3>1, <1>4, <1>5
  <2>2. CASE sq \in ctrl
    BY <2>1, <2>2, CallAnswersYes
  <2>3. CASE sq \notin ctrl
    <3> DEFINE marked == ctrl \cup {sq}
    <3>1. marked \in SUBSET Square
      BY <1>2
    <3>2. Cardinality(Square \ marked) <= n
      <4>1. Square \ marked = (Square \ ctrl) \ {sq} /\ sq \in Square \ ctrl
        BY <2>3, <1>2
      <4>2. IsFiniteSet(Square \ ctrl) /\ Cardinality(Square \ ctrl) \in Nat
        BY <1>6, FS_Difference, FS_CardinalityType
      <4>3. Cardinality((Square \ ctrl) \ {sq}) = Cardinality(Square \ ctrl) - 1
        BY <4>1, <4>2, FS_RemoveElement
      <4>4. Cardinality(Square \ marked) = Cardinality(Square \ ctrl) - 1
        <5> HIDE DEF marked
        <5> QED BY <4>1, <4>3
      <4> HIDE DEF marked
      <4> QED BY <4>2, <4>4
    <3>3. \A next \in loop :
            \A a \in answers[n][[sq |-> next, from |-> sq, ctrl |-> marked]] : Yes(a)
      <4>1. n <= N /\ Found(n)
        BY <1>6, <1>8
      <4>2. sq \in (-1 .. Rows) \X (-1 .. Cols)
        BY <1>2, <1>3
      <4> HIDE DEF marked
      <4> QED BY <4>1, <4>2, <3>1, <3>2
    <3> QED BY <2>1, <3>3, CallAnswersYes
  <2> QED BY <2>2, <2>3
<1>9. Found(N)
  <2> HIDE DEF T
  <2>1. N \in T
    BY <1>6, <1>7, <1>8, SetInduction
  <2> QED BY <2>1 DEF T
<1>10. Cardinality(Square \ {}) <= N
  <2>1. Square \ {} = Square
    OBVIOUS
  <2> QED BY <1>6, <2>1 DEF N
<1>11. Yes(answer)
  <2>1. start \in (-1 .. Rows) \X (-1 .. Cols) /\ {} \in SUBSET Square /\ N <= N
    BY <1>2, <1>3, <1>6
  <2>2. answer \in answers[N][[sq |-> start, from |-> start, ctrl |-> {}]]
    BY <1>1
  <2> QED BY <1>9, <1>10, <2>1, <2>2
<1>12. answer = [yes |-> TRUE, ctrl |-> answer.ctrl]
  BY <1>11 DEF Yes
<1> QED BY <1>12

-----------------------------------------------------------------------------
(* The invariant.                                                          *)

\* Types, which is all the induction LoopsWin needs.
TypeInv == field \in Boards /\ last \in Square /\ won \in BOOLEAN

\* What a loop by the rules of the game is to the search: one for the lines of
\* its colour.
LEMMA LoopOfColour ==
  ASSUME NEW f \in Boards, NEW loop \in SUBSET {s \in Square : f[s] # 0}
  PROVE  /\ (\A s \in loop, side \in Side : IsWhite(f[s], side) => Neighbour(s, side) \in loop)
              => Closed(f, White, loop)
         /\ (\A s \in loop, side \in Side : IsBlack(f[s], side) => Neighbour(s, side) \in loop)
              => Closed(f, Black, loop)
<1>1. ASSUME NEW s \in loop PROVE f[s] \in Card
  BY DEF Boards, Card
<1>2. \A s \in loop, k \in 1..2 :
        /\ White[f[s]][k] \in Side /\ IsWhite(f[s], White[f[s]][k])
        /\ Black[f[s]][k] \in Side /\ IsBlack(f[s], Black[f[s]][k])
        /\ White[f[s]][1] # White[f[s]][2] /\ Black[f[s]][1] # Black[f[s]][2]
  BY <1>1, SidesOfLines
<1>3. \A s \in loop : White[f[s]][1] # White[f[s]][2] /\ Black[f[s]][1] # Black[f[s]][2]
  <2>1. 1 \in 1..2
    OBVIOUS
  <2> QED BY <1>2, <2>1
<1> QED BY <1>1, <1>2, <1>3, Zenon DEF Closed

\* A loop through a square is found from it, whichever colour it has.
LEMMA ClosedIsFound ==
  ASSUME NEW f \in Boards, NEW sq, NEW loop \in SUBSET {s \in Square : f[s] # 0}, sq \in loop,
         \/ \A s \in loop, side \in Side : IsWhite(f[s], side) => Neighbour(s, side) \in loop
         \/ \A s \in loop, side \in Side : IsBlack(f[s], side) => Neighbour(s, side) \in loop,
         NEW answer \in isGameWon(f, sq)
  PROVE  answer = TRUE
<1>1. PICK w \in Control(f, White, sq), b \in Control(f, Black, sq) : answer = (w.yes \/ b.yes)
  BY DEF isGameWon
<1>2. Closed(f, White, loop) \/ Closed(f, Black, loop)
  BY LoopOfColour
<1>3. w.yes = TRUE \/ b.yes = TRUE
  BY <1>2, LoopIsFound
<1> QED BY <1>1, <1>3

\* The type of the state: an empty board, or one a card was put on.
LEMMA TypesHold == Spec => []TypeInv
<1>1. Init => TypeInv
  <2> SUFFICES ASSUME Init PROVE TypeInv
    OBVIOUS
  <2>1. <<0, 0>> \in Square
    BY SizeAssumption DEF Square
  <2>2. field \in Boards
    BY DEF Init, Boards
  <2> QED BY <2>1, <2>2 DEF Init, TypeInv
<1>2. TypeInv /\ [Next]_vars => TypeInv'
  <2> SUFFICES ASSUME TypeInv, [Next]_vars PROVE TypeInv'
    OBVIOUS
  <2>1. CASE Next
    <3>1. PICK sq \in Square, card \in Card : Move(sq, card)
      BY <2>1 DEF Next
    <3>2. field' \in Boards
      BY <3>1 DEF Move, TypeInv, Boards, Card
    <3>3. won' \in BOOLEAN
      <4>1. won' \in isGameWon(field', sq)
        BY <3>1 DEF Move
      <4>2. \E w, b : won' = (w.yes \/ b.yes)
        BY <4>1 DEF isGameWon
      <4> QED BY <4>2
    <3> QED BY <3>1, <3>2, <3>3 DEF Move, TypeInv
  <2>2. CASE UNCHANGED vars
    BY <2>2 DEF vars, TypeInv
  <2> QED BY <2>1, <2>2
<1> QED BY <1>1, <1>2, PTL DEF Spec

\* A move that closes a loop is found to win, on a board of any size, by
\* whichever card, colour and direction: isGameWon follows both lines of the
\* card, and on a loop the search never comes to an end of the line.  TypeInv
\* is all the induction needs: what isGameWon answers depends on the board
\* after the move only.
THEOREM LoopsWin == Spec => []LoopIsWon
<1>1. Init => LoopIsWon
  <2> SUFFICES ASSUME Init PROVE ~LoopClosed
    BY DEF LoopIsWon
  <2>1. {s \in Square : field[s] # 0} = {}
    BY DEF Init
  <2>2. ~InLoop(IsWhite, last) /\ ~InLoop(IsBlack, last)
    BY <2>1 DEF InLoop
  <2> QED BY <2>2 DEF LoopClosed
<1>2. TypeInv' /\ LoopIsWon /\ [Next]_vars => LoopIsWon'
  <2> SUFFICES ASSUME TypeInv', LoopIsWon, [Next]_vars PROVE LoopIsWon'
    OBVIOUS
  <2>1. CASE Next
    <3>1. PICK sq \in Square, card \in Card : Move(sq, card)
      BY <2>1 DEF Next
    <3>2. won' \in isGameWon(field', last')
      BY <3>1 DEF Move
    <3>3. field' \in Boards
      BY DEF TypeInv
    <3>4. ASSUME LoopClosed' PROVE won' = TRUE
      <4>1. PICK loop \in SUBSET {s \in Square : field'[s] # 0} :
              /\ last' \in loop
              /\ \/ \A s \in loop, side \in Side :
                       IsWhite(field'[s], side) => Neighbour(s, side) \in loop
                 \/ \A s \in loop, side \in Side :
                       IsBlack(field'[s], side) => Neighbour(s, side) \in loop
        BY <3>4 DEF LoopClosed, InLoop
      <4> QED BY <3>2, <3>3, <4>1, ClosedIsFound
    <3> QED BY <3>4 DEF LoopIsWon
  <2>2. CASE UNCHANGED vars
    <3>1. LoopClosed' = LoopClosed
      BY <2>2 DEF vars, LoopClosed, InLoop
    <3> QED BY <2>2, <3>1 DEF vars, LoopIsWon
  <2> QED BY <2>1, <2>2
<1> QED BY <1>1, <1>2, TypesHold, PTL DEF Spec
=============================================================================
