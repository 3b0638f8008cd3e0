------------------------------- MODULE AiGame -------------------------------
(***************************************************************************)
(* One game of HttpServer/WebAPP/Gomoku (AiGame.h, AiGame.cpp) as          *)
(* AiMoveHandler drives it: the human moves, then the AI, until one of     *)
(* them has Win stones in a row or the board is full; then the handler     *)
(* drops the game.  The source has Size = 15 and Win = 5.                  *)
(*                                                                         *)
(* getBestMove() wins if it can, blocks if it must, and otherwise searches *)
(* the empty cells near a stone; which of them the search prefers is left  *)
(* open here and modelled in AiSearch.                                     *)
(***************************************************************************)
EXTENDS Integers, FiniteSets

CONSTANTS Size, Win,
          Opening,       \* moves that are searched to EarlyDepth; the source has 10
          EarlyDepth,    \* the source has 5
          LateDepth      \* the source has 3

ASSUME GameAssumption ==
  /\ Size \in Nat \ {0} /\ Win \in Nat \ {0}
  /\ Opening \in Nat
  /\ {EarlyDepth, LateDepth} \subseteq {n \in Nat : n % 2 = 1}

EMPTY == " "
AI    == "white"
HUMAN == "black"
NoMove == <<-1, -1>>
Cells == (0..Size-1) \X (0..Size-1)

VARIABLES board, gameOver, winner, moveCount, lastMove,
          turn   \* "human", "ai", or "done" once the handler dropped the game

gameVars == <<board, gameOver, winner, moveCount, lastMove, turn>>

GameInit ==
  /\ board = [c \in Cells |-> EMPTY]
  /\ gameOver = FALSE /\ winner = "none"
  /\ moveCount = 0 /\ lastMove = NoMove
  /\ turn = "human"

-----------------------------------------------------------------------------
Dirs == {<<1, 0>>, <<0, 1>>, <<1, 1>>, <<1, -1>>}
Along(c, d, i) == <<c[1] + i * d[1], c[2] + i * d[2]>>
Holds(b, c, p) == c \in Cells /\ b[c] = p

\* Stones of p next to c in direction s * d, counted up to the first gap.
RunFrom(b, c, d, s, p) ==
  Cardinality({i \in 1..Win-1 : \A j \in 1..i : Holds(b, Along(c, d, s * j), p)})

\* Mutant of checkwin: the backward scan is missing.
ForwardOnly(b, c, p) == \E d \in Dirs : 1 + RunFrom(b, c, d, 1, p) >= Win

\* Does the stone of p on c complete a row?
checkwin(b, c, p) ==
  \E d \in Dirs : 1 + RunFrom(b, c, d, 1, p) + RunFrom(b, c, d, -1, p) >= Win

Empty(b) == {c \in Cells : b[c] = EMPTY}
isDraw == moveCount >= Size * Size
isValidMove(c) == c \in Empty(board) /\ ~gameOver /\ ~isDraw

WinningCells(b, p) == {c \in Empty(b) : checkwin([b EXCEPT ![c] = p], c, p)}

isNearOccupied(b, c) ==
  \E dx, dy \in -1..1 : LET n == <<c[1] + dx, c[2] + dy>>
                        IN n # c /\ n \in Cells /\ b[n] # EMPTY

Candidates(b) == {c \in Empty(b) : isNearOccupied(b, c)}

\* The first of a set of cells in the order of the loops.
FirstCell(S) == CHOOSE c \in S : \A o \in S : c[1] * Size + c[2] <= o[1] * Size + o[2]

\* Levels getBestMove() searches, an odd number.  When the board fills up after an
\* even number of them, minimax() finds no cell on a maximizing level and returns INT_MIN,
\* which never beats bestScore: the choice falls to the random fallback.
Depth == IF moveCount < Opening THEN EarlyDepth ELSE LateDepth
Fallback(b) ==
  LET n == Cardinality(Empty(b)) IN Candidates(b) = {} \/ (n % 2 = 0 /\ n < Depth)

\* Mutant of getBestMove: it does not look for the human's winning cells.
NeverBlocks(b) ==
  IF WinningCells(b, AI) # {} THEN {FirstCell(WinningCells(b, AI))}
  ELSE Empty(b)

\* The cells getBestMove() may return.
getBestMove(b) ==
  IF WinningCells(b, AI) # {} THEN {FirstCell(WinningCells(b, AI))}
  ELSE IF WinningCells(b, HUMAN) # {} THEN {FirstCell(WinningCells(b, HUMAN))}
  ELSE IF Fallback(b) THEN Empty(b)
  ELSE Candidates(b)

\* A stone of p goes to c; a row ends the game.  The handler then answers: it
\* drops a game that is over or a draw, and passes the turn otherwise.
Place(p, c, name, next) ==
  LET b == [board EXCEPT ![c] = p]
  IN /\ board' = b
     /\ lastMove' = c
     /\ moveCount' = moveCount + 1
     /\ gameOver' = (gameOver \/ checkwin(b, c, p))
     /\ winner' = IF checkwin(b, c, p) THEN name ELSE winner
     /\ turn' = IF gameOver' \/ moveCount' >= Size * Size THEN "done" ELSE next

\* Mutant of humanMove: the cell may be taken.
humanMoveAnywhere(c) == turn = "human" /\ Place(HUMAN, c, "human", "ai")

\* An invalid move is answered with an error and changes nothing.
humanMove(c) ==
  /\ turn = "human"
  /\ isValidMove(c)
  /\ Place(HUMAN, c, "human", "ai")

aiMove ==
  /\ turn = "ai"
  /\ \E c \in getBestMove(board) : Place(AI, c, "ai", "human")

\* A start or restart request replaces the game, finished or not, and so does the
\* next move after a finished one.  Not in the middle of a move: what two requests
\* of one user do to each other is in GomokuServer.
NewGame ==
  /\ turn # "ai"
  /\ board' = [c \in Cells |-> EMPTY]
  /\ gameOver' = FALSE /\ winner' = "none"
  /\ moveCount' = 0 /\ lastMove' = NoMove
  /\ turn' = "human"

GameNext == (\E c \in Cells : humanMove(c)) \/ aiMove \/ NewGame

GameSpec == GameInit /\ [][GameNext]_gameVars
-----------------------------------------------------------------------------
Stones(p) == {c \in Cells : board[c] = p}

\* Types of all variables.
GameType ==
  /\ board \in [Cells -> {EMPTY, AI, HUMAN}]
  /\ gameOver \in BOOLEAN
  /\ winner \in {"none", "human", "ai"}
  /\ moveCount \in 0..Size * Size
  /\ lastMove \in Cells \cup {NoMove}
  /\ turn \in {"human", "ai", "done"}

\* Nobody moves twice and no stone is overwritten: the human has as many stones
\* as the AI, or one more after the human's move, and moveCount_ counts them.
StonesAlternate ==
  /\ moveCount = Cardinality(Stones(HUMAN)) + Cardinality(Stones(AI))
  /\ Cardinality(Stones(HUMAN)) - Cardinality(Stones(AI)) \in
       (CASE turn = "human" -> {0} [] turn = "ai" -> {1} [] turn = "done" -> {0, 1})

Row(p) == \E c \in Cells, d \in Dirs : \A i \in 0..Win-1 : Holds(board, Along(c, d, i), p)

\* checkwin() looks only around the last stone, yet the game is over exactly
\* when the board has a row, and the winner is the player whose row it is.
WinnerIsExact ==
  /\ (winner = "human") <=> Row(HUMAN)
  /\ (winner = "ai") <=> Row(AI)
  /\ gameOver <=> winner # "none"

\* "检查对手是否有直接胜利点（必须防守）" (AiGame.cpp:124, "winning cells of the opponent
\* must be defended"): after the AI's move the human can win at once only if two
\* winning cells were open before.
AiDefends ==
  [][(turn = "ai" /\ turn' = "human" /\ Cardinality(WinningCells(board, HUMAN)) <= 1)
     => WinningCells(board', HUMAN) = {}]_gameVars
=============================================================================
