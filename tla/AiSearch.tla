------------------------------ MODULE AiSearch -------------------------------
(***************************************************************************)
(* The search behind getBestMove() of AiGame: evaluateBoard(), the order   *)
(* in which cells are tried, minimax() with alpha-beta pruning, and the    *)
(* loop that keeps the best cell.  AiGame leaves the choice among the      *)
(* candidates open; here it is computed and compared with plain minimax.   *)
(*                                                                         *)
(* The scores of the source are those of rows of 5, 4, 3 and 2 for Win = 5 *)
(* and move along with Win.                                                *)
(***************************************************************************)
EXTENDS AiGame, Sequences, SequencesExt

IntMax == 2147483647
IntMin == -IntMax - 1

Opponent(p) == IF p = HUMAN THEN AI ELSE HUMAN

-----------------------------------------------------------------------------
(* evaluateBoard()                                                         *)

\* The scan from c ends at the border or at a stone of the opponent.
Blocked(b, c, d, s, p) ==
  LET run == RunFrom(b, c, d, s, p)
      end == Along(c, d, s * (run + 1))
  IN run < Win - 1 /\ (end \notin Cells \/ b[end] = Opponent(p))

\* PATTERN_SCORE: rows by the stones they lack and by whether an end is blocked.
PatternScore(count, blocked) ==
  CASE count >= Win      -> 1000000
    [] count = Win - 1   -> IF blocked THEN 50000 ELSE 100000
    [] count = Win - 2   -> IF blocked THEN 500 ELSE 1000
    [] count = Win - 3   -> IF blocked THEN 50 ELSE 100
    [] OTHER             -> 10

\* Each stone of p scores the row through it in each direction.
evaluateBoard(b, p) ==
  LET Scores == {<<c, d, PatternScore(1 + RunFrom(b, c, d, 1, p) + RunFrom(b, c, d, -1, p),
                                      Blocked(b, c, d, 1, p) \/ Blocked(b, c, d, -1, p))>> :
                 c \in {x \in Cells : b[x] = p}, d \in Dirs}
  IN FoldSet(LAMBDA s, n : n + s[3], 0, Scores)

Value(b) == evaluateBoard(b, AI) - evaluateBoard(b, HUMAN)

-----------------------------------------------------------------------------
(* Candidates in the order in which they are tried                         *)

RowMajor == [i \in 1..Size * Size |-> <<(i - 1) \div Size, (i - 1) % Size>>]

\* std::sort by what a stone of p would score: the best first, or the worst.  Up
\* to 16 cells it is an insertion sort and keeps the order of equal ones.
Tried(b, p, descending) ==
  LET cells  == SelectSeq(RowMajor, LAMBDA c : c \in Candidates(b))
      Scored == [i \in DOMAIN cells |-> <<evaluateBoard([b EXCEPT ![cells[i]] = p], p), i>>]
      Before(x, y) == \/ IF descending THEN x[1] > y[1] ELSE x[1] < y[1]
                      \/ x[1] = y[1] /\ x[2] < y[2]
      order  == SortSeq(Scored, Before)
  IN [i \in DOMAIN order |-> cells[order[i][2]]]

-----------------------------------------------------------------------------
(* minimax()                                                               *)

\* Mutant of Cut: the comparison is the wrong way round.
CutSwapped(alpha, beta) == alpha <= beta

\* No later cell can change the result above.
Cut(alpha, beta) == beta <= alpha

\* The two tests of the whole game look at the game, not at the board searched.
SearchEnds(depth) == depth = 0 \/ gameOver \/ isDraw

Larger(x, y)  == IF x >= y THEN x ELSE y
Smaller(x, y) == IF x <= y THEN x ELSE y

RECURSIVE minimax(_, _, _, _, _), TryCells(_, _, _, _, _, _, _)

minimax(b, depth, maximizing, alpha, beta) ==
  IF SearchEnds(depth) THEN Value(b)
  ELSE TryCells(b, depth, maximizing, Tried(b, IF maximizing THEN AI ELSE HUMAN, maximizing),
                alpha, beta, IF maximizing THEN IntMin ELSE IntMax)

\* The loop over the candidates that are left.
TryCells(b, depth, maximizing, cells, alpha, beta, best) ==
  IF cells = <<>> THEN best
  ELSE LET c     == Head(cells)
           child == [b EXCEPT ![c] = IF maximizing THEN AI ELSE HUMAN]
           score == minimax(child, depth - 1, ~maximizing, alpha, beta)
           new   == IF maximizing THEN Larger(best, score) ELSE Smaller(best, score)
           a     == IF maximizing THEN Larger(alpha, new) ELSE alpha
           z     == IF maximizing THEN beta ELSE Smaller(beta, new)
       IN IF Cut(a, z) THEN new
          ELSE TryCells(b, depth, maximizing, Tail(cells), a, z, new)

\* Mutant of Improves: a cell that is as good replaces the best one.
ImprovesOrEquals(score, best) == score >= best

\* The test of getBestMove()'s loop.
Improves(score, best) == score > best

\* The loop of getBestMove() over the candidates; NoMove if no score beats INT_MIN.
Searched(b) ==
  LET Keep(found, c) ==
        LET score == minimax([b EXCEPT ![c] = AI], Depth - 1, FALSE, IntMin, IntMax)
        IN IF Improves(score, found.score) THEN [cell |-> c, score |-> score] ELSE found
  IN FoldLeft(Keep, [cell |-> NoMove, score |-> IntMin], Tried(b, AI, TRUE)).cell

-----------------------------------------------------------------------------
(* The reference: minimax without pruning and without an order             *)

RECURSIVE PlainValue(_, _, _)

PlainValue(b, depth, maximizing) ==
  IF SearchEnds(depth) THEN Value(b)
  ELSE LET Scores == {PlainValue([b EXCEPT ![c] = IF maximizing THEN AI ELSE HUMAN],
                                 depth - 1, ~maximizing) : c \in Candidates(b)}
       IN IF maximizing THEN Max(Scores \cup {IntMin}) ELSE Min(Scores \cup {IntMax})

\* The AI has to search: it is to move and nobody has a winning cell.
Searching ==
  turn = "ai" /\ WinningCells(board, AI) = {} /\ WinningCells(board, HUMAN) = {}

\* The search ends without a cell exactly when AiGame's rules say that the random
\* fallback decides, and its cell is one that the rules allow (AiGame.cpp:174-191).
SearchObeysRules ==
  Searching => /\ (Searched(board) = NoMove) <=> Fallback(board)
               /\ Searched(board) \in Candidates(board) \cup {NoMove}

\* Ordering and pruning change no result: the cell found is worth as much as the
\* best cell of the full search of the same depth (AiGame.cpp:316-342).
SearchIsExact ==
  Searching /\ Searched(board) # NoMove =>
    LET Worth(c) == PlainValue([board EXCEPT ![c] = AI], Depth - 1, FALSE)
    IN \A c \in Candidates(board) : Worth(c) <= Worth(Searched(board))
=============================================================================
