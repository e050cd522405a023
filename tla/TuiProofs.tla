----------------------------- MODULE TuiProofs -----------------------------
(***************************************************************************)
(* Proofs about module Tui, for whatever is typed at the prompts and every *)
(* size of the board: the verdict announced is the truth about the board,  *)
(* no piece floats, and the players move in turn.                          *)
(***************************************************************************)
EXTENDS Tui, ConnectMProofs

Before == {"rows", "cols", "m", "ready"}

Played == {"turn", "won", "draw", "quit"}

\* What the prompts have established.
Sized ==
    /\ stage \in Stages /\ player \in {Player1, Player2}
    /\ size \in [rows : Nat, cols : Nat, m : Nat]
    /\ stage # "rows" => size.rows >= 4
    /\ stage \notin {"rows", "cols"} => size.cols >= 4
    /\ stage \in Played \cup {"ready"} => 3 <= size.m /\ size.m <= size.rows /\ size.m <= size.cols

\* The board that goes with them.
Laid ==
    /\ stage \in Before => board = NewBoard(0, 0, 0) /\ player = Player1
    /\ stage \in Played => board \in Boards(size.rows, size.cols, size.m)

Inv == Sized /\ Laid /\ VerdictTrue /\ FairPlay

-----------------------------------------------------------------------------
(* Boards *)

\* The board before the game begins.
LEMMA NoBoardIs ==
    ASSUME NEW b, b = NewBoard(0, 0, 0)
    PROVE  /\ b \in Boards(0, 0, 0) /\ b.Rows = 0 /\ b.Cols = 0 /\ Rests(b)
           /\ \A p : Pieces(b, p) = 0
<1>1. b.Rows = 0 /\ b.Cols = 0 /\ b \in Boards(0, 0, 0)
  BY DEF NewBoard, Boards
<1>2. Cells(b) = {}
  BY <1>1 DEF Cells
<1>3. Rests(b)
  BY <1>2 DEF Rests
<1>4. ASSUME NEW p PROVE Pieces(b, p) = 0
  <2>1. {x \in Cells(b) : b.Grid[x[1]][x[2]] = p} = {}
    BY <1>2
  <2> QED
    BY <2>1, FS_EmptySet DEF Pieces
<1> QED
  BY <1>1, <1>3, <1>4

\* A board whose top row is not full has a free cell.
LEMMA RoomIsLeft ==
    ASSUME NEW R \in Nat \ {0}, NEW C \in Nat, NEW L \in Nat, NEW b \in Boards(R, C, L), ~IsFull(b)
    PROVE  Pieces(b, Empty) > 0
<1>1. b.Rows = R /\ b.Cols = C /\ Cells(b) = (0 .. R - 1) \X (0 .. C - 1)
  BY DEF Boards, Cells
<1>2. PICK c \in 0 .. C - 1 : b.Grid[0][c] = Empty
  BY <1>1 DEF IsFull
<1> DEFINE S == {x \in Cells(b) : b.Grid[x[1]][x[2]] = Empty}
<1>3. << 0, c >> \in Cells(b) /\ << 0, c >>[1] = 0 /\ << 0, c >>[2] = c
  BY <1>1
<1>4. << 0, c >> \in S /\ S \subseteq Cells(b)
  BY <1>2, <1>3
<1>5. IsFiniteSet(Cells(b))
  BY BoardIs
<1>6. Pieces(b, Empty) = Cardinality(S)
  BY DEF Pieces
<1> HIDE DEF S
<1>7. IsFiniteSet(S)
  BY <1>4, <1>5, FS_Subset
<1>8. Cardinality(S) \in Nat /\ Cardinality(S) # 0
  BY <1>4, <1>7, FS_CardinalityType, FS_EmptySet
<1> QED
  BY <1>6, <1>8

-----------------------------------------------------------------------------
(* Steps *)

\* The first prompt.
LEMMA InvInit == Init => Inv
<1> SUFFICES ASSUME Init PROVE Inv
  OBVIOUS
<1>1. Sized
  BY DEF Init, Sized, Stages, Played
<1>2. Laid
  BY DEF Init, Laid, Before, Played
<1>3. Rests(board) /\ \A p : Pieces(board, p) = 0
  BY NoBoardIs DEF Init
<1>4. VerdictTrue
  BY DEF Init, VerdictTrue
<1>5. FairPlay
  <2>1. stage = "rows" /\ player # Player2
    BY DEF Init, Player1, Player2
  <2> QED
    BY <1>3, <2>1 DEF FairPlay
<1> QED
  BY <1>1, <1>2, <1>4, <1>5 DEF Inv

\* A prompt for the size.
LEMMA InvAsk ==
    ASSUME Inv, NEW line \in Typed \cup {Enter}, AskRows(line) \/ AskCols(line) \/ AskM(line)
    PROVE  Inv'
<1>1. line # Enter => line \in Int
  BY TuiAssumption
<1>2. Sized'
  <2>0. size \in [rows : Nat, cols : Nat, m : Nat] /\ player' = player /\ player \in {Player1, Player2}
    BY DEF Inv, Sized, AskRows, AskCols, AskM
  <2>1. CASE AskRows(line)
    <3>1. PICK v : v = Answer(line, 6)
      OBVIOUS
    <3>2. v \in Nat /\ v >= 4 /\ size' = [size EXCEPT !.rows = v] /\ stage' = "cols"
      BY <1>1, <2>1, <3>1 DEF AskRows, Answer
    <3> QED
      BY <2>0, <3>2 DEF Sized, Stages, Played
  <2>2. CASE AskCols(line)
    <3>1. PICK v : v = Answer(line, 7)
      OBVIOUS
    <3>2. v \in Nat /\ v >= 4 /\ size' = [size EXCEPT !.cols = v] /\ stage' = "m" /\ stage = "cols"
      BY <1>1, <2>2, <3>1 DEF AskCols, Answer
    <3>3. size.rows >= 4
      BY <3>2 DEF Inv, Sized
    <3> QED
      BY <2>0, <3>2, <3>3 DEF Sized, Stages, Played
  <2>3. CASE AskM(line)
    <3>1. PICK v : v = Answer(line, 4)
      OBVIOUS
    <3>2. size' = [size EXCEPT !.m = v] /\ stage' = "ready" /\ stage = "m"
      BY <2>3, <3>1 DEF AskM
    <3>3. size.rows >= 4 /\ size.cols >= 4 /\ size.rows \in Nat /\ size.cols \in Nat
      BY <2>0, <3>2 DEF Inv, Sized
    <3>4. v \in Nat /\ v >= 3 /\ v <= size.rows /\ v <= size.cols
      BY <1>1, <2>3, <3>1, <3>3 DEF AskM, Answer, LengthOK
    <3> QED
      BY <2>0, <3>2, <3>3, <3>4 DEF Sized, Stages, Played
  <2> QED
    BY <2>1, <2>2, <2>3
<1>3. stage \in Before /\ stage' \in Before /\ UNCHANGED << board, player >>
  BY DEF AskRows, AskCols, AskM, Before
<1>4. Laid'
  BY <1>3 DEF Inv, Laid, Before, Played
<1>5. VerdictTrue'
  BY <1>3 DEF VerdictTrue, Before
<1>6. FairPlay'
  <2>1. stage \notin {"won", "draw"} /\ stage' \notin {"won", "draw"}
    BY <1>3 DEF Before
  <2> QED
    BY <1>3, <2>1 DEF Inv, FairPlay
<1> QED
  BY <1>2, <1>4, <1>5, <1>6 DEF Inv

\* The game begins.
LEMMA InvBegin ==
    ASSUME Inv, Begin
    PROVE  Inv'
<1>1. /\ stage = "ready" /\ stage' = "turn" /\ size' = size /\ player' = Player1
      /\ board' = NewBoard(size.rows, size.cols, size.m)
  BY DEF Begin
<1>2. /\ size \in [rows : Nat, cols : Nat, m : Nat] /\ size.rows >= 4 /\ size.cols >= 4
      /\ 3 <= size.m /\ size.m <= size.rows /\ size.m <= size.cols
  BY <1>1 DEF Inv, Sized, Played
<1>3. PICK R, C, L, n : R = size.rows /\ C = size.cols /\ L = size.m /\ n = NewBoard(R, C, L)
  OBVIOUS
<1>4. R \in Nat \ {0} /\ C \in Nat \ {0} /\ L \in Nat \ {0}
  BY <1>2, <1>3
<1>5. /\ n \in Boards(R, C, L) /\ Rests(n)
      /\ \A p \in {Player1, Player2} : Pieces(n, p) = 0 /\ ~HasLine(n, p)
  BY <1>3, <1>4, NewBoardIs
<1>6. ~IsFull(n)
  <2>1. 0 \in 0 .. C - 1 /\ 0 \in 0 .. R - 1
    BY <1>4
  <2>2. n.Cols = C /\ n.Grid[0][0] = Empty
    BY <1>3, <2>1 DEF NewBoard
  <2> QED
    BY <2>1, <2>2 DEF IsFull
<1>7. Pieces(n, Empty) > 0
  BY <1>4, <1>5, <1>6, RoomIsLeft
<1>8. Sized'
  BY <1>1, <1>2 DEF Sized, Stages, Played
<1>9. Laid'
  BY <1>1, <1>3, <1>5 DEF Laid, Before, Played
<1>10. VerdictTrue'
  BY <1>1, <1>3, <1>5, <1>7 DEF VerdictTrue
<1>11. FairPlay'
  <2>1. player' # Player2 /\ board' = n /\ stage' \notin {"won", "draw"}
    BY <1>1, <1>3 DEF Player1, Player2
  <2> QED
    BY <1>5, <2>1 DEF FairPlay
<1> QED
  BY <1>8, <1>9, <1>10, <1>11 DEF Inv

\* The two players.
LEMMA PlayerIs ==
    ASSUME NEW q \in {Player1, Player2}
    PROVE  /\ SwitchPlayer(q) \in {Player1, Player2} /\ SwitchPlayer(q) # q
           /\ \A p \in {Player1, Player2} : p = q \/ p = SwitchPlayer(q)
           /\ Player1 # Player2
  BY DEF SwitchPlayer, Player1, Player2

\* A turn.
LEMMA InvTurn ==
    ASSUME Inv, NEW k \in 0 .. board.Cols + 1, Turn(k)
    PROVE  Inv'
<1>1. /\ stage = "turn" /\ size' = size /\ MoveError(board, k - 1, player) = "nil"
      /\ board' = MakeMove(board, k - 1, player)
      /\ stage' = IF CheckWin(board') THEN "won" ELSE IF IsFull(board') THEN "draw" ELSE "turn"
      /\ player' = IF stage' = "turn" THEN SwitchPlayer(player) ELSE player
  BY DEF Turn
<1>2. /\ size \in [rows : Nat, cols : Nat, m : Nat] /\ size.rows >= 4 /\ size.cols >= 4
      /\ 3 <= size.m /\ size.m <= size.rows /\ size.m <= size.cols
      /\ player \in {Player1, Player2} /\ board \in Boards(size.rows, size.cols, size.m)
  BY <1>1 DEF Inv, Sized, Laid, Played
<1>3. PICK R, C, L, b, n, col, q, o :
         /\ R = size.rows /\ C = size.cols /\ L = size.m /\ b = board /\ n = MakeMove(b, col, q)
         /\ col = k - 1 /\ q = player /\ o = SwitchPlayer(player)
  OBVIOUS
<1>4. /\ R \in Nat \ {0} /\ C \in Nat /\ L \in Nat \ {0} /\ b \in Boards(R, C, L)
      /\ q \in {Player1, Player2} /\ board' = n
  BY <1>1, <1>2, <1>3
<1>5. col \in Int
  <2>1. board.Cols = C
    BY <1>3, <1>4 DEF Boards
  <2>2. k \in Int
    BY <1>4, <2>1
  <2> QED
    BY <1>3, <2>2
<1>6. MoveError(b, col, q) = "nil"
  BY <1>1, <1>3
<1>7. n \in Boards(R, C, L) /\ \E row \in 0 .. R - 1 : Drops(b, n, row, col, q)
  BY <1>3, <1>4, <1>5, <1>6, MoveDrops
<1>8. PICK row \in 0 .. R - 1 : Drops(b, n, row, col, q)
  BY <1>7
<1>9. o \in {Player1, Player2} /\ o # q /\ \A p \in {Player1, Player2} : p = q \/ p = o
  BY <1>3, <1>4, PlayerIs
<1>10. Rests(b) /\ ~HasLine(b, q) /\ ~HasLine(b, o)
  BY <1>1, <1>3, <1>4, <1>9 DEF Inv, VerdictTrue, FairPlay
<1>11. col \in 0 .. C - 1 /\ n.LastMove = << row, col, q >> /\ n.Grid[row][col] = q
  <2>1. b.Rows = R /\ b.Cols = C
    BY <1>4 DEF Boards
  <2> QED
    BY <1>8, <2>1 DEF Drops
<1>12. Rests(n)
  BY <1>4, <1>7, <1>8, <1>10, MoveRests
<1>13. CheckWin(n) => HasLine(n, q)
  BY <1>4, <1>7, <1>11, WinIsLine
<1>14. ~CheckWin(n) => ~HasLine(n, q)
  BY <1>4, <1>7, <1>8, <1>10, LineIsWin
<1>15. ~HasLine(n, o)
  BY <1>4, <1>7, <1>8, <1>9, <1>10, OtherLine
<1>16. IsFull(n) => Pieces(n, Empty) = 0
  BY <1>4, <1>7, <1>12, FullIsFull
<1>17. ~IsFull(n) => Pieces(n, Empty) > 0
  BY <1>4, <1>7, RoomIsLeft
<1>18. /\ stage' = IF CheckWin(n) THEN "won" ELSE IF IsFull(n) THEN "draw" ELSE "turn"
       /\ player' = IF stage' = "turn" THEN o ELSE q
  BY <1>1, <1>3, <1>4
<1>19. Sized'
  <2>1. stage' \in Played /\ stage' \in Stages /\ player' \in {Player1, Player2}
    BY <1>4, <1>9, <1>18 DEF Played, Stages
  <2> QED
    BY <1>1, <1>2, <2>1 DEF Sized
<1>20. Laid'
  <2>1. stage' \in Played /\ stage' \notin Before
    BY <1>18 DEF Played, Before
  <2> QED
    BY <1>1, <1>3, <1>4, <1>7, <2>1 DEF Laid
<1>21. VerdictTrue'
  <2>1. CASE stage' = "won"
    <3>1. HasLine(n, q) /\ ~HasLine(n, o) /\ player' = q /\ SwitchPlayer(player') = o
      BY <1>3, <1>13, <1>15, <1>18, <2>1
    <3> QED
      BY <1>4, <2>1, <3>1 DEF VerdictTrue
  <2>2. CASE stage' # "won"
    <3>1. ~CheckWin(n)
      BY <1>18, <2>2
    <3>2. ~HasLine(n, Player1) /\ ~HasLine(n, Player2)
      BY <1>9, <1>14, <1>15, <3>1
    <3>3. stage' = "draw" => Pieces(n, Empty) = 0
      BY <1>16, <1>18
    <3>4. stage' = "turn" => Pieces(n, Empty) > 0
      BY <1>17, <1>18
    <3> QED
      BY <1>4, <2>2, <3>2, <3>3, <3>4 DEF VerdictTrue
  <2> QED
    BY <2>1, <2>2
<1>22. FairPlay'
  <2>1. \A p \in {Player1, Player2} :
           /\ Pieces(b, p) \in Nat
           /\ Pieces(n, p) = Pieces(b, p) + IF p = q THEN 1 ELSE 0
    BY <1>4, <1>7, <1>8, MoveCounts
  <2>2. Pieces(b, Player1) = Pieces(b, Player2) + IF q = Player2 THEN 1 ELSE 0
    BY <1>1, <1>3 DEF Inv, FairPlay
  <2>3. Player1 # Player2 /\ (q = Player1 => o = Player2) /\ (q = Player2 => o = Player1)
    BY <1>4, <1>9, PlayerIs
  <2>4. Pieces(n, Player1) = Pieces(n, Player2) + IF q = Player1 THEN 1 ELSE 0
    <3>1. CASE q = Player1
      BY <2>1, <2>2, <2>3, <3>1
    <3>2. CASE q = Player2
      BY <2>1, <2>2, <2>3, <3>2
    <3> QED
      BY <1>4, <3>1, <3>2
  <2>5. (IF stage' \in {"won", "draw"} THEN player' = Player1 ELSE player' = Player2) <=> q = Player1
    BY <1>4, <1>18, <2>3
  <2> QED
    BY <1>4, <1>12, <2>4, <2>5 DEF FairPlay
<1> QED
  BY <1>19, <1>20, <1>21, <1>22 DEF Inv

\* A player quits.
LEMMA InvQuit ==
    ASSUME Inv, Quit
    PROVE  Inv'
<1>1. stage = "turn" /\ stage' = "quit" /\ UNCHANGED << size, board, player >>
  BY DEF Quit
<1>2. Sized'
  BY <1>1 DEF Inv, Sized, Stages, Played
<1>3. Laid'
  BY <1>1 DEF Inv, Laid, Before, Played
<1>4. VerdictTrue' /\ FairPlay'
  BY <1>1 DEF Inv, VerdictTrue, FairPlay
<1> QED
  BY <1>2, <1>3, <1>4 DEF Inv

\* Every step.
LEMMA InvStep == Inv /\ [Next]_vars => Inv'
<1> SUFFICES ASSUME Inv, [Next]_vars PROVE Inv'
  OBVIOUS
<1>1. CASE UNCHANGED vars
  BY <1>1 DEF vars, Inv, Sized, Laid, VerdictTrue, FairPlay
<1> QED
  BY <1>1, InvAsk, InvBegin, InvTurn, InvQuit DEF Next

\* The type invariant: among other things, a game that starts can be won.
THEOREM TypeCorrect == Spec => []TypeOK
<1>1. Inv => TypeOK
  <2> SUFFICES ASSUME Inv PROVE TypeOK
    OBVIOUS
  <2>1. board.Grid \in [0 .. board.Rows - 1 -> [0 .. board.Cols - 1 -> {Empty, Player1, Player2}]]
    <3>1. CASE stage \in Before
      BY <3>1, NoBoardIs DEF Inv, Laid, Boards
    <3>2. CASE stage \in Played
      BY <3>2 DEF Inv, Laid, Boards
    <3> QED
      BY <3>1, <3>2 DEF Inv, Sized, Stages, Before, Played
  <2> QED
    BY <2>1 DEF Inv, Sized, TypeOK
<1> QED
  BY <1>1, InvInit, InvStep, PTL DEF Spec

\* Four lines and one row are enough: the verdict is the truth about the board.
THEOREM VerdictsAreTrue == Spec => []VerdictTrue
<1>1. Inv => VerdictTrue
  BY DEF Inv
<1> QED
  BY <1>1, InvInit, InvStep, PTL DEF Spec

\* No piece floats, and the players move in turn.
THEOREM PlayIsFair == Spec => []FairPlay
<1>1. Inv => FairPlay
  BY DEF Inv
<1> QED
  BY <1>1, InvInit, InvStep, PTL DEF Spec
=============================================================================
