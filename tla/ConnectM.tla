------------------------------ MODULE ConnectM ------------------------------
(***************************************************************************)
(* The rules of Connect-M: package game of hw1, shared by the terminal     *)
(* game and the server.  A board is the struct of game.go: its size, the   *)
(* length M of a winning line, the grid (row 0 on top) and the last move.  *)
(***************************************************************************)
EXTENDS Integers, FiniteSetsExt

Empty   == 0
Player1 == 1
Player2 == 2

NoMove == << >>   \* LastMove = nil

NewBoard(rows, cols, m) ==
    [Rows |-> rows, Cols |-> cols, M |-> m,
     Grid |-> [r \in 0 .. rows - 1 |-> [c \in 0 .. cols - 1 |-> Empty]],
     LastMove |-> NoMove]

\* What the struct can hold.
Boards(rows, cols, m) ==
    [Rows : {rows}, Cols : {cols}, M : {m},
     Grid : [0 .. rows - 1 -> [0 .. cols - 1 -> {Empty, Player1, Player2}]],
     LastMove : {NoMove} \cup
                  (0 .. rows - 1) \X (0 .. cols - 1) \X {Player1, Player2}]

isValid(b, row, col) == row \in 0 .. b.Rows - 1 /\ col \in 0 .. b.Cols - 1

\* The rows of a column a piece can still fall through.
EmptyRows(b, col) == {r \in 0 .. b.Rows - 1 : b.Grid[r][col] = Empty}

\* The error MakeMove returns, "nil" when it makes the move.
MoveError(b, col, player) ==
    IF col < 0 \/ col >= b.Cols THEN "column out of bounds"
    ELSE IF player \notin {Player1, Player2} THEN "invalid player"
    ELSE IF EmptyRows(b, col) = {} THEN "column is full"
    ELSE "nil"

\* Mutant: the piece goes to the topmost empty row.
MakeMove_Floats(b, col, player) ==
    LET row == Min(EmptyRows(b, col)) IN
    [b EXCEPT !.Grid[row][col] = player, !.LastMove = << row, col, player >>]

\* The board after a move without error: the piece takes the lowest empty row.
MakeMove(b, col, player) ==
    LET row == Max(EmptyRows(b, col)) IN
    [b EXCEPT !.Grid[row][col] = player, !.LastMove = << row, col, player >>]

\* Mutant: counting stops one cell early.
Run_Short(b, row, col, player, dRow, dCol) ==
    Max({k \in 0 .. b.M - 2 :
           \A i \in 1..k : /\ isValid(b, row + i * dRow, col + i * dCol)
                           /\ b.Grid[row + i * dRow][col + i * dCol] = player})

\* The player's pieces in a row next to a cell, at most M - 1 of them.
Run(b, row, col, player, dRow, dCol) ==
    Max({k \in 0 .. b.M - 1 :
           \A i \in 1..k : /\ isValid(b, row + i * dRow, col + i * dCol)
                           /\ b.Grid[row + i * dRow][col + i * dCol] = player})

checkDirection(b, row, col, player, dRow, dCol) ==
    1 + Run(b, row, col, player, dRow, dCol)
      + Run(b, row, col, player, -dRow, -dCol) >= b.M

Directions == {<< 0, 1 >>, << 1, 0 >>, << 1, 1 >>, << 1, -1 >>}

\* Only the lines through the last move are looked at.
CheckWin(b) ==
    /\ b.LastMove # NoMove
    /\ \E d \in Directions :
         checkDirection(b, b.LastMove[1], b.LastMove[2], b.LastMove[3], d[1], d[2])

\* Only the top row is looked at.
IsFull(b) == \A c \in 0 .. b.Cols - 1 : b.Grid[0][c] # Empty

\* Mutant: a column counts as full once its bottom row is taken.
IsColumnFull_Bottom(b, col) ==
    col < 0 \/ col >= b.Cols \/ b.Grid[b.Rows - 1][col] # Empty

IsColumnFull(b, col) == col < 0 \/ col >= b.Cols \/ b.Grid[0][col] # Empty

\* The picture of a board: a mark for every cell, and no trace of the last move.
String(b) ==
    [r \in 0 .. b.Rows - 1 |->
       [c \in 0 .. b.Cols - 1 |->
          CASE b.Grid[r][c] = Empty -> "."
            [] b.Grid[r][c] = Player1 -> "X"
            [] b.Grid[r][c] = Player2 -> "O"]]

-----------------------------------------------------------------------------
(* What the rules mean, with no reference to the last move. *)

Cells(b) == (0 .. b.Rows - 1) \X (0 .. b.Cols - 1)

\* Somewhere on the board the player has M pieces in a line.
HasLine(b, player) ==
    \E x \in Cells(b), d \in Directions :
       \A i \in 0 .. b.M - 1 :
          /\ isValid(b, x[1] + i * d[1], x[2] + i * d[2])
          /\ b.Grid[x[1] + i * d[1]][x[2] + i * d[2]] = player

Pieces(b, player) == Cardinality({x \in Cells(b) : b.Grid[x[1]][x[2]] = player})

\* Every piece rests on the floor or on another piece.
Rests(b) ==
    \A x \in Cells(b) :
       b.Grid[x[1]][x[2]] # Empty /\ x[1] < b.Rows - 1
         => b.Grid[x[1] + 1][x[2]] # Empty
=============================================================================
