--------------------------- MODULE ConnectMProofs ---------------------------
(***************************************************************************)
(* What the rules of Connect-M do to a board of any size: a piece falls on *)
(* the others and leaves them alone, the lines through the last move tell  *)
(* whether its player has won, and a full top row whether a cell is left.  *)
(***************************************************************************)
EXTENDS ConnectM, FiniteSetTheorems, WellFoundedInduction, TLAPS

-----------------------------------------------------------------------------
(* Numbers *)

\* A non-empty set of naturals with a bound has a greatest element.
LEMMA GreatestIs ==
    ASSUME NEW S, NEW b \in Nat, S \subseteq 0..b, S # {}
    PROVE  Max(S) \in S /\ \A y \in S : y <= Max(S)
<1> DEFINE T == {k \in 0..b : b - k \in S}
<1>1. T \subseteq Nat /\ T # {}
  <2>1. PICK x \in S : x \in 0..b
    OBVIOUS
  <2>2. b - x \in 0..b /\ b - (b - x) = x
    BY <2>1
  <2> QED
    BY <2>2
<1>2. PICK k \in T : \A y \in T : ~ (<< y, k >> \in OpToRel(<, Nat))
  BY <1>1, NatLessThanWellFounded, WFMin
<1>3. \A y \in T : k <= y
  <2> SUFFICES ASSUME NEW y \in T, y < k PROVE FALSE
    BY <1>1
  <2>1. << y, k >> \in Nat \X Nat /\ << y, k >>[1] < << y, k >>[2]
    BY <1>1
  <2> QED
    BY <1>2, <2>1 DEF OpToRel
<1>4. b - k \in S
  OBVIOUS
<1>5. ASSUME NEW y \in S PROVE y <= b - k
  <2>1. b - y \in 0..b /\ b - (b - y) = y
    OBVIOUS
  <2>2. b - y \in T
    BY <2>1
  <2>3. k <= b - y /\ k \in 0..b /\ y \in 0..b
    BY <1>3, <2>2
  <2> QED
    BY <2>3
<1>6. \E x \in S : \A y \in S : x >= y
  <2>1. \A y \in S : b - k >= y
    <3> TAKE y \in S
    <3>1. y <= b - k /\ y \in Int /\ b - k \in Int
      BY <1>5
    <3> QED
      BY <3>1
  <2> QED
    BY <1>4, <2>1
<1>7. Max(S) \in S /\ \A y \in S : Max(S) >= y
  BY <1>6 DEF Max
<1> QED
  BY <1>7

-----------------------------------------------------------------------------
(* Boards *)

\* The fields of a board, and that it has finitely many cells.
LEMMA BoardIs ==
    ASSUME NEW R \in Nat, NEW C \in Nat, NEW L \in Nat, NEW b \in Boards(R, C, L)
    PROVE  /\ b.Rows = R /\ b.Cols = C /\ b.M = L
           /\ Cells(b) = (0 .. R - 1) \X (0 .. C - 1) /\ IsFiniteSet(Cells(b))
           /\ b.Grid \in [0 .. R - 1 -> [0 .. C - 1 -> {Empty, Player1, Player2}]]
           /\ \A r \in 0 .. R - 1, c \in 0 .. C - 1 : b.Grid[r][c] \in {Empty, Player1, Player2}
<1>1. /\ b.Rows = R /\ b.Cols = C /\ b.M = L
      /\ b.Grid \in [0 .. R - 1 -> [0 .. C - 1 -> {Empty, Player1, Player2}]]
  BY DEF Boards
<1>2. Cells(b) = (0 .. R - 1) \X (0 .. C - 1)
  BY <1>1 DEF Cells
<1>3. IsFiniteSet(0 .. R - 1) /\ IsFiniteSet(0 .. C - 1)
  BY FS_Interval
<1>4. IsFiniteSet(Cells(b))
  BY <1>2, <1>3, FS_Product
<1>5. \A r \in 0 .. R - 1, c \in 0 .. C - 1 : b.Grid[r][c] \in {Empty, Player1, Player2}
  BY <1>1
<1> QED
  BY <1>1, <1>2, <1>4, <1>5

\* A new board is empty.
LEMMA NewBoardIs ==
    ASSUME NEW R \in Nat, NEW C \in Nat, NEW L \in Nat \ {0}
    PROVE  LET b == NewBoard(R, C, L) IN
           /\ b \in Boards(R, C, L) /\ Rests(b)
           /\ \A p \in {Player1, Player2} : Pieces(b, p) = 0 /\ ~HasLine(b, p)
<1> DEFINE b == NewBoard(R, C, L)
<1>1. b \in Boards(R, C, L)
  BY DEF NewBoard, Boards
<1>2. /\ b.Rows = R /\ b.Cols = C /\ b.M = L
      /\ \A r \in 0 .. R - 1, c \in 0 .. C - 1 : b.Grid[r][c] = Empty
  BY DEF NewBoard
<1> HIDE DEF b
<1>3. Empty # Player1 /\ Empty # Player2
  BY DEF Empty, Player1, Player2
<1>4. Rests(b)
  BY <1>2 DEF Rests, Cells
<1>5. ASSUME NEW p \in {Player1, Player2} PROVE Pieces(b, p) = 0
  <2>1. {x \in Cells(b) : b.Grid[x[1]][x[2]] = p} = {}
    BY <1>2, <1>3 DEF Cells
  <2> QED
    BY <2>1, FS_EmptySet DEF Pieces
<1>6. ASSUME NEW p \in {Player1, Player2}, HasLine(b, p) PROVE FALSE
  <2>1. PICK x \in Cells(b), d \in Directions :
          \A i \in 0 .. b.M - 1 :
             /\ isValid(b, x[1] + i * d[1], x[2] + i * d[2])
             /\ b.Grid[x[1] + i * d[1]][x[2] + i * d[2]] = p
    BY <1>6 DEF HasLine
  <2>2. 0 \in 0 .. b.M - 1
    BY <1>2
  <2>3. /\ isValid(b, x[1] + 0 * d[1], x[2] + 0 * d[2])
        /\ b.Grid[x[1] + 0 * d[1]][x[2] + 0 * d[2]] = p
    BY <2>1, <2>2
  <2> QED
    BY <1>2, <1>3, <2>3 DEF isValid
<1> QED
  BY <1>1, <1>4, <1>5, <1>6 DEF b

-----------------------------------------------------------------------------
(* A move *)

\* n is b with one more piece, which has fallen on the others of its column.
Drops(b, n, row, col, player) ==
    /\ row \in 0 .. b.Rows - 1 /\ col \in 0 .. b.Cols - 1
    /\ b.Grid[row][col] = Empty /\ player \in {Player1, Player2}
    /\ \A r \in row + 1 .. b.Rows - 1 : b.Grid[r][col] # Empty
    /\ n.LastMove = << row, col, player >>
    /\ \A r \in 0 .. b.Rows - 1, c \in 0 .. b.Cols - 1 :
          n.Grid[r][c] = IF r = row /\ c = col THEN player ELSE b.Grid[r][c]

\* A move that is not refused: the piece takes the lowest free cell of the
\* column, and every other cell stays.
LEMMA MoveDrops ==
    ASSUME NEW R \in Nat, NEW C \in Nat, NEW L \in Nat, NEW b \in Boards(R, C, L),
           NEW col \in Int, NEW player \in {Player1, Player2}, MoveError(b, col, player) = "nil"
    PROVE  /\ MakeMove(b, col, player) \in Boards(R, C, L)
           /\ \E row \in 0 .. R - 1 : Drops(b, MakeMove(b, col, player), row, col, player)
<1>1. /\ b.Rows = R /\ b.Cols = C
      /\ b.Grid \in [0 .. R - 1 -> [0 .. C - 1 -> {Empty, Player1, Player2}]]
  BY BoardIs
<1>2. col \in 0 .. C - 1 /\ EmptyRows(b, col) # {}
  BY <1>1 DEF MoveError
<1>3. EmptyRows(b, col) \subseteq 0..R
  BY <1>1 DEF EmptyRows
<1>4. PICK row : row = Max(EmptyRows(b, col))
  OBVIOUS
<1>5. row \in EmptyRows(b, col) /\ \A y \in EmptyRows(b, col) : y <= row
  BY <1>2, <1>3, <1>4, GreatestIs
<1>6. row \in 0 .. R - 1 /\ b.Grid[row][col] = Empty
  BY <1>1, <1>5 DEF EmptyRows
<1>7. ASSUME NEW r \in row + 1 .. R - 1, b.Grid[r][col] = Empty PROVE FALSE
  <2>1. r \in 0 .. R - 1 /\ r > row
    BY <1>6
  <2>2. r \in EmptyRows(b, col)
    BY <1>1, <1>7, <2>1 DEF EmptyRows
  <2> QED
    BY <1>5, <1>6, <2>1, <2>2
<1>8. PICK n : n = MakeMove(b, col, player)
  OBVIOUS
<1>9. PICK g : g = [b.Grid EXCEPT ![row] = [b.Grid[row] EXCEPT ![col] = player]]
  OBVIOUS
<1>10. n = [b EXCEPT !.Grid = g, !.LastMove = << row, col, player >>]
  BY <1>4, <1>8, <1>9 DEF MakeMove
<1>11. /\ n.Rows = R /\ n.Cols = C /\ n.M = L /\ n.Grid = g /\ n.LastMove = << row, col, player >>
       /\ n = [Rows |-> R, Cols |-> C, M |-> L, Grid |-> g, LastMove |-> << row, col, player >>]
  BY <1>10 DEF Boards
<1>12. g \in [0 .. R - 1 -> [0 .. C - 1 -> {Empty, Player1, Player2}]]
  <2>1. [b.Grid[row] EXCEPT ![col] = player] \in [0 .. C - 1 -> {Empty, Player1, Player2}]
    BY <1>1, <1>6
  <2> QED
    BY <1>1, <1>9, <2>1
<1>13. << row, col, player >> \in (0 .. R - 1) \X (0 .. C - 1) \X {Player1, Player2}
  BY <1>2, <1>6
<1>14. n \in Boards(R, C, L)
  BY <1>11, <1>12, <1>13 DEF Boards
<1>15. ASSUME NEW r \in 0 .. R - 1, NEW c \in 0 .. C - 1
       PROVE  g[r][c] = IF r = row /\ c = col THEN player ELSE b.Grid[r][c]
  <2>1. CASE r # row
    BY <1>1, <1>9, <2>1
  <2>2. CASE r = row
    <3>1. g[r] = [b.Grid[row] EXCEPT ![col] = player]
      BY <1>1, <1>9, <2>2
    <3> QED
      BY <1>1, <2>2, <3>1
  <2> QED
    BY <2>1, <2>2
<1>16. Drops(b, n, row, col, player)
  BY <1>1, <1>2, <1>6, <1>7, <1>11, <1>15 DEF Drops
<1> QED
  BY <1>6, <1>8, <1>14, <1>16

\* The player has one piece more, the other player as many as before.
LEMMA MoveCounts ==
    ASSUME NEW R \in Nat, NEW C \in Nat, NEW L \in Nat,
           NEW b \in Boards(R, C, L), NEW n \in Boards(R, C, L),
           NEW row, NEW col, NEW player, Drops(b, n, row, col, player),
           NEW p \in {Player1, Player2}
    PROVE  /\ Pieces(b, p) \in Nat
           /\ Pieces(n, p) = Pieces(b, p) + IF p = player THEN 1 ELSE 0
<1> DEFINE S == {x \in Cells(b) : b.Grid[x[1]][x[2]] = p}
           T == {x \in Cells(n) : n.Grid[x[1]][x[2]] = p}
<1>1. /\ b.Rows = R /\ b.Cols = C /\ Cells(b) = (0 .. R - 1) \X (0 .. C - 1)
      /\ Cells(n) = Cells(b)
  BY DEF Boards, Cells
<1>0. IsFiniteSet(Cells(b))
  BY BoardIs
<1>2. Empty # Player1 /\ Empty # Player2
  BY DEF Empty, Player1, Player2
<1>3. /\ row \in 0 .. R - 1 /\ col \in 0 .. C - 1 /\ b.Grid[row][col] = Empty
      /\ \A x \in Cells(b) : n.Grid[x[1]][x[2]] =
            IF x = << row, col >> THEN player ELSE b.Grid[x[1]][x[2]]
  BY <1>1 DEF Drops
<1>4. << row, col >> \in Cells(b) /\ << row, col >> \notin S
  BY <1>1, <1>2, <1>3
<1>5. T = IF p = player THEN S \cup {<< row, col >>} ELSE S
  BY <1>1, <1>2, <1>3, <1>4
<1>6. S \subseteq Cells(b)
  OBVIOUS
<1> HIDE DEF S, T
<1>7. IsFiniteSet(S) /\ Cardinality(S) \in Nat
  BY <1>0, <1>6, FS_Subset, FS_CardinalityType
<1>8. Cardinality(S \cup {<< row, col >>}) = Cardinality(S) + 1
  BY <1>4, <1>7, FS_AddElement
<1>9. Cardinality(T) = Cardinality(S) + IF p = player THEN 1 ELSE 0
  BY <1>5, <1>7, <1>8
<1> QED
  BY <1>7, <1>9 DEF Pieces, S, T

\* No piece floats after it.
LEMMA MoveRests ==
    ASSUME NEW R \in Nat, NEW C \in Nat, NEW L \in Nat,
           NEW b \in Boards(R, C, L), NEW n \in Boards(R, C, L),
           NEW row, NEW col, NEW player, Drops(b, n, row, col, player), Rests(b)
    PROVE  Rests(n)
<1>1. /\ b.Rows = R /\ b.Cols = C /\ Cells(b) = (0 .. R - 1) \X (0 .. C - 1)
      /\ n.Rows = R /\ Cells(n) = Cells(b)
  BY DEF Boards, Cells
<1>2. Empty # Player1 /\ Empty # Player2
  BY DEF Empty, Player1, Player2
<1>3. /\ row \in 0 .. R - 1 /\ col \in 0 .. C - 1 /\ player # Empty
      /\ \A r \in row + 1 .. R - 1 : b.Grid[r][col] # Empty
      /\ \A r \in 0 .. R - 1, c \in 0 .. C - 1 :
            n.Grid[r][c] = IF r = row /\ c = col THEN player ELSE b.Grid[r][c]
  BY <1>1, <1>2 DEF Drops
<1>4. \A r \in 0 .. R - 1, c \in 0 .. C - 1 :
         b.Grid[r][c] # Empty /\ r < R - 1 => b.Grid[r + 1][c] # Empty
  <2> SUFFICES ASSUME NEW r \in 0 .. R - 1, NEW c \in 0 .. C - 1
               PROVE  b.Grid[r][c] # Empty /\ r < R - 1 => b.Grid[r + 1][c] # Empty
    OBVIOUS
  <2>1. << r, c >> \in Cells(b) /\ << r, c >>[1] = r /\ << r, c >>[2] = c
    BY <1>1
  <2> QED
    BY <1>1, <2>1 DEF Rests
<1>5. ASSUME NEW r \in 0 .. R - 1, NEW c \in 0 .. C - 1, n.Grid[r][c] # Empty, r < R - 1
      PROVE  n.Grid[r + 1][c] # Empty
  <2>1. r + 1 \in 0 .. R - 1
    BY <1>5
  <2>2. b.Grid[r + 1][c] # Empty
    <3>1. CASE r = row /\ c = col
      <4>1. r + 1 \in row + 1 .. R - 1
        BY <2>1, <3>1
      <4> QED
        BY <1>3, <3>1, <4>1
    <3>2. CASE ~(r = row /\ c = col)
      BY <1>3, <1>4, <1>5, <3>2
    <3> QED
      BY <3>1, <3>2
  <2> QED
    BY <1>3, <2>1, <2>2
<1> QED
  BY <1>1, <1>5 DEF Rests

-----------------------------------------------------------------------------
(* Lines *)

\* A cell of the board with a piece of p on it.
On(b, r, c, p) == isValid(b, r, c) /\ b.Grid[r][c] = p

\* Going along a direction and back.
LEMMA Walk ==
    ASSUME NEW e \in {-1, 0, 1}, NEW a \in Int, NEW i \in Int, NEW v \in Int
    PROVE  /\ i * e \in Int /\ i * (-e) \in Int /\ -e \in {-1, 0, 1}
           /\ (a + v * e) + i * e = a + (v + i) * e
           /\ (a + v * e) + i * (-e) = a + (v - i) * e
           /\ a + i * (-e) = a + (-i) * e
<1>1. e \in Int
  OBVIOUS
<1>2. /\ v * e \in Int /\ i * e \in Int /\ i * (-e) \in Int
      /\ (v + i) * e = v * e + i * e /\ (v - i) * e = v * e - i * e
      /\ i * (-e) = - (i * e) /\ (-i) * e = - (i * e)
  BY <1>1
<1>3. -e \in {-1, 0, 1}
  OBVIOUS
<1> QED
  BY <1>2, <1>3

\* A direction is a step of at most one cell either way.
LEMMA DirectionIs ==
    ASSUME NEW d \in Directions
    PROVE  d[1] \in {-1, 0, 1} /\ d[2] \in {-1, 0, 1}
  BY DEF Directions

\* What checkDirection counts on one side of a cell.
LEMMA RunIs ==
    ASSUME NEW L \in Nat \ {0}, NEW b, b.M = L, NEW row, NEW col, NEW p, NEW e, NEW f
    PROVE  LET u == Run(b, row, col, p, e, f) IN
           /\ u \in 0 .. L - 1
           /\ \A i \in 1..u : On(b, row + i * e, col + i * f, p)
           /\ \A k \in 0 .. L - 1 :
                 (\A i \in 1..k : On(b, row + i * e, col + i * f, p)) => k <= u
<1> DEFINE S == {k \in 0 .. L - 1 : \A i \in 1..k : On(b, row + i * e, col + i * f, p)}
<1>1. 0 \in 0 .. L - 1 /\ \A i \in 1..0 : FALSE
  OBVIOUS
<1>2. 0 \in S
  BY <1>1
<1>3. S \subseteq 0..L
  OBVIOUS
<1>4. Max(S) \in S /\ \A y \in S : y <= Max(S)
  BY <1>2, <1>3, GreatestIs
<1>5. Run(b, row, col, p, e, f) = Max(S)
  BY DEF Run, On
<1> QED
  BY <1>4, <1>5

\* HasLine in these terms.
LEMMA LineIs ==
    ASSUME NEW b, NEW p
    PROVE  HasLine(b, p) <=>
             \E x \in Cells(b), d \in Directions :
                \A i \in 0 .. b.M - 1 : On(b, x[1] + i * d[1], x[2] + i * d[2], p)
  BY DEF HasLine, On

\* A line of the player who has just moved that CheckWin finds is there.
LEMMA WinIsLine ==
    ASSUME NEW R \in Nat, NEW C \in Nat, NEW L \in Nat \ {0}, NEW n \in Boards(R, C, L),
           NEW row \in 0 .. R - 1, NEW col \in 0 .. C - 1, NEW player,
           n.LastMove = << row, col, player >>, n.Grid[row][col] = player, CheckWin(n)
    PROVE  HasLine(n, player)
<1>1. n.Rows = R /\ n.Cols = C /\ n.M = L /\ Cells(n) = (0 .. R - 1) \X (0 .. C - 1)
  BY DEF Boards, Cells
<1>2. PICK d \in Directions : checkDirection(n, row, col, player, d[1], d[2])
  BY DEF CheckWin
<1>3. PICK e, f : e = d[1] /\ f = d[2]
  OBVIOUS
<1>4. e \in {-1, 0, 1} /\ f \in {-1, 0, 1} /\ row \in Int /\ col \in Int
  BY <1>3, DirectionIs
<1>5. PICK u : u = Run(n, row, col, player, e, f)
  OBVIOUS
<1>6. PICK w : w = Run(n, row, col, player, -e, -f)
  OBVIOUS
<1>7. u \in 0 .. L - 1 /\ \A i \in 1..u : On(n, row + i * e, col + i * f, player)
  BY <1>1, <1>5, RunIs
<1>8. w \in 0 .. L - 1 /\ \A i \in 1..w : On(n, row + i * (-e), col + i * (-f), player)
  BY <1>1, <1>6, RunIs
<1>9. 1 + u + w >= L
  BY <1>1, <1>2, <1>3, <1>5, <1>6 DEF checkDirection
<1> DEFINE r0 == row + (-w) * e
           c0 == col + (-w) * f
<1>10. ASSUME NEW i \in 0 .. L - 1 PROVE On(n, r0 + i * e, c0 + i * f, player)
  <2>1. r0 + i * e = row + (i - w) * e /\ c0 + i * f = col + (i - w) * f
    <3>1. i \in Int /\ -w \in Int /\ (-w) + i = i - w
      BY <1>8
    <3>2. (row + (-w) * e) + i * e = row + ((-w) + i) * e
      BY <1>4, <3>1, Walk
    <3>3. (col + (-w) * f) + i * f = col + ((-w) + i) * f
      BY <1>4, <3>1, Walk
    <3> QED
      BY <3>1, <3>2, <3>3
  <2> HIDE DEF r0, c0
  <2>2. CASE i > w
    <3>1. i - w \in 1..u
      BY <1>7, <1>8, <1>9, <2>2
    <3> QED
      BY <1>7, <2>1, <3>1
  <2>3. CASE i = w
    <3>1. i - w = 0 /\ row + 0 * e = row /\ col + 0 * f = col
      BY <1>4, <1>8, <2>3
    <3>2. On(n, row, col, player)
      BY <1>1 DEF On, isValid
    <3> QED
      BY <2>1, <3>1, <3>2
  <2>4. CASE i < w
    <3>1. w - i \in 1..w /\ w - i \in Int /\ i - w = -(w - i)
      BY <1>8, <2>4
    <3>2. row + (w - i) * (-e) = row + (-(w - i)) * e
      BY <1>4, <3>1, Walk
    <3>3. col + (w - i) * (-f) = col + (-(w - i)) * f
      BY <1>4, <3>1, Walk
    <3>4. On(n, row + (w - i) * (-e), col + (w - i) * (-f), player)
      BY <1>8, <3>1
    <3> QED
      BY <2>1, <3>1, <3>2, <3>3, <3>4
  <2> QED
    BY <1>8, <2>2, <2>3, <2>4
<1>11. r0 \in Int /\ c0 \in Int
  <2>1. -w \in Int
    BY <1>8
  <2>2. (-w) * e \in Int /\ (-w) * f \in Int
    BY <1>4, <2>1, Walk
  <2> QED
    BY <1>4, <2>2
<1> HIDE DEF r0, c0
<1>12. << r0, c0 >> \in Cells(n)
  <2>1. 0 \in 0 .. L - 1 /\ r0 + 0 * e = r0 /\ c0 + 0 * f = c0
    BY <1>4, <1>11
  <2>2. On(n, r0, c0, player)
    BY <1>10, <2>1
  <2> QED
    BY <1>1, <2>2 DEF On, isValid
<1>13. \A i \in 0 .. n.M - 1 :
          On(n, << r0, c0 >>[1] + i * d[1], << r0, c0 >>[2] + i * d[2], player)
  BY <1>1, <1>3, <1>10
<1> QED
  BY <1>12, <1>13, LineIs

\* A cell the move leaves alone carries the same piece before it.
LEMMA SameCell ==
    ASSUME NEW R \in Nat, NEW C \in Nat, NEW L \in Nat,
           NEW b \in Boards(R, C, L), NEW n \in Boards(R, C, L),
           NEW row, NEW col, NEW player, Drops(b, n, row, col, player),
           NEW r, NEW c, NEW q, On(n, r, c, q), ~(r = row /\ c = col)
    PROVE  On(b, r, c, q)
<1>1. b.Rows = R /\ b.Cols = C /\ n.Rows = R /\ n.Cols = C
  BY DEF Boards
<1>2. r \in 0 .. R - 1 /\ c \in 0 .. C - 1 /\ n.Grid[r][c] = q
  BY <1>1 DEF On, isValid
<1>3. n.Grid[r][c] = b.Grid[r][c]
  BY <1>1, <1>2 DEF Drops
<1> QED
  BY <1>1, <1>2, <1>3 DEF On, isValid

\* A line the other player has after the move was there before it.
LEMMA OtherLine ==
    ASSUME NEW R \in Nat, NEW C \in Nat, NEW L \in Nat,
           NEW b \in Boards(R, C, L), NEW n \in Boards(R, C, L),
           NEW row, NEW col, NEW player, Drops(b, n, row, col, player),
           NEW q, q # player, HasLine(n, q)
    PROVE  HasLine(b, q)
<1>1. b.M = L /\ n.M = L /\ Cells(n) = Cells(b) /\ b.Rows = R /\ b.Cols = C
  BY DEF Boards, Cells
<1>2. PICK x \in Cells(b), d \in Directions :
         \A i \in 0 .. L - 1 : On(n, x[1] + i * d[1], x[2] + i * d[2], q)
  BY <1>1, LineIs
<1>3. n.Grid[row][col] = player
  BY <1>1 DEF Drops
<1>4. ASSUME NEW i \in 0 .. L - 1 PROVE On(b, x[1] + i * d[1], x[2] + i * d[2], q)
  <2>1. PICK r, c : r = x[1] + i * d[1] /\ c = x[2] + i * d[2]
    OBVIOUS
  <2>2. On(n, r, c, q)
    BY <1>2, <2>1
  <2>3. ~(r = row /\ c = col)
    BY <1>3, <2>2 DEF On
  <2>4. On(b, r, c, q)
    BY <2>2, <2>3, SameCell
  <2> QED
    BY <2>1, <2>4
<1> QED
  BY <1>1, <1>4, LineIs

\* A first line of the player who has just moved goes through the move, so
\* CheckWin finds it.
LEMMA LineIsWin ==
    ASSUME NEW R \in Nat, NEW C \in Nat, NEW L \in Nat \ {0},
           NEW b \in Boards(R, C, L), NEW n \in Boards(R, C, L),
           NEW row, NEW col, NEW player, Drops(b, n, row, col, player),
           HasLine(n, player), ~HasLine(b, player)
    PROVE  CheckWin(n)
<1>1. b.M = L /\ n.M = L /\ Cells(n) = Cells(b) /\ b.Rows = R /\ b.Cols = C
      /\ Cells(b) = (0 .. R - 1) \X (0 .. C - 1)
  BY DEF Boards, Cells
<1>2. PICK x \in Cells(b), d \in Directions :
         \A i \in 0 .. L - 1 : On(n, x[1] + i * d[1], x[2] + i * d[2], player)
  BY <1>1, LineIs
<1>3. PICK r0, c0, e, f : r0 = x[1] /\ c0 = x[2] /\ e = d[1] /\ f = d[2]
  OBVIOUS
<1>4. e \in {-1, 0, 1} /\ f \in {-1, 0, 1} /\ r0 \in Int /\ c0 \in Int
  BY <1>1, <1>3, DirectionIs
<1>5. PICK j \in 0 .. L - 1 : row = r0 + j * e /\ col = c0 + j * f
  <2> SUFFICES ASSUME \A j \in 0 .. L - 1 : ~(r0 + j * e = row /\ c0 + j * f = col)
               PROVE  FALSE
    OBVIOUS
  <2>1. ASSUME NEW i \in 0 .. L - 1 PROVE On(b, x[1] + i * d[1], x[2] + i * d[2], player)
    <3>1. PICK r, c : r = x[1] + i * d[1] /\ c = x[2] + i * d[2]
      OBVIOUS
    <3>2. On(n, r, c, player) /\ ~(r = row /\ c = col)
      BY <1>2, <1>3, <3>1
    <3>3. On(b, r, c, player)
      BY <3>2, SameCell
    <3> QED
      BY <3>1, <3>3
  <2> QED
    BY <1>1, <2>1, LineIs
<1>6. ASSUME NEW i \in 0 .. L - 1 PROVE On(n, r0 + i * e, c0 + i * f, player)
  BY <1>2, <1>3
<1>7. ASSUME NEW i \in 1 .. L - 1 - j PROVE On(n, row + i * e, col + i * f, player)
  <2>1. i \in Int /\ j \in Int /\ j + i \in 0 .. L - 1
    OBVIOUS
  <2>2. row + i * e = r0 + (j + i) * e
    BY <1>4, <1>5, <2>1, Walk
  <2>3. col + i * f = c0 + (j + i) * f
    BY <1>4, <1>5, <2>1, Walk
  <2> QED
    BY <1>6, <2>1, <2>2, <2>3
<1>8. ASSUME NEW i \in 1..j PROVE On(n, row + i * (-e), col + i * (-f), player)
  <2>1. i \in Int /\ j \in Int /\ j - i \in 0 .. L - 1
    OBVIOUS
  <2>2. row + i * (-e) = r0 + (j - i) * e
    BY <1>4, <1>5, <2>1, Walk
  <2>3. col + i * (-f) = c0 + (j - i) * f
    BY <1>4, <1>5, <2>1, Walk
  <2> QED
    BY <1>6, <2>1, <2>2, <2>3
<1>9. PICK u : u = Run(n, row, col, player, e, f)
  OBVIOUS
<1>10. PICK w : w = Run(n, row, col, player, -e, -f)
  OBVIOUS
<1>11. L - 1 - j \in 0 .. L - 1
  OBVIOUS
<1>12. u \in 0 .. L - 1 /\ L - 1 - j <= u
  BY <1>1, <1>7, <1>9, <1>11, RunIs
<1>13. w \in 0 .. L - 1 /\ j <= w
  BY <1>1, <1>8, <1>10, RunIs
<1>14. 1 + u + w >= L
  BY <1>12, <1>13
<1>15. checkDirection(n, row, col, player, e, f)
  BY <1>1, <1>9, <1>10, <1>14 DEF checkDirection
<1>16. n.LastMove = << row, col, player >> /\ n.LastMove # NoMove
  BY DEF Drops, NoMove
<1>17. checkDirection(n, n.LastMove[1], n.LastMove[2], n.LastMove[3], d[1], d[2])
  BY <1>3, <1>15, <1>16
<1> QED
  BY <1>16, <1>17 DEF CheckWin

-----------------------------------------------------------------------------
(* A full board *)

\* Under a full top row no cell is left.
LEMMA FullIsFull ==
    ASSUME NEW R \in Nat \ {0}, NEW C \in Nat, NEW L \in Nat, NEW b \in Boards(R, C, L),
           Rests(b), IsFull(b)
    PROVE  Pieces(b, Empty) = 0
<1>1. b.Rows = R /\ b.Cols = C /\ Cells(b) = (0 .. R - 1) \X (0 .. C - 1)
  BY DEF Boards, Cells
<1>2. ASSUME NEW r0 \in 0 .. R - 1, NEW c \in 0 .. C - 1, b.Grid[r0][c] = Empty
      PROVE  FALSE
  <2> DEFINE T == {r \in 0 .. R - 1 : b.Grid[r][c] = Empty}
  <2>1. T \subseteq Nat /\ T # {}
    BY <1>2
  <2>2. PICK k \in T : \A y \in T : ~ (<< y, k >> \in OpToRel(<, Nat))
    BY <2>1, NatLessThanWellFounded, WFMin
  <2>3. k # 0
    BY <1>1, <1>2 DEF IsFull
  <2>4. k - 1 \in 0 .. R - 1 /\ k - 1 < R - 1 /\ (k - 1) + 1 = k
    BY <2>3
  <2>5. b.Grid[k - 1][c] # Empty
    <3> SUFFICES ASSUME b.Grid[k - 1][c] = Empty PROVE FALSE
      OBVIOUS
    <3>1. k - 1 \in T
      BY <2>4
    <3>2. << k - 1, k >> \in Nat \X Nat /\ << k - 1, k >>[1] < << k - 1, k >>[2]
      BY <2>4
    <3> QED
      BY <2>2, <3>1, <3>2 DEF OpToRel
  <2>6. << k - 1, c >> \in Cells(b) /\ << k - 1, c >>[1] = k - 1 /\ << k - 1, c >>[2] = c
    BY <1>1, <2>4
  <2>7. b.Grid[k][c] # Empty
    BY <1>1, <2>4, <2>5, <2>6 DEF Rests
  <2> QED
    BY <2>7
<1>3. {x \in Cells(b) : b.Grid[x[1]][x[2]] = Empty} = {}
  BY <1>1, <1>2
<1> QED
  BY <1>3, FS_EmptySet DEF Pieces
=============================================================================
