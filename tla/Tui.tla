-------------------------------- MODULE Tui --------------------------------
(***************************************************************************)
(* The local two-player game of hw1: the prompts of main, then PlayGame.   *)
(*                                                                         *)
(* An action is one line of input that the program accepts.  A line it     *)
(* does not accept (no number, out of range, a full column) is answered    *)
(* with a message and the same prompt, which leaves the state as it was.   *)
(***************************************************************************)
EXTENDS ConnectM

CONSTANTS
    Enter,      \* an empty line: the prompt's default
    Typed,      \* the numbers typed at the prompts
    MaxGame     \* bound: games with rows * cols * m beyond it are not played

ASSUME TuiAssumption == Typed \subseteq Int /\ Enter \notin Typed /\ MaxGame \in Nat

VARIABLES
    stage,      \* the prompt the program is at, or how the game ended
    size,       \* [rows, cols, m]: the answers so far
    board,      \* Game.Board
    player      \* Game.CurrentPlayer

vars == << stage, size, board, player >>

Init ==
    /\ stage = "rows"
    /\ size = [rows |-> 0, cols |-> 0, m |-> 0]
    /\ board = NewBoard(0, 0, 0)
    /\ player = Player1

\* What a prompt makes of a line: the default, or the number.
Answer(line, default) == IF line = Enter THEN default ELSE line

AskRows(line) ==
    /\ stage = "rows"
    /\ Answer(line, 6) >= 4
    /\ size' = [size EXCEPT !.rows = Answer(line, 6)]
    /\ stage' = "cols"
    /\ UNCHANGED << board, player >>

AskCols(line) ==
    /\ stage = "cols"
    /\ Answer(line, 7) >= 4
    /\ size' = [size EXCEPT !.cols = Answer(line, 7)]
    /\ stage' = "m"
    /\ UNCHANGED << board, player >>

\* Mutant: M is compared with the number of rows only.
LengthOK_Rows(m) == m >= 3 /\ m <= size.rows

LengthOK(m) == m >= 3 /\ m <= size.rows /\ m <= size.cols

\* The default is taken without the test.
AskM(line) ==
    /\ stage = "m"
    /\ line # Enter => LengthOK(line)
    /\ size' = [size EXCEPT !.m = Answer(line, 4)]
    /\ stage' = "ready"
    /\ UNCHANGED << board, player >>

\* "Press Enter to continue", and NewGame.
Begin ==
    /\ stage = "ready"
    /\ size.rows * size.cols * size.m <= MaxGame
    /\ board' = NewBoard(size.rows, size.cols, size.m)
    /\ player' = Player1
    /\ stage' = "turn"
    /\ UNCHANGED size

\* GetPlayerInput accepts this number and returns it counted from 0.
Accepts(n) ==
    /\ n - 1 >= 0 /\ n - 1 < board.Cols
    /\ ~IsColumnFull(board, n - 1)

SwitchPlayer(p) == IF p = Player1 THEN Player2 ELSE Player1

(***************************************************************************)
(* One turn.  A move that MakeMove refuses would only repeat the prompt.   *)
(***************************************************************************)
Turn(n) ==
    /\ stage = "turn" /\ Accepts(n)
    /\ MoveError(board, n - 1, player) = "nil"
    /\ board' = MakeMove(board, n - 1, player)
    /\ stage' = IF CheckWin(board') THEN "won"
                ELSE IF IsFull(board') THEN "draw" ELSE "turn"
    /\ player' = IF stage' = "turn" THEN SwitchPlayer(player) ELSE player
    /\ UNCHANGED size

\* 'q'
Quit ==
    /\ stage = "turn"
    /\ stage' = "quit"
    /\ UNCHANGED << size, board, player >>

Next ==
    \/ \E line \in Typed \cup {Enter} : AskRows(line) \/ AskCols(line) \/ AskM(line)
    \/ Begin
    \/ \E n \in 0 .. board.Cols + 1 : Turn(n)
    \/ Quit

(***************************************************************************)
(* The players go on: as long as some column would be accepted, one is     *)
(* eventually chosen.  (With input at its end GetPlayerInput prompts for   *)
(* ever.)                                                                  *)
(***************************************************************************)
Fairness == WF_vars(\E n \in 1 .. board.Cols : Turn(n))

Spec == Init /\ [][Next]_vars /\ Fairness
-----------------------------------------------------------------------------
Stages == {"rows", "cols", "m", "ready", "turn", "won", "draw", "quit"}

\* The variables have their types, and whatever was typed at the three prompts
\* the game that starts can be won: M fits the board in both directions.
TypeOK ==
    /\ stage \in Stages /\ player \in {Player1, Player2}
    /\ board.Grid \in [0 .. board.Rows - 1 -> [0 .. board.Cols - 1 -> {Empty, Player1, Player2}]]
    /\ stage = "ready" => 3 <= size.m /\ size.m <= size.rows /\ size.m <= size.cols

(***************************************************************************)
(* CheckWin looks at four lines and IsFull at one row, and that is enough: *)
(* the game is won exactly when there is a line of M anywhere on the       *)
(* board, by the player who is announced and by nobody else; it is a draw  *)
(* exactly when there is none and no cell is left; else it goes on.        *)
(***************************************************************************)
VerdictTrue ==
    /\ stage = "won" => HasLine(board, player) /\ ~HasLine(board, SwitchPlayer(player))
    /\ stage \in {"turn", "draw", "quit"} => ~HasLine(board, Player1) /\ ~HasLine(board, Player2)
    /\ stage = "draw" => Pieces(board, Empty) = 0
    /\ stage = "turn" => Pieces(board, Empty) > 0

(***************************************************************************)
(* Whatever the order of moves, no piece floats, and the players have      *)
(* moved in turn: the first has as many pieces as the second, or one more  *)
(* once it has moved.                                                      *)
(***************************************************************************)
FairPlay ==
    /\ Rests(board)
    /\ LET firstIsAhead == IF stage \in {"won", "draw"} THEN player = Player1
                                                        ELSE player = Player2
       IN  Pieces(board, Player1) = Pieces(board, Player2) + IF firstIsAhead THEN 1 ELSE 0

(***************************************************************************)
(* A game that has begun ends, by a line, a full board or a player who     *)
(* quits: the prompt never refuses every column while the game goes on.    *)
(***************************************************************************)
GameEnds == stage = "turn" ~> stage \in {"won", "draw", "quit"}
=============================================================================
