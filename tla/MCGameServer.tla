---------------------------- MODULE MCGameServer ----------------------------
(***************************************************************************)
(* Module GameServer with two clients for X and one for O, on one row of   *)
(* four cells where two in a row win: x1 may open with 1 and win with 2,   *)
(* which leaves x2 a cell to play after the end; 1, 4, 3 and 2 is a draw.  *)
(***************************************************************************)
EXTENDS GameServer

CONSTANTS x1, x2, o1

TwoForX == [c \in {x1, x2, o1} |-> IF c = o1 THEN "O" ELSE "X"]

Openings == [c \in {x1, x2, o1} |-> CASE c = x1 -> 1 [] c = o1 -> 4 [] c = x2 -> 3]

\* x1 may claim the other piece as well or go on playing, o1 moves again.
Typing == [c \in {x1, x2, o1} |->
             CASE c = x1 -> {SendMove(2), SendConnect("O")}
               [] c = o1 -> {SendMove(2)}
               [] c = x2 -> {}]
=============================================================================
