------------------------------- MODULE MCTui -------------------------------
(***************************************************************************)
(* Module Tui with every answer of MCTui.cfg at the prompts; the games     *)
(* played are those with lines of three on four rows and four columns.     *)
(***************************************************************************)
EXTENDS Tui
=============================================================================
