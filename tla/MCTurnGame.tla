----------------------------- MODULE MCTurnGame -----------------------------
(***************************************************************************)
(* Two sides on a board of three columns and one row, with lines of two: a *)
(* game takes two or three discs, and may be won or drawn.  A second game  *)
(* follows when both ask.                                                  *)
(***************************************************************************)
EXTENDS TurnGame
=============================================================================
