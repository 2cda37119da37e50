------------------------------- MODULE MCCodes -------------------------------
(***************************************************************************)
(* Two locked rooms, one of which holds seats, over a few codes.            *)
(***************************************************************************)
EXTENDS Codes, TLC

MCSymmetry == Permutations(Codes) \cup Permutations(Draws)
=============================================================================
