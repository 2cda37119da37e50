------------------------------- MODULE MCRoom -------------------------------
(***************************************************************************)
(* One room and a handful of links, its players free to come and go.        *)
(***************************************************************************)
EXTENDS Room, TLC

MCSymmetry == Permutations(Links)
=============================================================================
