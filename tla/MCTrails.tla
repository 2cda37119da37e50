------------------------------ MODULE MCTrails ------------------------------
(***************************************************************************)
(* Two rounds on a grid of four columns and two rows, the cycles starting  *)
(* in its corners: a round takes at most four ticks.  The guest may turn   *)
(* up once, which loses it the round; all else is a draw.                  *)
(***************************************************************************)
EXTENDS Trails

Pressed == {<<Guest, 0>>}
=============================================================================
