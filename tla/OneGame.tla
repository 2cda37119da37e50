------------------------------ MODULE OneGame -------------------------------
(***************************************************************************)
(* What two players over a link are to see between them: one game after    *)
(* another on one board, each disc dropped by the side whose turn it is    *)
(* where there is room, and a new game only once the one before is over.   *)
(***************************************************************************)
EXTENDS Connect4

VARIABLES game, state

gameVars == <<game, state>>

GameInit == game = 0 /\ state = NewBoard("host")

Dropped(who, c) ==
  /\ CanDrop(state, c, who)
  /\ state' = Drop(state, c, who)
  /\ UNCHANGED game

\* the first turn goes from side to side
Restarted ==
  /\ IsOver(state)
  /\ game' = game + 1 /\ state' = NewBoard(FirstFor(game'))

GameNext == (\E who \in Sides, c \in Columns : Dropped(who, c)) \/ Restarted

GameSpec == GameInit /\ [][GameNext]_gameVars
=============================================================================
