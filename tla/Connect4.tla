------------------------------ MODULE Connect4 ------------------------------
(***************************************************************************)
(* The rules of connect 4 (native/core: games/connect4.rs): a game so far, *)
(* where a disc may be dropped and what dropping it makes of the game.     *)
(***************************************************************************)
EXTENDS Integers, FiniteSets

CONSTANTS COLS, ROWS, LINE

ASSUME BoardAssumption == {COLS, ROWS, LINE} \subseteq Nat \ {0}

Sides == {"host", "guest"}
Other(x) == IF x = "host" THEN "guest" ELSE "host"

Columns == 0..(COLS - 1)
Rows == 0..(ROWS - 1)
Cells == Columns \X Rows

\* the host goes first in even games
FirstFor(game) == IF game % 2 = 0 THEN "host" ELSE "guest"

NewBoard(first) ==
  [board |-> [cell \in Cells |-> "free"], turn |-> first, moves |-> 0, winner |-> "none",
   draw |-> FALSE]

IsOver(st) == st.winner # "none" \/ st.draw

\* landing_row: the lowest free cell of a column
Free(st, c) == {r \in Rows : st.board[<<c, r>>] = "free"}
LandingRow(st, c) == CHOOSE r \in Free(st, c) : \A q \in Free(st, c) : r <= q

CanDrop(st, c, who) ==
  ~IsOver(st) /\ st.turn = who /\ c \in Columns /\ Free(st, c) # {}

DIRS == {<<1, 0>>, <<0, 1>>, <<1, 1>>, <<1, -1>>}
Along(cell, d, k) == <<cell[1] + k * d[1], cell[2] + k * d[2]>>

\* line_through: LINE cells in a row, of which the cell is one, all of its colour
LineThrough(b, cell) ==
  \E d \in DIRS, k \in 0..(LINE - 1) : \A j \in 0..(LINE - 1) :
    /\ Along(cell, d, j - k) \in Cells
    /\ b[Along(cell, d, j - k)] = b[cell]

\* drop, of a disc that can be: the turn stays where the game ended
Drop(st, c, who) ==
  LET cell == <<c, LandingRow(st, c)>>
      b == [st.board EXCEPT ![cell] = who]
      won == LineThrough(b, cell)
      full == st.moves + 1 = COLS * ROWS
  IN [board |-> b, moves |-> st.moves + 1,
      winner |-> IF won THEN who ELSE "none", draw |-> full /\ ~won,
      turn |-> IF won \/ full THEN st.turn ELSE Other(who)]
=============================================================================
