---------------------------- MODULE TrailsRound ----------------------------
(***************************************************************************)
(* A round of trails (native/core: games/trails/mod.rs): two cycles on a   *)
(* grid, each leaving a wall behind it.  A cycle is the cells it has been  *)
(* through, its head last, and the way it goes; the grid is the cells of   *)
(* both.  Queued turns of the solo game, and where a crash is drawn, are   *)
(* left out.                                                               *)
(***************************************************************************)
EXTENDS Integers, Sequences, SequencesExt

CONSTANTS
  COLS, ROWS,  \* the grid
  START,       \* how far from its edge a cycle starts
  WIN_ROUNDS

ASSUME RoundAssumption ==
  /\ {COLS, ROWS, WIN_ROUNDS} \subseteq Nat \ {0}
  /\ START \in Nat /\ 2 * START < COLS - 1

Player == {1, 2}  \* the host is the left cycle
Other(p) == 3 - p

Dir == 0..3  \* up, right, down, left
DX == [d \in Dir |-> CASE d = 1 -> 1 [] d = 3 -> -1 [] OTHER -> 0]
DY == [d \in Dir |-> CASE d = 0 -> -1 [] d = 2 -> 1 [] OTHER -> 0]
Straight == 4  \* a frame without a turn
Frame == Dir \cup {Straight}

Turns(heading, to) == to # heading /\ to # (heading + 2) % 4

Going == "going"
Draw == "draw"
Winner(p) == <<"host", "guest">>[p]
Results == {Going, Draw, Winner(1), Winner(2)}

Cycle(x, y, dir) == [path |-> << <<x, y>> >>, dir |-> dir]
NewRound ==
  [cycles |-> <<Cycle(START, ROWS \div 2 - 1, 1), Cycle(COLS - 1 - START, ROWS \div 2, 3)>>,
   tick   |-> 0,
   result |-> Going]

Walls(r) == UNION {Range(r.cycles[p].path) : p \in Player}

\* The way a cycle goes this tick: the turn it is given, if it is one.
Steered(c, f) == IF f \in Dir /\ Turns(c.dir, f) THEN f ELSE c.dir

\* One cell on, both at once: a wall, the edge or the other's head on the same cell is a crash.
Step(r, frames) ==
  LET dir  == [p \in Player |-> Steered(r.cycles[p], frames[p])]
      to   == [p \in Player |-> <<Last(r.cycles[p].path)[1] + DX[dir[p]],
                                  Last(r.cycles[p].path)[2] + DY[dir[p]]>>]
      into == {p \in Player : to[p] \notin (0 .. COLS - 1) \X (0 .. ROWS - 1) \/ to[p] \in Walls(r)}
      hit  == IF into = {} /\ to[1] = to[2] THEN Player ELSE into
  IN  [cycles |-> [p \in Player |->
                     [path |-> IF p \in hit THEN r.cycles[p].path ELSE Append(r.cycles[p].path, to[p]),
                      dir  |-> dir[p]]],
       tick   |-> r.tick + 1,
       result |-> CASE hit = {} -> Going [] hit = Player -> Draw
                    [] OTHER -> Winner(CHOOSE p \in Player : p \notin hit)]

ScoreRound(score, result) ==
  [p \in Player |-> IF result = Winner(p) THEN score[p] + 1 ELSE score[p]]

MatchWon(score) == \E p \in Player : score[p] >= WIN_ROUNDS
=============================================================================
