SPECIFICATION TurnFairSpec
CHECK_DEADLOCK FALSE
CONSTANTS
  COLS = 3
  ROWS = 1
  LINE = 2
  SILENCE = 2
  MaxGames = 2
  MaxFaults = 1
INVARIANTS
  InOneGame
  NotLostInVain
PROPERTIES
  PlaysOneGame
  MovesArrive
