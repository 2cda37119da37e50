SPECIFICATION TrailsFairSpec
CHECK_DEADLOCK FALSE
CONSTANTS
  COLS = 4
  ROWS = 2
  START = 0
  WIN_ROUNDS = 1
  MAX_FRAMES = 3
  QUEUE_MAX = 1
  HASH_EVERY = 2
  Delays = {1}
  Keys <- Pressed
  CATCH_UP = 1
  MaxRound = 1
  MaxTurns = 1
  MaxFaults = 1
  MaxFlight = 2
INVARIANTS
  Lockstep
  NoneUnsaid
PROPERTIES
  Settles
