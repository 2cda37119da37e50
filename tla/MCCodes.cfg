SPECIFICATION CodesSpec
CONSTANTS
  Rooms = {r1, r2}
  Resuming = {r2}
  Codes = {c1, c2}
  Draws = {d1, d2}
  Wait = 1
  HostTries = 2
  Tries = 2
  MaxWrong = 2
  MaxLost = 1
  Nobody = Nobody
INVARIANTS
  ClaimOrGame
  FoundByCode
SYMMETRY MCSymmetry
CHECK_DEADLOCK FALSE
