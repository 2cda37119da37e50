SPECIFICATION CodesSpec
CONSTANTS
  Rooms = {r1}
  Resuming = {r1}
  Codes = {c1, c2}
  Draws = {d1, d2}
  Wait = 1
  HostTries = 2
  Tries = 2
  MaxWrong = 4
  MaxLost = 1
  Nobody = Nobody
INVARIANTS
  ClaimGoes
CHECK_DEADLOCK FALSE
