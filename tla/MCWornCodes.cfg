SPECIFICATION CodesFairSpec
CONSTANTS
  Rooms = {r1}
  Resuming = {r1}
  Codes = {c1, c2}
  Draws = {d1, d2}
  Wait = 1
  HostTries = 1
  Tries = 2
  MaxWrong = 4
  MaxLost = 1
  Nobody = Nobody
INVARIANTS
  NothingHeldBehind
  WornCodeGoes
PROPERTIES
  ClaimEnds
CHECK_DEADLOCK FALSE
