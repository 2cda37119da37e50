SPECIFICATION RoomSpec
CONSTANTS
  Links = {l1, l2, l3}
  Wait = 1
  Grace = 2
  MaxQueued = 1
  MaxMsgs = 2
  Nobody = Nobody
  Unset = Unset
  Here = Here
INVARIANTS
  SeatsRight
  KeptInOrder
  SeesRight
PROPERTIES
  GameEndsForCause
SYMMETRY MCSymmetry
CHECK_DEADLOCK FALSE
