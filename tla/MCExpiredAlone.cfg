SPECIFICATION RoomSpec
CONSTANTS
  Links = {l1, l2, l3}
  Wait = 1
  Grace = 2
  MaxQueued = 1
  MaxMsgs = 0
  Nobody = Nobody
  Unset = Unset
  Here = Here
INVARIANTS
  ExpiredAlone
CHECK_DEADLOCK FALSE
