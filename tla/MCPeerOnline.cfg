SPECIFICATION PeerFairSpec
CONSTANTS
  Ids = {i1, i2}
  NoSock = NoSock
  PING = 1
  DEAD = 2
  CONNECT = 1
  RESUME = 3
  RETRY = 1
  RETRY_MAX = 2
  MAX_OUTBOX = 1
  MaxSends = 2
  MaxWakes = 1
INVARIANTS
  LinkInPlace
  FramesKept
PROPERTIES
  LeavesForGood
  ImplementsLink
  AwayEnds
