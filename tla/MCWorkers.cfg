SPECIFICATION WorkersFairSpec
CONSTANTS
  LiveThreads = {e}
  LongThreads = {l1, l2}
  SyncCalls = {s}
  AsyncCalls = {a, b}
  Endless = {a}
  MaxCalls = 2
  Wakers = {w1, w2}
  NoCall = NoCall
  NoWaker = NoWaker
INVARIANTS
  NoLostWakeup
  AnsweredOnce
PROPERTIES
  CallsAnswered
  CancelledStops
CHECK_DEADLOCK FALSE
