SPECIFICATION LazySpec
CONSTANTS
  Threads = {t1, t2}
  Owners = {0}
  Lazies = {1, 2}
  Locals = {2}
  Boxes = {1, 2, 3, 4, 5}
  MaxEpochs = 3
  MaxPanics = 1
  None = None
INVARIANTS
  OneOwner
  HeldIsLive
  CopiesInPlace
SYMMETRY MCSymmetry
