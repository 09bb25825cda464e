CONSTANTS
  t1 = t1
  t2 = t2
  NoState = NoState
  Threads <- TwoThreads
  Sizes <- TwoSizes
  _S_ALIGN = 2
  _Max_size = 4
  NObjs = 2
  GrowthDiv = 5
  MemTop = 17
  MaxStates = 2
  MaxHeld = 2
  ThrowsWithLeftover = FALSE
  SetspecificFails = FALSE
SPECIFICATION MCSpec
CHECK_DEADLOCK FALSE
SYMMETRY Symmetry
INVARIANTS TypeOK NoOverlap Conservation StatesArePrivate
PROPERTY ImplementsAllocator
