CONSTANTS
  t1 = t1
  t2 = t2
  NoThread = NoThread
  Threads <- TwoThreads
  Sizes <- ThreeSizes
  _ALIGN = 2
  _MAX_BYTES = 4
  NObjs = 2
  GrowthDiv = 5
  MemTop = 25
  MaxHeld = 3
  Outside <- SomeOutside
SPECIFICATION MCSpec
INVARIANTS TypeOK NoOverlap Conservation LastResort
PROPERTIES ImplementsAllocator AllocateEnds
