CONSTANTS
  NoThread = NoThread
  Threads = {t1, t2}
  LowMax = 1
  HighMax = 3
  MaxSleep = 1
SPECIFICATION FairSpec
INVARIANTS TypeOK MutualExclusion FreeMeansUnowned SpinBounds
PROPERTIES SpinStaysDisabled SpinEnds ImplementsLock
