CONSTANTS
  rx = rx
  ry = ry
  ca = ca
  cb = cb
  cc = cc
  cd = cd
  it1 = it1
  it2 = it2
  Nil = Nil
  Ropes <- TwoRopes
  Iterators <- TwoIterators
  Texts <- SomeTexts
  Chars <- SomeChars
  ReplaceMayThrow = FALSE
  CopyMax = 2
  Granularity = 3
  LazyThreshold = 1
  FillThreshold = 2
  BalanceDepth = 6
  ShortSize = 13
  MaxDepth = 8
  MaxLen = 4
  PathCacheLen = 3
  DirectionBits = 2
  IteratorBufLen = 2
  MaxNodes = 6
  MaxPairLen = 3
  MaxWalkLen = 5
  MaxCopiesLen = 3
SPECIFICATION CallsSpec
INVARIANT LeavesTerminated
