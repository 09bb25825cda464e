CONSTANTS
  a = a
  b = b
  Raw = Raw
  Header = Header
  Null = Null
  TreeElements = {1, 2, 3, 4, 5, 6, 7, 8}
  TableElements = {1, 2, 3, 4, 5}
  MaxTreePair = 4
  MaxTablePair = 3
  MaxCells = 3
  MaxSize = 4
  InitialMapSize = 3
  Plenty = 30
  Free = Free
  NullChar = NullChar
  MaxNodes = 12
  MaxElements = 5
  MaxListPair = 3
  Counters = 3
  ListPlenty = 80
  WordBit = 2
  MaxBits = 5
  MaxBitBlock = 4
  InitialCells = 3
  MaxLength = 4
  MaxStringCells = 3
  Npos = 15
  BitsPerWord = 4
  CharBit = 2
  Sizes = {1, 4, 7, 9}
  Keys = {1, 2, 3}
  MaxQueue = 6
  InsertedMayThrow = TRUE
SPECIFICATION MCSpec
VIEW View
INVARIANT NothingLost
