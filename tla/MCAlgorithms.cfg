CONSTANTS
  Shapes <- SomeShapes
  DepthFactors = {0, 1, 2}
  Threshold = 2
  ChunkSize = 2
  InplaceThreshold = 3
SPECIFICATION MCSpec
VIEW View
INVARIANTS TypeOK StaysInside HeapKept ResultsAgree
PROPERTIES ImplementsAlgorithms
