\* Archives with up to three entries in the root and two leaf directories, one
\* of them naming itself; three transactions at most.
CONSTANTS
  MaxZoom = 2
  CoordinateBits = 3
  Archive <- MCArchive
  Word = 64
  MaxLeafDepth = 2
  MaxAddressed = 6
  MaxRootBytes = 5
  MaxLeafBytes = 8
  MaxTileBytes = 6
  Batch = 2
SPECIFICATION Spec
INVARIANTS
  ReadsInside
  BudgetIsExact
  ScanIsExpansion
PROPERTIES
  InspectionForetellsScan
\* A traversal ends.
CHECK_DEADLOCK FALSE
