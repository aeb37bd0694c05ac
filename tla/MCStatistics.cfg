CONSTANTS
  Agent = {a1, a2}
  Epochs = 2
  Sends = 1
  MaxTicks = 2
  MaxLines = 7
SPECIFICATION Spec
SYMMETRY Symmetry
INVARIANTS
  StatisticsTypeOK
  LinesInOrder
  NoStaleCounts
  ReportsEachEpochOnce
