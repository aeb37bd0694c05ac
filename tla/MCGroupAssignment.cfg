CONSTANTS
  N = 2
  Totals <- MCTotals
  Counts <- MCCounts
  MaxDropped = 1
SPECIFICATION Spec
INVARIANTS GroupTypeOK Dealt Balanced SendsToOwnGroup LeavesWhatItJoined
