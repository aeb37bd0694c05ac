CONSTANTS
  N = 2
  Totals = {4}
  Counts = {4}
  MaxDropped = 0
SPECIFICATION Spec
INVARIANT EveryGroupIsLeft
