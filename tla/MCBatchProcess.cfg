CONSTANTS
  i1 = i1
  i2 = i2
  i3 = i3
  i4 = i4
  i5 = i5
  Items <- MCItems
  Max = 3
  Totals = {0, 5}
  Concurrent = {2}
  Factor = 10
  Interval = 2
  Start = 6
  MaxLate = 2
  Horizon = 12
SPECIFICATION ConnectSpec
INVARIANTS TypeOK Conservation NoSpuriousRelease PacedTypeOK PaceBounds EndsAfterItems
PROPERTIES AllProcessed ImplementsPool EveryItemEnds
