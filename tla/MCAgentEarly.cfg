CONSTANTS
  Conn = {c1, c2, n1, n2}
  Slot = {c1, c2}
  Caller <- MCCaller
  Program <- EarlyRepair
  RepairAction = "None"
  SlowSends = TRUE
  MaxPending = 1
  MaxFaults = 2
SPECIFICATION Spec
INVARIANT NoOrphan
PROPERTY ImplementsHub
