CONSTANTS
  Conn = {c1, c2, n1, n2, n3, n4}
  Slot = {c1, c2}
  Caller <- MCCaller
  Program <- StrictGroup
  RepairAction = "JoinToGroup"
  SlowSends = TRUE
  MaxPending = 1
  MaxFaults = 2
SPECIFICATION Spec
INVARIANT SameStressInEveryStep
