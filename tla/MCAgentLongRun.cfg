CONSTANTS
  Conn = {c1, c2, n1, n2}
  Slot = {c1, c2}
  Caller <- MCCaller
  Program <- LongRun
  RepairAction = "JoinToGroup"
  SlowSends = TRUE
  MaxPending = 1
  MaxFaults = 2
SPECIFICATION Spec
PROPERTY RepairConverges
