CONSTANTS
  Conn = {c1, c2, n1, n2}
  Slot = {c1, c2}
  Caller <- MCCaller
  Program <- PerfGroup
  RepairAction = "JoinToGroup"
  SlowSends = TRUE
  MaxPending = 2
  MaxFaults = 2
SPECIFICATION Spec
INVARIANTS AgentTypeOK RepairedIsJoined
PROPERTY CleansUp
