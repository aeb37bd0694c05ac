CONSTANTS
  c1 = c1
  batch = batch
  repair = repair
  Conn <- MCConn
  Caller <- MCCaller
  SlowSends = TRUE
  MaxPending = 1
  Echoer = c1
  Count = 2
  MaxCalls = 2
SPECIFICATION StreamSpec
INVARIANTS HubTypeOK OneStarter StreamTypeOK WholeOrFailed StampedInTime
PROPERTIES AbandonedUntilDown LockReleased EveryStreamEnds
