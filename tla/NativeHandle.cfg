SPECIFICATION FairSpec
CONSTANTS
  t1 = t1
  t2 = t2
  a1 = a1
  a2 = a2
  None = None
  Threads = {t1, t2}
  Apps = {a1}
  MaxHandles = 1
  MaxMessage = 2
  MaxFaults = 1
INVARIANTS TypeOK StopDelivered QuietAfterStop NothingLost
PROPERTIES EventuallyEnds
CHECK_DEADLOCK FALSE
