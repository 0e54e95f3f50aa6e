SPECIFICATION FairSpec
CONSTANTS
  a1 = a1
  a2 = a2
  e1 = e1
  e2 = e2
  None = None
  Apps = {a1, a2}
  Endpoints = {e1, e2}
  Accepting = {e1}
  Refusing = {e2}
  LIMIT = 2
  MAX_ATTEMPTS = 2
  MAX_SHIFT = 1
  AttemptTime = 1
  MaxId = 2
  MaxChanges = 2
  MaxFaults = 1
INVARIANTS TypeOK NoLoss OnceUnlessFault
PROPERTIES BackedOff EventuallyForwarded
