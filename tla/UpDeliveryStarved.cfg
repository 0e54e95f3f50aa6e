SPECIFICATION FairSpec
CONSTANTS
  a1 = a1
  a2 = a2
  e1 = e1
  e2 = e2
  None = None
  Apps = {a1, a2}
  Endpoints = {e1, e2}
  Accepting = {e1}
  Refusing = {}
  LIMIT = 1
  MAX_ATTEMPTS = 2
  MAX_SHIFT = 1
  AttemptTime = 1
  MaxId = 3
  MaxChanges = 0
  MaxFaults = 0
PROPERTY EventuallyForwarded
