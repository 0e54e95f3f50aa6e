SPECIFICATION FairSpec
CONSTANTS
  i1 = i1
  a1 = a1
  a2 = a2
  s1 = s1
  s2 = s2
  k1 = k1
  k2 = k2
  k3 = k3
  t1 = t1
  t2 = t2
  h1 = h1
  h2 = h2
  None = None
  Main = Main
  Installs = {i1}
  Apps = {a1}
  Secrets = {s1}
  Creds = {k1, k2}
  Refused = {}
  Targets = {t1}
  Handlers = {h1, h2}
  FaultKinds = {"crash", "drop", "database", "fcm", "silence"}
  MaxRequests = 3
  MaxFaults = 1
PROPERTIES EventuallyAnswered EventuallyMaintained
CHECK_DEADLOCK FALSE
