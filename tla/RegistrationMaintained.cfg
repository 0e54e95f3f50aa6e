SPECIFICATION Spec
CONSTANTS
  i1 = i1
  a1 = a1
  a2 = a2
  s1 = s1
  s2 = s2
  k1 = k1
  k2 = k2
  k3 = k3
  t1 = t1
  t2 = t2
  h1 = h1
  h2 = h2
  None = None
  Main = Main
  Installs = {i1}
  Apps = {a1}
  Secrets = {s1}
  Creds = {k1}
  Refused = {}
  Targets = {t1}
  Handlers = {h1}
  FaultKinds = {"silence"}
  MaxRequests = 2
  MaxFaults = 1
INVARIANT Maintained
CHECK_DEADLOCK FALSE
