SPECIFICATION Spec
CONSTANTS
  i1 = i1
  i2 = i2
  s1 = s1
  s2 = s2
  a1 = a1
  a2 = a2
  t1 = t1
  t2 = t2
  h1 = h1
  h2 = h2
  k1 = k1
  k2 = k2
  bad = bad
  off = off
  None = None
  Keys = {k1, off, bad, k2}
  Undecodable = {bad}
  OffCurve = {off}
  Headers <- MCHeaders
  Clock = {0, 7}
  U64_MAX = 7
  MAX_EXP_AHEAD_SECS = 2
  CLOCK_SKEW_SECS = 1
  Installs = {i1, i2}
  Secrets = {s1}
  Apps = {a1, a2}
  Tokens = {t1, t2}
  Entries <- MCEntries
  Handlers = {h1, h2}
  MAX_RECONCILE = 2
  MaxEndpoints = 2
  MaxRequests = 3
  MaxFaults = 1
SYMMETRY Symmetric
INVARIANTS TypeOK Faithful OrphansRaced AcceptsExactly
PROPERTY ReconcileConverges
CHECK_DEADLOCK FALSE
