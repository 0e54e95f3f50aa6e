SPECIFICATION FairSpec
CONSTANTS
  i1 = i1
  i2 = i2
  a1 = a1
  a2 = a2
  c1 = c1
  c2 = c2
  None = None
  Installs = {i1}
  Apps = {a1, a2}
  Conns = {c1}
  ForgedCursors <- NoForgery
  MaxId = 2
  MaxInFlight = 2
  MaxFaults = 1
PROPERTIES EventuallySettled ImplementsMailbox
