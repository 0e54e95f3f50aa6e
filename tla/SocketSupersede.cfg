SPECIFICATION Spec
CONSTANTS
  i1 = i1
  i2 = i2
  a1 = a1
  a2 = a2
  c1 = c1
  c2 = c2
  None = None
  Installs = {i1}
  Apps = {a1}
  Conns = {c1, c2}
  ForgedCursors <- AnyCursor
  MaxId = 2
  MaxInFlight = 2
  MaxFaults = 1
INVARIANTS TypeOK SkipFree HubOwner Superseded NoLostWake ViewAgrees
SYMMETRY ConnSymmetry
