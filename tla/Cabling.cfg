SPECIFICATION Spec
CONSTANTS
  a = a
  b = b
  j1 = j1
  j2 = j2
  Box = {a, b}
  Port <- MCPort
  Address <- MCAddress
  NoBox = NoBox
  NoPort = NoPort
  NoAddress = NoAddress
  BoxOf <- MCBoxOf
  Job = {j1, j2}
  Sites <- MCSites
SYMMETRY JobsAlike
INVARIANTS
  CablingTypeOK
  CableEndsUnique
  CablesAreReal
  LinksAreCabled
CHECK_DEADLOCK FALSE
