SPECIFICATION MCSpec
CONSTANTS
  ip1 = ip1
  ip2 = ip2
  global = global
  vrf = vrf
  Ip = {ip1, ip2}
  Namespace = {global, vrf}
  Serial = {s1, s2}
  Device = {d1, d2, d3}
  Name <- MCName
  Fold <- MCFold
  Rows0 <- MCRows0
  NoIp = NoIp
  NoName = NoName
  NoSerial = NoSerial
  NoDevice = NoDevice
SYMMETRY MCSymmetry
INVARIANTS
  RTypeOK
  ImportedAsDocumented
PROPERTIES
  CreatedIsImported
  ConflictStays
CHECK_DEADLOCK FALSE
