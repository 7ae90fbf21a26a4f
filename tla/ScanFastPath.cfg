SPECIFICATION Spec
CONSTANTS
  h1 = h1
  h2 = h2
  h3 = h3
  seed = seed
  other = other
  g1 = g1
  NoIp = NoIp
  global = global
  Namespace = {global}
  NoName = NoName
  NoSerial = NoSerial
  NoDevice = NoDevice
  NoGroup = NoGroup
  NoRow = NoRow
  NoInfo = NoInfo
  Host = {h1, h2}
  Group = {g1}
  Ip <- MCIp
  Name <- MCName
  Serial <- MCSerial
  Fold <- MCFold
  Strip <- MCStrip
  Seed <- MCSeed
  Device <- MCDevice
  SnmpWorkers = 2
  SshWorkers = 2
  BatchSize = 2
  StrictColumns = TRUE
  Faults = FALSE
  Jobs <- MCFast
  Inventories <- MCNoDevices
  Ledgers <- MCLedgers
  PingSees <- MCAlive
  SnmpSees <- MCSilent
  SshSees <- MCSshOnly
INVARIANT
  SshReachesTheRest
CHECK_DEADLOCK FALSE
