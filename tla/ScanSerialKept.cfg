SPECIFICATION FairSpec
CONSTANTS
  h1 = h1
  h2 = h2
  h3 = h3
  seed = seed
  other = other
  g1 = g1
  NoIp = NoIp
  global = global
  Namespace = {global}
  NoName = NoName
  NoSerial = NoSerial
  NoDevice = NoDevice
  NoGroup = NoGroup
  NoRow = NoRow
  NoInfo = NoInfo
  Host = {h1, h2, h3}
  Group = {g1}
  Ip <- MCIp
  Name <- MCName
  Serial <- MCSerial
  Fold <- MCFold
  Strip <- MCStrip
  Seed <- MCSeed
  Device <- MCDevice
  SnmpWorkers = 3
  SshWorkers = 3
  BatchSize = 3
  StrictColumns = TRUE
  Faults = FALSE
  Jobs <- MCFull
  Inventories <- MCNoDevices
  Ledgers <- MCUnknown
  PingSees <- MCAlive
  SnmpSees <- MCBlankThenSerial
  SshSees <- MCSshOnly
PROPERTY
  SerialIsKept
CHECK_DEADLOCK FALSE
