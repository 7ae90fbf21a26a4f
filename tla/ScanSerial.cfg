SPECIFICATION FairSpec
CONSTANTS
  h1 = h1
  h2 = h2
  h3 = h3
  seed = seed
  other = other
  g1 = g1
  NoIp = NoIp
  global = global
  Namespace = {global, vrf}
  NoName = NoName
  NoSerial = NoSerial
  NoDevice = NoDevice
  NoGroup = NoGroup
  NoRow = NoRow
  NoInfo = NoInfo
  Host = {h1, h2, h3}
  Group = {g1}
  Ip <- MCIp
  Name <- MCName
  Serial <- MCSerial
  Fold <- MCFold
  Strip <- MCStrip
  Seed <- MCSeed
  Device <- MCDevice
  SnmpWorkers = 1
  SshWorkers = 1
  BatchSize = 2
  StrictColumns = FALSE
  Faults = FALSE
  Jobs <- MCSlowJobs
  Inventories <- MCInventories
  Ledgers <- MCUnknown
  PingSees <- MCPing
  SnmpSees <- MCSnmp
  SshSees <- MCSsh
INVARIANTS
  SshReachesTheRest
  NoTwins
  ImportedAgrees
PROPERTY
  ScanCompletes
CHECK_DEADLOCK FALSE
