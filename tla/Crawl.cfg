SPECIFICATION FairSpec
CONSTANTS
  a = a
  b = b
  c = c
  d = d
  e = e
  seed = seed
  NoIp = NoIp
  global = global
  Namespace = {global}
  NoName = NoName
  NoSerial = NoSerial
  NoDevice = NoDevice
  NoGroup = NoGroup
  NoRow = NoRow
  NoInfo = NoInfo
  NoHop = NoHop
  Host <- MCHost
  Ip <- MCHost
  Group = {}
  Name <- MCName
  Serial = {}
  Fold <- MCFold
  Strip <- MCStrip
  Seed = {seed}
  SeedDevice = seed
  Device <- MCDevice
  Workers = 2
  StrictColumns = TRUE
  Faults = TRUE
  Jobs <- MCJobs
  Forms <- MCForms
  Inventories <- MCInventories
  Ledgers <- MCLedgers
  Topologies <- MCTopologies
  Dns <- MCDns
  Sees <- MCSees
INVARIANTS
  CrawlTypeOK
  CrawlCovers
PROPERTIES
  KeepsBounds
  CrawlEnds
CHECK_DEADLOCK FALSE
