SPECIFICATION FairSpec
CONSTANTS
  h1 = h1
  h2 = h2
  seed = seed
  g1 = g1
  g2 = g2
  NoIp = NoIp
  Namespace = {global}
  NoName = NoName
  NoSerial = NoSerial
  NoDevice = NoDevice
  NoGroup = NoGroup
  NoRow = NoRow
  NoInfo = NoInfo
  NoLogin = NoLogin
  NoHost = NoHost
  Host <- MCHost
  Ip <- MCHost
  Group = {g1, g2}
  Name <- MCName
  Serial = {"s1"}
  Fold <- MCSame
  Strip <- MCSame
  Seed = {seed}
  Device <- MCDevice
  SyncWorkers = 2
  GroupOrder <- MCOrder
  Usable = {g1, g2}
  ConfigLogin = TRUE
  SnmpSees <- MCSnmp
  SshSees <- MCSsh
  SyncForms <- MCSyncForms
  OnboardForms <- MCOnboardForms
  MaxDeletions = 1
  Entered <- MCEntered
  StrictColumns = TRUE
  Faults = TRUE
  Jobs <- MCJobs
  Inventories <- MCInventories
  Ledgers <- MCLedgers
INVARIANTS
  LedgerTypeOK
  SyncMissesNoRow
  RememberedGroupWorks
  OnboardTotalsAreTrue
PROPERTIES
  OnboardIsAtomic
  LedgerJobsEnd
CHECK_DEADLOCK FALSE
