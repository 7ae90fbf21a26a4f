SPECIFICATION Spec
CONSTANTS
  h1 = h1
  ams = ams
  fra = fra
  x = x
  y = y
  web = web
  Host = {h1}
  Hostname = {"core", "edge"}
  Target = {"location"}
  Object = {ams, fra}
  Rule <- MCRule
  RuleVersions <- MCVersions
  NoRule = NoRule
  NoResult = NoResult
  NoTask = NoTask
  Same = Same
  Actor = {x, y}
  Process = {web}
  ProcessOf <- MCProcessOf
SYMMETRY ActorsAlike
INVARIANTS
  ClassTypeOK
  
  FlagIsHeld
