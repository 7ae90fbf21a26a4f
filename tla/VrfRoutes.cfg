SPECIFICATION Spec
CONSTANTS
  h1 = h1
  h2 = h2
  red = red
  blue = blue
  n1 = n1
  n2 = n2
  Host = {h1, h2}
  Vrf = {red, blue}
  Net = {n1, n2}
  Global = Global
  NoVrf = NoVrf
  Foreign = Foreign
  Workers = 2
  Networks <- MCNetworks
  Outages <- MCOutages
  Forms <- MCForms
INVARIANTS
  RoutesTypeOK
  VrfIsolation
  FirstReportIsStored
  HostsAccounted
CHECK_DEADLOCK FALSE
