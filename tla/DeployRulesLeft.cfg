SPECIFICATION Spec
CONSTANTS
  home = home
  shop = shop
  v1 = v1
  v2 = v2
  net1 = net1
  net2 = net2
  eth0 = eth0
  Projects = {home}
  Names = {v1}
  Subnets = {net1, net2}
  Ifaces = {eth0}
  SettingsOf <- TwoSubnets
  Faults = {}
  EditDuring = FALSE
  NoFile = NoFile
  Torn = Torn
INVARIANTS CleanRemovesRules
