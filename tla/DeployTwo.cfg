SPECIFICATION Spec
CONSTANTS
  home = home
  shop = shop
  v1 = v1
  v2 = v2
  net1 = net1
  net2 = net2
  eth0 = eth0
  Projects = {home, shop}
  Names = {v1, v2}
  Subnets = {net1, net2}
  Ifaces = {eth0}
  SettingsOf <- TwoProjects
  Faults = {}
  EditDuring = FALSE
  NoFile = NoFile
  Torn = Torn
INVARIANTS LiveMasquerades LiveForwards CleanRemovesRules
PROPERTIES KeepsPromises
