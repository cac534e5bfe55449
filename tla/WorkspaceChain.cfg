SPECIFICATION Spec
CONSTANTS
  Clients = {alice}
  Settings = {good}
  NoHost = {}
  BadHost = {}
  BadSubnet = {}
  CA = CA
  Server = Server
  NoFile = NoFile
  Torn = Torn
  Abortable = {"init"}
  MaxKey = 5
INVARIANTS ShippedWorks
CHECK_DEADLOCK FALSE
