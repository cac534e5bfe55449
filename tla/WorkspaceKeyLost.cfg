SPECIFICATION Spec
CONSTANTS
  Clients = {alice}
  Settings = {good}
  NoHost = {}
  BadHost = {}
  BadSubnet = {}
  CA = CA
  Server = Server
  NoFile = NoFile
  Torn = Torn
  Abortable = {"build"}
  MaxKey = 5
INVARIANTS BuildFindsServerKey
CHECK_DEADLOCK FALSE
