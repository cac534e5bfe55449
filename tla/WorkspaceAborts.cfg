SPECIFICATION Spec
CONSTANTS
  Clients = {alice}
  Settings = {good, other}
  NoHost = {}
  BadHost = {}
  BadSubnet = {}
  CA = CA
  Server = Server
  NoFile = NoFile
  Torn = Torn
  Abortable = {"init", "edit", "build", "clean"}
  MaxKey = 4
INVARIANTS TypeOK SameBuild KeysAreOwn
PROPERTIES IssuedStays StampLast InitRecovers KeepsLedger
CHECK_DEADLOCK FALSE
