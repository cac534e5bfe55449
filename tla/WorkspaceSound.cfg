SPECIFICATION FairSpec
CONSTANTS
  Clients = {alice, bob}
  Settings <- MCSettings
  NoHost <- MCNoHost
  BadHost <- MCBadHost
  BadSubnet <- MCBadSubnet
  Absent = Absent
  Unread = Unread
  CA = CA
  Server = Server
  NoFile = NoFile
  Torn = Torn
  Abortable = {"edit"}
  MaxKey = 5
INVARIANTS ChainOK ShippedWorks BuildFindsServerKey PeersTalk PoolIsMasqueraded
PROPERTIES CommandEnds BuildDelivers
CHECK_DEADLOCK FALSE
