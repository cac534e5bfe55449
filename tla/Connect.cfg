SPECIFICATION Spec
CONSTANTS
  east = east
  west = west
  k1 = k1
  k2 = k2
  X = X
  Dot = Dot
  Blank = Blank
  NoVersion = NoVersion
  MaxPart = 99
  Hosts = {east, west}
  Ports = {22, 2222}
  DefaultPort = 22
  HostKeys = {k1, k2}
  NameBegins <- MCNameBegins
  Banners <- MCBanners
  NotInstalled <- None
  AptBanners <- MCApt
  AptHosts = {east}
  Flags <- MCFlags
  Changeable = {east}
  FirstWorlds <- MCFirstWorlds
  Reached <- MCReached
  OldDialect = "openvpn-2.3"
  NoFile = NoFile
  Torn = Torn
  MaxLines = 2
CONSTRAINT Scope
INVARIANTS TypeOK  TrustRemembered RefusalIsEarned StampIsLive FlagIsVerbatim NoOldTarget GateIsExact
PROPERTIES NeverAskedTwice SetupRemembered
