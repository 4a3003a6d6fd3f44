\* One reflector that stays in the interlink file while its module list changes.
SPECIFICATION Spec
CONSTANTS
  s1 = s1
  Stations <- OneStation
  Peers <- OnePeer
  Modules = {A, B}
  Sids <- ZeroToOne
  Gens = {0, 1}
  HostOf <- OwnHosts
  InterlinkFiles <- Shared
  StreamTimeout = 0  KeepalivePeriod = 0  KeepaliveTimeout = 2  ReconnectPeriod = 0
  NoClient = NoClient
PROPERTY ChangedPeerDropped
