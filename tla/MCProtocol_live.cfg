\* One station, one reflector, one module; every behaviour to its end.
SPECIFICATION FairSpec
CONSTANTS
  s1 = s1
  Stations <- OneStation
  Peers <- OnePeer
  Modules = {A}
  Sids <- ZeroToOne
  Gens = {0, 1}
  HostOf <- OwnHosts
  InterlinkFiles <- AllOrNothing
  StreamTimeout = 0  KeepalivePeriod = 0  KeepaliveTimeout = 2  ReconnectPeriod = 0
  NoClient = NoClient
PROPERTIES SilentStationGone SilentPeerGone StreamsEnd UnlistedPeerGone LinkedPeerPublished
