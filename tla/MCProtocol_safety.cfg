\* One station and two reflectors on one host, told apart by their ports.
SPECIFICATION Spec
CONSTANTS
  s1 = s1
  Stations <- OneStation
  Peers <- TwoPeers
  Modules = {A, B}
  Sids <- ZeroToTwo
  Gens = {0, 1}
  HostOf <- OneHost
  InterlinkFiles <- AllOrNothing
  StreamTimeout = 0  KeepalivePeriod = 0  KeepaliveTimeout = 1  ReconnectPeriod = 0
  NoClient = NoClient
INVARIANTS TxIffOwner DistinctSids PeersMatchClients OneClientPerStation PeerTalkerStays
PROPERTIES KeepaliveSparesTalkers StreamsEndProperly ImplementsFloor
SYMMETRY Symmetry
