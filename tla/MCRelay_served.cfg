CONSTANTS
  s = s  l = l  r = r  g = g
  Hosts <- MCHosts
  KindOf <- MCKindOf
  Modules <- MCModules
  Encrypted <- MCEncrypted
  Frames <- MCFrames
  Sources <- MCSources
  MaxUsers = 2
  Shares <- MCShares
  MaxSize = 860
  MaxParrots = 1
SPECIFICATION Spec
INVARIANTS
  TypeOK
  RightForReceiver
  PlaybackClean
PROPERTIES
  RecentFirst
  ImplementsBroadcast
