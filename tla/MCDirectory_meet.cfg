\* Modes, families and files change; no address does.
SPECIFICATION FairSpec
CONSTANTS
  r1 = r1  r2 = r2  A = A  B = B  Nobody = Nobody  NoHost = NoHost  NoNumber = unknown
  a4 = a4  a6 = a6  b4 = b4  b6 = b6  unknown = unknown
  Reflectors <- TwoReflectors
  Letters <- TwoLetters
  Hosts <- AllHosts
  Numbers <- SomeNumbers
  Configs <- ModesAndAddresses
  Files <- SomeFiles
INVARIANTS TypeOK ModesAgree AddressesFit
PROPERTY PeersMeet
