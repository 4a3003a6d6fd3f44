\* Two clients, recordings of up to two frames.
SPECIFICATION FairSpec
CONSTANTS
  c1 = c1  c2 = c2
  Clients <- TwoClients
  MaxFrames = 2  StreamTimeout = 0
  NoClient = NoClient
INVARIANTS TypeOK ThreadsHaveParrot
PROPERTIES EchoComplete BackToSocket ParrotFreed
