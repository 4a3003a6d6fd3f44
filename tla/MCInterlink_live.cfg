\* Two reflectors; the files name each other or not.
SPECIFICATION FairSpec
CONSTANTS
  r1 = r1  r2 = r2  ABC = ABC  None = None
  Reflectors <- TwoReflectors
  ModuleLists <- OneList
  KeepaliveTimeout = 1
INVARIANT LinkAgreed
PROPERTIES LinkRecovers LinkNeedsBoth OneSidedLinkEnds
