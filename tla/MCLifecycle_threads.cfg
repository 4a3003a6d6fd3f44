\* 'Good' alone starts: the other files lead to one more try.
CONSTANTS
  Letters <- MCLetters
  Files <- MCFiles
  WebPages <- MCWebPages
  MaxTries = 2
SPECIFICATION FairSpec
INVARIANTS
  SomeHolderGoesOn
  ThreadHasSockets
  NothingLeft
PROPERTIES
  StopEnds
  OperationsEnd
CHECK_DEADLOCK FALSE
