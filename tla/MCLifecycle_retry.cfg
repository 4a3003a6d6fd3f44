CONSTANTS
  Letters <- MCLetters
  Files <- MCFiles
  WebPages <- MCWebPages
  MaxTries = 2
SPECIFICATION FairSpec
PROPERTY FailedStartTriedAgain
CHECK_DEADLOCK FALSE
