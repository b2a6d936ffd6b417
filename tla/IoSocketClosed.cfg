CONSTANTS
  StreamLen = 6
  MaxRequest = 4
SPECIFICATION FairSpec

PROPERTY CloseEndsRead
