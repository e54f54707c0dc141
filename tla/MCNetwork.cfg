SPECIFICATION FairSpec
CONSTANTS
  NoValue = NoValue
  Word = 128
  Single <- NdnOne
  FileName <- NdnFile
  FileLen = 4
  ChunkSize = 2
  Fetched <- NdnBoth
  ACache = 0
  Junk <- SomeJunk
  Wait = 5
  MaxRetry = 3
  MaxRetransmit = 7
  InterestTimeout = 10
  FaceTimeout = 30
  MaxLag = 1
  MaxLoss = 1
  MaxLate = 1
INVARIANTS InOrder
PROPERTIES FetchSucceeds
CHECK_DEADLOCK FALSE
