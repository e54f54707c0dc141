SPECIFICATION SpecBoth
CONSTANTS
  NoValue = NoValue
  Word = 8
  Peer = {p1, p2}
  LocalPeer = {p1}
  ReflectPeer = {}
  Interest <- MgmtInterest
  Data <- MgmtData
  AppData <- MgmtAppData
  Preload <- MgmtPreload
  Prefix <- MgmtPrefix
  CacheName <- MgmtCacheName
  MaxCache = 1
  MaxPit = 2
  MaxNonces = 2
  MaxRetransmit = 1
  InterestTimeout = 1
  ContentTimeout = 1
  FaceTimeout = 1
  MaxNameComp = 4
  AgeCap = 1
  MaxLag = 1
  MaxFaceId = 2
  MaxFib = 1
  MaxGen = 2
INVARIANTS NoDanglingFace CacheAnswersPending PitKeyed CacheBounded MatchesAsPrefix AggregationSound
PROPERTIES NotForgotten StaticStays
