SPECIFICATION FairSpec
CONSTANTS
  NoValue = NoValue
  Word = 16
  Peer = {p1, p2}
  LocalPeer = {}
  ReflectPeer = {}
  Interest <- TrafficInterest
  Data <- TrafficData
  AppData <- TrafficAppData
  Preload = {}
  Prefix <- TrafficPrefix
  CacheName = {}
  MaxCache = 1
  MaxPit = 2
  MaxNonces = 2
  MaxRetransmit = 2
  InterestTimeout = 1
  ContentTimeout = 2
  FaceTimeout = 2
  MaxNameComp = 4
  AgeCap = 2
  MaxLag = 1
  MaxFaceId = 3
  MaxFib = 1
  MaxGen = 1
INVARIANTS TypeOK CacheAnswersPending FaceYoungerThanPending FreshInTime PendingInTime
PROPERTIES Delivers WaitersKept PitDrains
