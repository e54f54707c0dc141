SPECIFICATION SpecAny
CONSTANTS
  Frames <- SoundFrames
  Requests <- RpcRequests
  MaxNameComp = 4
  MaxPacketSize = 8096
  InterestTimeout = 10
  WithFrag = TRUE
INVARIANTS AsBuilt RpcAnswered
CHECK_DEADLOCK FALSE
