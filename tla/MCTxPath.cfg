SPECIFICATION FairSpec
CONSTANTS
  Faces = {f1, f2}
  Data = {a, b}
  If = If
  Nothing = Nothing
  QLen = 2
  Kind <- RateAndChain
  Gap <- OneTick
  Removable = {f1}
  PerRound = 2
  MaxTimers = 3
  MaxCnt = 2
INVARIANTS TypeOK NoLostWakeup CountsCover SlotsApart
PROPERTIES LossyFifo QueuesMove
