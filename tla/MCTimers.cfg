SPECIFICATION Spec
CONSTANTS
  Delays <- ShortDelays
  MaxClock = 4
  MaxTimers = 4
  StepsBack <- BetweenPasses
INVARIANTS
  NoneLost
  SoonestFirst
  PassIsBounded
