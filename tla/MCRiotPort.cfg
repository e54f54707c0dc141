SPECIFICATION FairSpec
CONSTANTS
  Name = {"a", "ab"}
  Answers <- LongerAnswers
  PathPrefix <- PathPrefixes
  Peer = {p1}
  Asked = {"ab"}
  AppAsked = {"a"}
  Produced = {"a"}
  Added = {"ab"}
  Deleted = {"a"}
  QueueSize = 2
  MailboxSize = 1
  MaxPit = 1
  MaxCache = 2
  MaxRetrans = 1
  RetransTime = 1
  Lifetime = 1
  ContentTime = 1
  FaceTime = 1
  WaitTime = 1
INVARIANTS TypeOK InterestsLive Timed
PROPERTIES InterestsEnd WaitEnds
CHECK_DEADLOCK FALSE
