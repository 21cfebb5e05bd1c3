SPECIFICATION FairSpec
CONSTANTS
  p1 = p1
  v1 = v1
  v2 = v2
  Publishers <- OnePublisher
  Viewers <- TwoViewers
  Paths = {"push"}
  NULL = NULL
  HeaderTags = 1
  MaxTag = 2
  MaxRequests = 1
PROPERTY TagReachesV1
CHECK_DEADLOCK FALSE
