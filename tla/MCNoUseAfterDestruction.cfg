SPECIFICATION Spec
CONSTANTS
  p1 = p1
  v1 = v1
  v2 = v2
  Publishers <- OnePublisher
  Viewers <- OneViewer
  Paths = {"push"}
  NULL = NULL
  HeaderTags = 3
  MaxTag = 2
  MaxRequests = 1
INVARIANT NoUseAfterDestruction
CHECK_DEADLOCK FALSE
