SPECIFICATION Spec
CONSTANTS
  p1 = p1
  v1 = v1
  v2 = v2
  Publishers <- OnePublisher
  Viewers <- TwoViewers
  Paths = {"push"}
  NULL = NULL
  HeaderTags = 3
  MaxTag = 2
  MaxRequests = 1
SYMMETRY ViewerSymmetry
INVARIANTS TypeOK HeaderFirst NoTagLost FanOutInOrder ClosedViewerForgotten
CHECK_DEADLOCK FALSE
