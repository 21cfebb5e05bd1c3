SPECIFICATION FairSpec
CONSTANTS
  a1 = a1
  a2 = a2
  MaxThreads = 2
  ThreadNums = {0, 2}
  Descriptors = {4, 5}
  Addresses <- Clients
  Keeps = {FALSE, TRUE}
  MaxConnections = 3
INVARIANTS WatchedChannelsLive LoadBalanced
PROPERTIES ImplementsConnectionLife LeftConnectionReleased
CHECK_DEADLOCK FALSE
